---------------------------- MODULE MCPEMStream ----------------------------
(***************************************************************************)
(* Two end-entity and two CA certificates, two keys, three passphrases.    *)
(* Streams: every sequence of up to three of the sixteen kinds of block,   *)
(* and every one of four or five certificates and plain keys.               *)
(***************************************************************************)
EXTENDS PEMStream

CONSTANTS e1, e2, a1, a2, k1, k2, p1, p2

MCCert == {e1, e2, a1, a2}

MCCA == {a1, a2}

MCKey == {k1, k2}

MCPass == {p1, p2, NoPass}

MCQuirk == [c \in MCCert |-> {}]

Encrypted(scheme, p, form, key, flukes) ==
    [scheme |-> scheme, pass |-> p, inner |-> [form |-> form, key |-> key], flukes |-> flukes]

Legacy(type, der) == [type |-> type, legacy |-> TRUE, der |-> der]

CertBlocks == {PEM("CERTIFICATE", c) : c \in MCCert \cup {Noise}}

PlainKey == PEM("PRIVATE KEY", PKCS8(k1))

MixedBlocks ==
    CertBlocks \cup
    {PEM("TRUSTED CERTIFICATE", e1),
     PlainKey,
     PEM("RSA PRIVATE KEY", [form |-> "pkcs1", key |-> k2]),
     PEM("EC PRIVATE KEY", Noise),
     PEM("ENCRYPTED PRIVATE KEY", Encrypted("pbes2", p1, "pkcs8", k1, {})),
     PEM("ENCRYPTED PRIVATE KEY", Encrypted("pbes2", p2, "pkcs8", k2, {p1})),
     PEM("ENCRYPTED PRIVATE KEY", Encrypted("foreign", p1, "pkcs8", k2, {p1})),
     Legacy("RSA PRIVATE KEY", Encrypted("rfc1423", p1, "pkcs1", k2, {})),
     Legacy("ENCRYPTED PRIVATE KEY", Encrypted("pbes2", p1, "pkcs8", k1, {})),
     PEM("OPENSSH PRIVATE KEY", Noise),
     PEM("CERTIFICATE REQUEST", Noise)}

Long(n) == [1..n -> {PEM("CERTIFICATE", e1), PEM("CERTIFICATE", a1), PEM("CERTIFICATE", a2), PlainKey}]

MCStreams == (UNION {[1..n -> MixedBlocks] : n \in 0..3}) \cup Long(4) \cup Long(5)

=============================================================================
