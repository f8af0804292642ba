-------------------------- MODULE MCParseDispatch --------------------------
(***************************************************************************)
(* Inputs of every kind, with every marker DetectFormat looks for where it *)
(* belongs and where it does not: e2 and e3 are certificates whose DER     *)
(* contains another format's marker, and a PKCS#12 archive may hide its    *)
(* own.  Containers hold up to two or three certificates or entries.       *)
(***************************************************************************)
EXTENDS ParseDispatch

CONSTANTS e1, e2, e3, a1, k1, p1, p2

MCCert == {e1, e2, e3, a1}

MCCA == {a1}

MCKey == {k1}

MCPass == {p1, p2, NoPass}

MCAlias == {"certkit", "other"}

MCQuirk == [c \in MCCert |->
    CASE c = e2 -> {"pkcs12OID", "pkcs7OID"} [] c = e3 -> {"begin"} [] OTHER -> {}]

Lists(S, n) == UNION {[1..m -> S] : m \in 0..n}

PEMBlocks ==
    {PEM("CERTIFICATE", e1), PEM("CERTIFICATE", Noise), PEM("PRIVATE KEY", PKCS8(k1)),
     PEM("ENCRYPTED PRIVATE KEY",
         [scheme |-> "pbes2", pass |-> p1, inner |-> PKCS8(k1), flukes |-> {}]),
     PEM("OPENSSH PRIVATE KEY", Noise), PEM("X509 CRL", Noise)}

KeyEntries ==
    {KeyEntry(p, k, c) : p \in {p1, p2}, k \in {[form |-> "pkcs1", key |-> k1], Noise},
                         c \in Lists({e1, e3, Noise}, 2)}

TrustedEntries == {TrustedEntry(c) : c \in {e1, Noise}}

Keystores ==
    UNION {{JKSData(p1, es) : es \in [as -> KeyEntries \cup TrustedEntries]}
           : as \in {{}, {"other"}, MCAlias}}

MCInputs ==
    {PEMData(s) : s \in Lists(PEMBlocks, 2)}
    \cup {DERData(c) : c \in MCCert}
    \cup {PKCS12Data(p1, k, cs, v) : k \in {k1, Nil}, cs \in Lists({e1, a1}, 2), v \in BOOLEAN}
    \cup {PKCS7Data(cs) : cs \in Lists(MCCert, 3)}
    \cup Keystores
    \cup {JunkData(ms) : ms \in SUBSET Marker}

=============================================================================
