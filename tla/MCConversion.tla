---------------------------- MODULE MCConversion ----------------------------
(***************************************************************************)
(* A caller starts from a foreign file of any kind: PEM, PKCS#12, PKCS#7   *)
(* and JKS with up to three certificates in every order, unparseable ones  *)
(* and one (q1) whose DER contains a PEM marker among them, and keystores  *)
(* with one or two entries.                                                *)
(***************************************************************************)
EXTENDS Conversion

CONSTANTS e1, e2, q1, a1, a2, k1, p1, p2

MCCert == {e1, e2, q1, a1, a2}

MCCA == {a1, a2}

MCKey == {k1}

MCPass == {p1, p2, NoPass}

MCAlias == {"certkit", "other"}

MCQuirk == [c \in MCCert |-> IF c = q1 THEN {"begin"} ELSE {}]

(* The orders of end entities, CAs and noise a container may hold.         *)
CertLists ==
    {<<e1>>, <<q1>>, <<a1>>, <<e1, a1>>, <<a1, e1>>, <<e1, e2>>, <<a1, a2>>, <<a1, q1>>,
     <<e1, a1, a2>>, <<a1, e1, e2>>, <<a1, e1, a2>>, <<e1, a1, e2>>, <<a1, a2, e1>>}

PEMFile(certs, keys) == PEMData([i \in DOMAIN certs |-> PEM("CERTIFICATE", certs[i])] \o keys)

PEMKeys == {<<>>, <<PEM("PRIVATE KEY", PKCS8(k1))>>}

ForeignEntry(p, certs) == KeyEntry(p, [form |-> "pkcs1", key |-> k1], certs)

MCForeignFiles ==
    {PEMFile(cs, ks) : cs \in CertLists \cup {<<>>}, ks \in PEMKeys}
    \cup {PKCS12Data(p1, k1, cs, TRUE) : cs \in CertLists}
    \cup {PKCS7Data(cs) : cs \in CertLists}
    \cup {DERData(c) : c \in {e1, q1, a1}}
    \cup {JKSData(p1, [a \in {"other"} |-> ForeignEntry(p1, cs)])
           : cs \in {<<e1, Noise, a1>>, <<a1, Noise, e1>>, <<a1, e1, e2>>}}
    \cup {JKSData(p1, [a \in MCAlias |->
                          IF a = "other" THEN TrustedEntry(a1) ELSE ForeignEntry(p, <<e1, a1>>)])
           : p \in {p1, p2}}

(* Filter, by positions, keeps what SelectSeq, by recursion, keeps.        *)
ASSUME FilterIsSelectSeq ==
    \A n \in 0..4 : \A s \in [1..n -> {e1, a1, Noise}], S \in SUBSET {e1, a1, Noise} :
        Filter(s, S) = SelectSeq(s, LAMBDA x : x \in S)

=============================================================================
