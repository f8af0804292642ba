----------------------------- MODULE MCRotation -----------------------------
(***************************************************************************)
(* Names of up to three characters: an ordinary one, a comma, a backslash, *)
(* another character that is escaped, and the label of the common name.    *)
(* Foreign certificates have any short name, or none, and a serial number  *)
(* and an organization that may contain that label where it is harmless    *)
(* and where it is not, DNS names and IP addresses.                        *)
(***************************************************************************)
EXTENDS Rotation

CONSTANTS a, plus, d1, d2, ip1

MCSpecial == {Comma, Backslash, plus}

MCChar == MCSpecial \cup {a, CN, Serial, O}

MCSan == {d1, d2, ip1}

Names(n) == UNION {[1..m -> MCSpecial \cup {a}] : m \in 0..n}

MCForeign ==
    {[cn |-> c, serial |-> n, org |-> o, dns |-> d, ips |-> i, key |-> 0]
     : c \in Names(2) \cup {<<CN, a>>, <<Comma, CN>>},
       n \in {<<>>, <<CN, a>>, <<Comma, CN>>, <<Comma, CN, plus>>},
       o \in {<<>>, <<a>>, <<a, Comma, CN, a>>},
       d \in {<<>>, <<d1>>}, i \in {<<>>, <<ip1>>}}

MCOptions == {[cn |-> c, dns |-> d] : c \in Names(1) \cup {<<a, Comma, plus>>, <<a, a, Backslash>>},
                                      d \in {<<>>, <<d2, d1>>}}

(* Names that need no escaping.                                            *)
MCPlainOptions == {opts \in MCOptions : Plain(opts.cn)}

=============================================================================
