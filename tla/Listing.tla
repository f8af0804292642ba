------------------------------ MODULE Listing ------------------------------
(***************************************************************************)
(* Lists cut out of other lists, the way a Go loop that appends some of    *)
(* the elements it sees does.  Filter is SelectSeq for a set instead of a  *)
(* predicate, and defined by positions instead of recursion: the prover    *)
(* knows nothing of SelectSeq.  (MCConversion has TLC compare the two.)    *)
(***************************************************************************)
EXTENDS Naturals, Sequences, FiniteSets

(* The members of a finite set of numbers in increasing order, each at the *)
(* index that is its rank.                                                 *)
InOrder(S) ==
    [i \in 1..Cardinality(S) |-> CHOOSE x \in S : Cardinality({y \in S : y <= x}) = i]

Pick(s, at) == [k \in DOMAIN at |-> s[at[k]]]

(* The elements of s that are in S, in their order.                        *)
Filter(s, S) == Pick(s, InOrder({i \in DOMAIN s : s[i] \in S}))

=============================================================================
