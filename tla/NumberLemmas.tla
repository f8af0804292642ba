---------------------------- MODULE NumberLemmas ----------------------------
(***************************************************************************)
(* Minimum and maximum of sets of numbers, and lists cut out of lists: the *)
(* lemmas the proofs about the first and the last block, certificate or    *)
(* comma, and about chains that lose entries, rest on.  The prover cannot  *)
(* use the library's induction theorems; the proofs by induction take the  *)
(* smallest counterexample (MinInSet) instead.                             *)
(***************************************************************************)
EXTENDS Listing, FiniteSetsExt, FiniteSetTheorems, SequenceTheorems, WellFoundedInduction, TLAPS

(* A member of a set of numbers that bounds it is its maximum.             *)
LEMMA MaxIs ==
    ASSUME NEW S \in SUBSET Nat, NEW m \in S, \A x \in S : x <= m
    PROVE  Max(S) = m
<1>1. \A y \in S : m >= y
  OBVIOUS
<1>2. \A x \in S : (\A y \in S : x >= y) => x = m
  OBVIOUS
<1> QED
  BY <1>1, <1>2, Zenon DEF Max

(* A member of a set of numbers that is below the others is its minimum.   *)
LEMMA MinIs ==
    ASSUME NEW S \in SUBSET Nat, NEW m \in S, \A x \in S : m <= x
    PROVE  Min(S) = m
<1>1. \A y \in S : m <= y
  OBVIOUS
<1>2. \A x \in S : (\A y \in S : x <= y) => x = m
  OBVIOUS
<1> QED
  BY <1>1, <1>2, Zenon DEF Min

(* Every non-empty set of numbers has its minimum as a member.             *)
LEMMA MinInSet ==
    ASSUME NEW S \in SUBSET Nat, S # {}
    PROVE  Min(S) \in S /\ \A x \in S : Min(S) <= x
<1>1. \E m \in S : \A x \in S : ~(<<x, m>> \in OpToRel(<, Nat))
  BY NatLessThanWellFounded, WFMin
<1>2. PICK m \in S : \A x \in S : ~(<<x, m>> \in OpToRel(<, Nat))
  BY <1>1
<1>3. \A x \in S : m <= x
  <2> TAKE x \in S
  <2>1. x \in Nat /\ m \in Nat
    OBVIOUS
  <2>2. x < m => <<x, m>> \in OpToRel(<, Nat)
    BY <2>1, Zenon DEF OpToRel
  <2>3. ~(x < m)
    BY <1>2, <2>2, Zenon
  <2> QED
    BY <2>1, <2>3
<1> QED
  BY <1>3, MinIs

(* Every non-empty set of numbers up to n has its maximum as a member.     *)
LEMMA MaxInSet ==
    ASSUME NEW n \in Nat, NEW S \in SUBSET (0..n), S # {}
    PROVE  Max(S) \in S /\ \A x \in S : x <= Max(S)
<1> DEFINE T == {n - x : x \in S}
<1>1. T \in SUBSET Nat /\ T # {}
  <2>1. \A x \in S : n - x \in Nat
    OBVIOUS
  <2>2. \A y \in T : y \in Nat
    BY <2>1
  <2>3. PICK x \in S : TRUE
    OBVIOUS
  <2>4. n - x \in T
    OBVIOUS
  <2> QED
    BY <2>2, <2>4
<1>2. Min(T) \in T /\ \A y \in T : Min(T) <= y
  <2> HIDE DEF T
  <2> QED
    BY <1>1, MinInSet
<1>3. PICK m \in S : Min(T) = n - m
  BY <1>2
<1>4. \A x \in S : n - x \in T
  OBVIOUS
<1>5. \A x \in S : n - m <= n - x
  BY <1>2, <1>3, <1>4
<1>6. \A x \in S : x <= m
  BY <1>5
<1> QED
  BY <1>6, MaxIs

-----------------------------------------------------------------------------
(* The order of sets of numbers.                                           *)

(* A strictly increasing sequence of numbers keeps and reflects order.     *)
LEMMA IncreasingEmbeds ==
    ASSUME NEW S \in SUBSET Nat, NEW n \in Nat, NEW o \in [1..n -> S],
           \A i, j \in 1..n : i < j => o[i] < o[j],
           NEW a \in 1..n, NEW b \in 1..n
    PROVE  (a <= b <=> o[a] <= o[b]) /\ (o[a] = o[b] => a = b)
<1>1. o[a] \in Nat /\ o[b] \in Nat
  OBVIOUS
<1>2. a < b \/ a = b \/ b < a
  OBVIOUS
<1>3. a < b => o[a] < o[b]
  OBVIOUS
<1>4. b < a => o[b] < o[a]
  OBVIOUS
<1> QED
  BY <1>1, <1>2, <1>3, <1>4

(* A strictly increasing enumeration of the first numbers of a listing is  *)
(* a bijection, so the rank of its i-th member is i.                       *)
LEMMA ListingRank ==
    ASSUME NEW S \in SUBSET Nat, NEW n \in Nat, NEW o \in [1..n -> S],
           \A x \in S : \E i \in 1..n : o[i] = x,
           \A i, j \in 1..n : i < j => o[i] < o[j],
           NEW k \in 1..n
    PROVE  Cardinality({y \in S : y <= o[k]}) = k
<1> DEFINE T == {y \in S : y <= o[k]}
           f == [i \in 1..k |-> o[i]]
<1>a. 1..k \subseteq 1..n
  OBVIOUS
<1>b. \A i \in 1..n : i <= k <=> o[i] <= o[k]
  BY IncreasingEmbeds
<1>c. \A i, j \in 1..n : o[i] = o[j] => i = j
  BY IncreasingEmbeds
<1>1. f \in [1..k -> T]
  BY <1>a, <1>b
<1>2. \A a, b \in 1..k : f[a] = f[b] => a = b
  BY <1>c, <1>a
<1>3. \A t \in T : \E a \in 1..k : f[a] = t
  <2> TAKE t \in T
  <2>1. PICK i \in 1..n : o[i] = t
    OBVIOUS
  <2>2. i \in 1..k
    BY <2>1, <1>b
  <2> QED
    BY <2>1, <2>2
<1>4. ExistsBijection(1..k, T)
  BY <1>1, <1>2, <1>3 DEF ExistsBijection, Bijection, Injection, Surjection, IsInjective
<1> QED
  BY <1>4, FS_CountingElements

(* InOrder is the only strictly increasing sequence of exactly the members *)
(* of a set of numbers.                                                    *)
LEMMA ListingIsInOrder ==
    ASSUME NEW S \in SUBSET Nat, NEW o \in Seq(S),
           \A x \in S : \E i \in DOMAIN o : o[i] = x,
           \A i, j \in DOMAIN o : i < j => o[i] < o[j]
    PROVE  InOrder(S) = o
<1> DEFINE n == Len(o)
<1>1. n \in Nat /\ o \in [1..n -> S] /\ DOMAIN o = 1..n
  BY LenProperties
<1>a. \A i, j \in 1..n : i < j => o[i] < o[j]
  BY <1>1
<1> HIDE DEF n
<1>2. \A a, b \in 1..n : o[a] = o[b] => a = b
  <2> TAKE a, b \in 1..n
  <2>1. o[a] \in Nat /\ o[b] \in Nat
    BY <1>1
  <2>2. a < b \/ a = b \/ b < a
    BY <1>1
  <2> QED
    BY <2>1, <2>2, <1>a
<1>3. ExistsBijection(1..n, S)
  BY <1>1, <1>2 DEF ExistsBijection, Bijection, Injection, Surjection, IsInjective
<1>4. Cardinality(S) = n
  BY <1>1, <1>3, FS_CountingElements
<1>5. ASSUME NEW k \in 1..n
      PROVE  (CHOOSE x \in S : Cardinality({y \in S : y <= x}) = k) = o[k]
  <2>1. \A j \in 1..n : Cardinality({y \in S : y <= o[j]}) = j
    BY <1>1, <1>a, ListingRank
  <2>2. \A x \in S : Cardinality({y \in S : y <= x}) = k => x = o[k]
    BY <2>1, <1>1
  <2> QED
    BY <2>1, <2>2, <1>1
<1> QED
  BY <1>1, <1>4, <1>5 DEF InOrder

(* A finite set with two members.                                          *)
LEMMA TwoMembers ==
    ASSUME NEW S, IsFiniteSet(S), NEW x \in S, NEW y \in S, x # y
    PROVE  Cardinality(S) > 1
<1> DEFINE X == {x}
           XY == X \cup {y}
<1>1. IsFiniteSet(X) /\ Cardinality(X) = 1
  BY FS_Singleton
<1>2. y \notin X /\ XY \in SUBSET S
  OBVIOUS
<1> HIDE DEF X
<1>3. Cardinality(XY) = 2
  BY <1>1, <1>2, FS_AddElement
<1> HIDE DEF XY
<1>4. Cardinality(XY) <= Cardinality(S) /\ Cardinality(S) \in Nat
  BY <1>2, FS_Subset, FS_CardinalityType
<1> QED
  BY <1>3, <1>4

(* t is a followed by b.                                                   *)
Joined(t, a, b) ==
    /\ Len(a) \in Nat /\ Len(b) \in Nat
    /\ Len(t) = Len(a) + Len(b) /\ DOMAIN t = 1..Len(a) + Len(b)
    /\ \A j \in 1..Len(a) : t[j] = a[j]
    /\ \A j \in 1..Len(b) : t[Len(a) + j] = b[j]

LEMMA ConcatJoins ==
    ASSUME NEW S, NEW a \in Seq(S), NEW b \in Seq(S)
    PROVE  a \o b \in Seq(S) /\ Joined(a \o b, a, b)
<1>1. Len(a) \in Nat /\ Len(b) \in Nat
  BY LenProperties
<1>2. /\ a \o b \in Seq(S)
      /\ Len(a \o b) = Len(a) + Len(b)
      /\ \A i \in 1..Len(a) + Len(b) : (a \o b)[i] = IF i <= Len(a) THEN a[i] ELSE b[i - Len(a)]
  BY ConcatProperties
<1>3. ASSUME NEW j \in 1..Len(a) PROVE (a \o b)[j] = a[j]
  <2>1. j \in 1..Len(a) + Len(b) /\ j <= Len(a)
    BY <1>1
  <2> QED
    BY <1>2, <2>1
<1>4. ASSUME NEW j \in 1..Len(b) PROVE (a \o b)[Len(a) + j] = b[j]
  <2>1. Len(a) + j \in 1..Len(a) + Len(b) /\ ~(Len(a) + j <= Len(a)) /\ Len(a) + j - Len(a) = j
    BY <1>1
  <2> QED
    BY <1>2, <2>1
<1>5. DOMAIN (a \o b) = 1..Len(a) + Len(b)
  BY <1>2, LenProperties
<1> QED
  BY <1>1, <1>2, <1>3, <1>4, <1>5 DEF Joined

(* o lists the members of S, each once, in increasing order.               *)
Lists(o, S) ==
    /\ o \in Seq(S)
    /\ \A x \in S : \E i \in DOMAIN o : o[i] = x
    /\ \A i, j \in DOMAIN o : i < j => o[i] < o[j]

(* Every bounded set of numbers can be listed.                             *)
LEMMA ListingExists ==
    ASSUME NEW n \in Nat, NEW S
    PROVE  \E o : Lists(o, S \cap 1..n)
<1> DEFINE Bad == {m \in Nat : ~(\E o : Lists(o, S \cap 1..m))}
<1> SUFFICES ASSUME Bad # {} PROVE FALSE
  OBVIOUS
<1> DEFINE m == Min(Bad)
<1>1. m \in Bad /\ \A x \in Bad : m <= x
  <2>1. Bad \in SUBSET Nat
    OBVIOUS
  <2> HIDE DEF Bad
  <2> QED
    BY <2>1, MinInSet
<1>2. m \in Nat /\ ~(\E o : Lists(o, S \cap 1..m))
  BY <1>1
<1>3. m # 0
  <2>1. S \cap 1..0 = {}
    OBVIOUS
  <2>2. Lists(<<>>, {})
    BY EmptySeq DEF Lists
  <2> QED
    BY <1>2, <2>1, <2>2
<1>4. m - 1 \in Nat /\ m - 1 \notin Bad
  <2> HIDE DEF Bad
  <2>1. m - 1 \in Nat /\ ~(m <= m - 1)
    BY <1>2, <1>3
  <2> QED
    BY <1>1, <2>1
<1>5. PICK o : Lists(o, S \cap 1..m - 1)
  BY <1>4
<1> HIDE DEF m, Bad
<1>6. o \in Seq(S \cap 1..m - 1) /\ Len(o) \in Nat /\ DOMAIN o = 1..Len(o)
  BY <1>5, LenProperties DEF Lists
<1>7. CASE m \notin S
  <2>1. S \cap 1..m = S \cap 1..m - 1
    BY <1>2, <1>7
  <2> QED
    BY <1>2, <1>5, <2>1
<1>8. CASE m \in S
  <2> DEFINE T == S \cap 1..m
             q == Append(o, m)
  <2>1. T = (S \cap 1..m - 1) \cup {m} /\ m \in T
    BY <1>2, <1>3, <1>8
  <2>2. o \in Seq(T)
    BY <1>6, <2>1, SeqMonotonic
  <2>3. /\ q \in Seq(T) /\ Len(q) = Len(o) + 1 /\ DOMAIN q = 1..Len(o) + 1
        /\ \A i \in 1..Len(o) : q[i] = o[i]
        /\ q[Len(o) + 1] = m
    BY <2>1, <2>2, AppendProperties, LenProperties
  <2>4. \A i \in 1..Len(o) : o[i] \in S \cap 1..m - 1
    BY <1>6, ElementOfSeq
  <2>5. \A i, j \in 1..Len(o) : i < j => o[i] < o[j]
    BY <1>5, <1>6 DEF Lists
  <2>6. \A x \in S \cap 1..m - 1 : \E i \in 1..Len(o) : o[i] = x
    BY <1>5, <1>6 DEF Lists
  <2> HIDE DEF q
  <2>7. \A x \in T : \E i \in DOMAIN q : q[i] = x
    <3> TAKE x \in T
    <3>1. CASE x = m
      <4>1. Len(o) + 1 \in 1..Len(o) + 1
        BY <1>6
      <4> QED
        BY <2>3, <3>1, <4>1
    <3>2. CASE x \in S \cap 1..m - 1
      <4>1. PICK i \in 1..Len(o) : o[i] = x
        BY <2>6, <3>2
      <4>2. i \in 1..Len(o) + 1
        BY <1>6
      <4> QED
        BY <2>3, <4>1, <4>2
    <3> QED
      BY <2>1, <3>1, <3>2
  <2>8. \A i, j \in DOMAIN q : i < j => q[i] < q[j]
    <3> SUFFICES ASSUME NEW i \in 1..Len(o) + 1, NEW j \in 1..Len(o) + 1, i < j
                 PROVE  q[i] < q[j]
      BY <2>3
    <3>1. i \in 1..Len(o)
      BY <1>6
    <3>2. CASE j \in 1..Len(o)
      BY <2>3, <2>5, <3>1, <3>2
    <3>3. CASE j = Len(o) + 1
      <4>1. o[i] \in 1..m - 1
        BY <2>4, <3>1
      <4>2. o[i] < m
        BY <1>2, <4>1
      <4> QED
        BY <2>3, <3>1, <3>3, <4>2
    <3> QED
      BY <1>6, <3>2, <3>3
  <2>9. Lists(q, T)
    BY <2>3, <2>7, <2>8 DEF Lists
  <2> QED
    BY <1>2, <2>9
<1> QED
  BY <1>7, <1>8

(* The listing of a set of numbers is unique.                              *)
LEMMA ListingIsUnique ==
    ASSUME NEW S \in SUBSET Nat, NEW o, Lists(o, S)
    PROVE  InOrder(S) = o
BY ListingIsInOrder DEF Lists

(* InOrder lists every set of positions.                                   *)
LEMMA InOrderLists ==
    ASSUME NEW n \in Nat, NEW S \in SUBSET (1..n)
    PROVE  Lists(InOrder(S), S)
<1>1. S \cap 1..n = S
  OBVIOUS
<1>a. \A x \in S : x \in Nat
  OBVIOUS
<1>b. S \in SUBSET Nat
  BY <1>a
<1>2. PICK o : Lists(o, S)
  BY <1>1, ListingExists
<1> QED
  BY <1>b, <1>2, ListingIsUnique

LEMMA PickType ==
    ASSUME NEW T, NEW s, NEW at \in Seq(DOMAIN s), \A i \in DOMAIN at : s[at[i]] \in T
    PROVE  /\ Pick(s, at) \in Seq(T)
           /\ DOMAIN Pick(s, at) = DOMAIN at
           /\ Len(Pick(s, at)) = Len(at)
           /\ \A i \in DOMAIN at : Pick(s, at)[i] = s[at[i]]
<1>1. Len(at) \in Nat /\ DOMAIN at = 1..Len(at)
  BY LenProperties
<1>2. Pick(s, at) \in [1..Len(at) -> T]
  BY <1>1 DEF Pick
<1>3. Pick(s, at) \in Seq(T)
  BY <1>1, <1>2, SeqDef
<1> QED
  BY <1>1, <1>2, <1>3, LenProperties DEF Pick

(* What Filter keeps, and from where.                                      *)
LEMMA FilterLists ==
    ASSUME NEW T, NEW s \in Seq(T), NEW S
    PROVE  LET at == InOrder({i \in DOMAIN s : s[i] \in S})
           IN /\ Lists(at, {i \in DOMAIN s : s[i] \in S})
              /\ at \in Seq(DOMAIN s)
              /\ Filter(s, S) = Pick(s, at)
              /\ Filter(s, S) \in Seq(T \cap S)
<1> DEFINE P == {i \in DOMAIN s : s[i] \in S}
           at == InOrder(P)
<1>1. Len(s) \in Nat /\ DOMAIN s = 1..Len(s) /\ P \in SUBSET (1..Len(s)) /\ P \subseteq DOMAIN s
  BY LenProperties
<1>2. Lists(at, P)
  <2> HIDE DEF P
  <2> QED
    BY <1>1, InOrderLists
<1>3. at \in Seq(P)
  BY <1>2 DEF Lists
<1>4. at \in Seq(DOMAIN s)
  <2> HIDE DEF P, at
  <2> QED
    BY <1>1, <1>3, SeqMonotonic
<1>5. \A i \in DOMAIN at : s[at[i]] \in T \cap S
  <2> TAKE i \in DOMAIN at
  <2>1. at[i] \in P
    <3> HIDE DEF P, at
    <3> QED
      BY <1>3, ElementOfSeq, LenProperties
  <2>2. s[at[i]] \in T
    BY <1>1, <2>1, ElementOfSeq
  <2> QED
    BY <2>1, <2>2
<1>6. Filter(s, S) = Pick(s, at)
  BY DEF Filter
<1>7. Pick(s, at) \in Seq(T \cap S)
  <2> HIDE DEF at
  <2> QED
    BY <1>4, <1>5, PickType
<1> QED
  BY <1>2, <1>4, <1>6, <1>7

(* Filter keeps a list of members of S as it is.                           *)
LEMMA FilterAll ==
    ASSUME NEW S, NEW s \in Seq(S)
    PROVE  Filter(s, S) = s
<1> DEFINE P == {i \in DOMAIN s : s[i] \in S}
           o == [i \in 1..Len(s) |-> i]
<1>1. Len(s) \in Nat /\ DOMAIN s = 1..Len(s) /\ \A i \in 1..Len(s) : s[i] \in S
  BY LenProperties, ElementOfSeq
<1>2. P = 1..Len(s) /\ P \in SUBSET Nat
  BY <1>1
<1>3. o \in Seq(P) /\ DOMAIN o = 1..Len(s)
  <2>1. o \in [1..Len(s) -> P]
    BY <1>2
  <2> QED
    BY <1>1, <2>1, SeqDef
<1>4. Lists(o, P)
  BY <1>1, <1>2, <1>3 DEF Lists
<1>5. InOrder(P) = o
  <2> HIDE DEF P, o
  <2> QED
    BY <1>2, <1>4, ListingIsUnique
<1>6. Pick(s, o) = s
  <2>1. Pick(s, o) = [k \in 1..Len(s) |-> s[k]]
    BY DEF Pick
  <2> QED
    BY <1>1, <2>1, SeqDef
<1> QED
  BY <1>5, <1>6 DEF Filter

(* The positions T in the listing at stand for the numbers S: order, first *)
(* and last are the same.                                                  *)
Mirrors(at, T, S) ==
    /\ T = {} <=> S = {}
    /\ InOrder(S) = Pick(at, InOrder(T))
    /\ S # {} => Min(S) = at[Min(T)] /\ Max(S) = at[Max(T)]

LEMMA ThroughListing ==
    ASSUME NEW n \in Nat, NEW P \in SUBSET (1..n), NEW at, Lists(at, P), NEW S \in SUBSET P,
           NEW T, T = {k \in DOMAIN at : at[k] \in S}
    PROVE  Mirrors(at, T, S)
<1> DEFINE q == InOrder(T)
           w == Pick(at, q)
<1>1. at \in Seq(P) /\ Len(at) \in Nat /\ DOMAIN at = 1..Len(at)
  BY LenProperties DEF Lists
<1>2. \A i \in P : i \in Nat /\ i \in 0..n
  OBVIOUS
<1>3. \A k \in 1..Len(at) : at[k] \in P /\ at[k] \in Nat
  BY <1>1, <1>2, ElementOfSeq
<1>4. \A i, j \in 1..Len(at) : i < j => at[i] < at[j]
  BY <1>1 DEF Lists
<1>5. \A x \in S : \E k \in T : at[k] = x
  BY DEF Lists
<1>6. T \in SUBSET (1..Len(at)) /\ \A k \in T : at[k] \in S
  BY <1>1
<1>7. Lists(q, T)
  BY <1>1, <1>6, InOrderLists
<1> HIDE DEF q
<1>8. q \in Seq(T) /\ Len(q) \in Nat /\ DOMAIN q = 1..Len(q)
  BY <1>7, LenProperties DEF Lists
<1>9. \A i \in 1..Len(q) : q[i] \in T /\ q[i] \in 1..Len(at)
  BY <1>6, <1>8, ElementOfSeq
<1>10. /\ w \in Seq(S) /\ DOMAIN w = 1..Len(q)
       /\ \A i \in 1..Len(q) : w[i] = at[q[i]]
  <2>1. q \in Seq(DOMAIN at)
    BY <1>1, <1>6, <1>8, SeqMonotonic
  <2>2. \A i \in DOMAIN q : at[q[i]] \in S
    BY <1>6, <1>8, <1>9
  <2>3. w \in Seq(S) /\ DOMAIN w = DOMAIN q
    BY <2>1, <2>2, PickType
  <2>4. \A i \in DOMAIN q : w[i] = at[q[i]]
    BY DEF Pick
  <2> HIDE DEF w
  <2> QED
    BY <1>8, <2>3, <2>4
<1> HIDE DEF w
<1>11. Lists(w, S)
  <2>1. \A x \in S : \E i \in DOMAIN w : w[i] = x
    <3> TAKE x \in S
    <3>1. PICK k \in T : at[k] = x
      BY <1>5
    <3>2. PICK i \in 1..Len(q) : q[i] = k
      BY <1>7, <1>8 DEF Lists
    <3> QED
      BY <1>10, <3>1, <3>2
  <2>2. \A i, j \in DOMAIN w : i < j => w[i] < w[j]
    <3> SUFFICES ASSUME NEW i \in 1..Len(q), NEW j \in 1..Len(q), i < j
                 PROVE  w[i] < w[j]
      BY <1>10
    <3>1. q[i] < q[j]
      BY <1>7, <1>8 DEF Lists
    <3> QED
      BY <1>4, <1>9, <1>10, <3>1
  <2> QED
    BY <1>10, <2>1, <2>2 DEF Lists
<1>12. S \in SUBSET Nat /\ S \in SUBSET (0..n)
  BY <1>2
<1>13. InOrder(S) = w
  BY <1>11, <1>12, ListingIsUnique
<1>14. T = {} <=> S = {}
  BY <1>5, <1>6
<1>15. T \in SUBSET Nat /\ T \in SUBSET (0..Len(at))
  <2>1. \A k \in 1..Len(at) : k \in Nat /\ k \in 0..Len(at)
    BY <1>1
  <2> QED
    BY <1>6, <2>1
<1>16. \A i, j \in 1..Len(at) : i <= j => at[i] <= at[j]
  <2> TAKE i, j \in 1..Len(at)
  <2>1. i <= j => i < j \/ i = j
    BY <1>1
  <2> QED
    BY <1>3, <1>4, <2>1
<1>17. ASSUME S # {}
       PROVE  Min(S) = at[Min(T)]
  <2> DEFINE m == Min(T)
  <2>1. m \in T /\ \A k \in T : m <= k
    BY <1>14, <1>15, <1>17, MinInSet
  <2> HIDE DEF m
  <2>2. at[m] \in S /\ \A x \in S : at[m] <= x
    BY <1>5, <1>6, <1>16, <2>1
  <2>3. Min(S) = at[m]
    BY <1>12, <2>2, MinIs
  <2> QED
    BY <2>3 DEF m
<1>18. ASSUME S # {}
       PROVE  Max(S) = at[Max(T)]
  <2> DEFINE m == Max(T)
  <2>1. m \in T /\ \A k \in T : k <= m
    BY <1>1, <1>14, <1>15, <1>18, MaxInSet
  <2> HIDE DEF m
  <2>2. at[m] \in S /\ \A x \in S : x <= at[m]
    BY <1>5, <1>6, <1>16, <2>1
  <2>3. Max(S) = at[m]
    BY <1>12, <2>2, MaxIs
  <2> QED
    BY <2>3 DEF m
<1> QED
  BY <1>13, <1>14, <1>17, <1>18 DEF Mirrors, q, w

=============================================================================
