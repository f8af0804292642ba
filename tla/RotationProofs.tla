--------------------------- MODULE RotationProofs ---------------------------
(***************************************************************************)
(* Proofs about Rotation: what a name becomes when it is printed, cut out  *)
(* of the subject again and printed once more, for every name.             *)
(***************************************************************************)
EXTENDS Rotation, NumberLemmas, FiniteSetTheorems, SequenceTheorems, TLAPS

-----------------------------------------------------------------------------
(* Escaping.                                                               *)

(* A character is printed after as many backslashes as there are special   *)
(* characters up to it.                                                    *)
LEMMA PlaceType ==
    ASSUME NEW name \in Name, NEW i \in 0..Len(name)
    PROVE  Place(name, i) \in Nat /\ Place(name, i) >= i
<1> DEFINE before == {j \in 1..i : name[j] \in Special}
<1>1. i \in Nat
  BY DEF Name
<1>2. IsFiniteSet(1..i)
  BY <1>1, FS_Interval
<1>3. IsFiniteSet(before)
  BY <1>2, FS_Subset
<1>4. Cardinality(before) \in Nat
  BY <1>3, FS_CardinalityType
<1> HIDE DEF before
<1>5. Place(name, i) = i + Cardinality(before)
  BY DEF Place, before
<1> QED
  BY <1>1, <1>4, <1>5

(* Without special characters nothing moves.                               *)
LEMMA PlainPlace ==
    ASSUME NEW name \in Name, Plain(name), NEW i \in 0..Len(name)
    PROVE  Place(name, i) = i
<1>1. {j \in 1..i : name[j] \in Special} = {}
  BY DEF Plain, Name
<1>2. Place(name, i) = i + 0
  BY <1>1, FS_EmptySet DEF Place
<1> QED
  BY <1>2 DEF Name

(* An ordinary name is printed as it is.                                   *)
LEMMA EscapePlain ==
    ASSUME NEW name \in Name, Plain(name)
    PROVE  Escape(name) = name
<1>1. Len(name) \in Nat /\ DOMAIN name = 1..Len(name) /\ name \in [1..Len(name) -> Char]
  BY DEF Name
<1>2. Place(name, Len(name)) = Len(name)
  BY <1>1, PlainPlace
<1>3. \A i \in 1..Len(name) : Place(name, i) = i
  BY <1>1, PlainPlace
<1>4. ASSUME NEW p \in 1..Len(name)
      PROVE  /\ \E i \in DOMAIN name : Place(name, i) = p
             /\ (CHOOSE i \in DOMAIN name : Place(name, i) = p) = p
  BY <1>1, <1>3
<1>5. Escape(name) = [p \in 1..Len(name) |-> name[p]]
  BY <1>2, <1>4 DEF Escape
<1> QED
  BY <1>1, <1>5

(* A printed name is a name, not empty unless the name was, and does not   *)
(* start with a comma: if the name does, a backslash comes first.          *)
LEMMA EscapeType ==
    ASSUME NEW name \in Name, name # <<>>
    PROVE  Escape(name) \in Name /\ Escape(name) # <<>> /\ Escape(name)[1] # Comma
<1> DEFINE n == Place(name, Len(name))
           at(p) == CHOOSE i \in DOMAIN name : Place(name, i) = p
           char(p) == IF \E i \in DOMAIN name : Place(name, i) = p THEN name[at(p)] ELSE Backslash
<1>1. Len(name) \in Nat /\ Len(name) >= 1 /\ DOMAIN name = 1..Len(name)
  BY DEF Name
<1>2. n \in Nat /\ n >= 1
  <2>1. n >= Len(name) /\ n \in Nat
    BY <1>1, PlaceType
  <2> QED
    BY <1>1, <2>1
<1>3. Escape(name) = [p \in 1..n |-> char(p)]
  BY DEF Escape
<1>4. Backslash \in Char /\ Backslash # Comma /\ Comma \in Special
  BY CharAssumption
<1>5. \A p \in 1..n : (\E i \in DOMAIN name : Place(name, i) = p) =>
          at(p) \in DOMAIN name /\ Place(name, at(p)) = p
  OBVIOUS
<1>6. \A p \in 1..n : char(p) \in Char
  <2> TAKE p \in 1..n
  <2>1. CASE \E i \in DOMAIN name : Place(name, i) = p
    <3>1. at(p) \in 1..Len(name)
      BY <1>1, <1>5, <2>1
    <3>2. name[at(p)] \in Char
      BY <3>1 DEF Name
    <3> QED
      BY <2>1, <3>2
  <2>2. CASE ~\E i \in DOMAIN name : Place(name, i) = p
    BY <1>4, <2>2
  <2> QED
    BY <2>1, <2>2
<1>7. char(1) # Comma
  <2>1. CASE \E i \in DOMAIN name : Place(name, i) = 1
    <3>1. at(1) \in 1..Len(name) /\ Place(name, at(1)) = 1
      BY <1>1, <1>2, <1>5, <2>1
    <3>2. at(1) = 1
      <4> DEFINE k == at(1)
      <4>1. k \in 1..Len(name) /\ Place(name, k) = 1
        BY <3>1
      <4> HIDE DEF k
      <4>2. k = 1
        BY <1>1, <4>1, PlaceType
      <4> QED
        BY <4>2 DEF k
    <3>3. Place(name, 1) = 1
      BY <3>1, <3>2
    <3>4. name[1] \notin Special
      <4> SUFFICES ASSUME name[1] \in Special PROVE FALSE
        OBVIOUS
      <4>1. {j \in 1..1 : name[j] \in Special} = {1}
        OBVIOUS
      <4>2. Cardinality({1}) = 1
        BY FS_Singleton
      <4>3. Place(name, 1) = 1 + 1
        BY <4>1, <4>2 DEF Place
      <4> QED
        BY <3>3, <4>3
    <3>5. name[1] # Comma
      BY <1>4, <3>4
    <3> QED
      BY <2>1, <3>2, <3>5
  <2>2. CASE ~\E i \in DOMAIN name : Place(name, i) = 1
    BY <1>4, <2>2
  <2> QED
    BY <2>1, <2>2
<1> HIDE DEF n, char
<1>8. Escape(name) \in [1..n -> Char]
  BY <1>3, <1>6
<1>9. Escape(name) \in Name /\ Len(Escape(name)) = n
  BY <1>2, <1>8 DEF Name
<1>10. Escape(name)[1] = char(1)
  BY <1>2, <1>3
<1> QED
  BY <1>2, <1>7, <1>9, <1>10

LEMMA PlaceIncreases ==
    ASSUME NEW name \in Name, NEW i \in 0..Len(name), NEW j \in 0..Len(name), i < j
    PROVE  Place(name, i) < Place(name, j)
<1> DEFINE upTo(k) == {x \in 1..k : name[x] \in Special}
<1>1. i \in Nat /\ j \in Nat
  BY DEF Name
<1>2. IsFiniteSet(1..j) /\ upTo(j) \subseteq 1..j /\ upTo(i) \subseteq upTo(j)
  <2>1. \A x \in 1..i : x \in 1..j
    BY <1>1
  <2>2. IsFiniteSet(1..j)
    BY <1>1, FS_Interval
  <2>3. upTo(j) \subseteq 1..j
    OBVIOUS
  <2>4. upTo(i) \subseteq upTo(j)
    BY <2>1
  <2> QED
    BY <2>2, <2>3, <2>4
<1>3. IsFiniteSet(upTo(j))
  BY <1>2, FS_Subset
<1>4. /\ IsFiniteSet(upTo(i)) /\ Cardinality(upTo(i)) \in Nat /\ Cardinality(upTo(j)) \in Nat
      /\ Cardinality(upTo(i)) <= Cardinality(upTo(j))
  BY <1>2, <1>3, FS_Subset, FS_CardinalityType
<1>5. \A k : Place(name, k) = k + Cardinality(upTo(k))
  BY DEF Place
<1> HIDE DEF upTo
<1> QED
  BY <1>1, <1>4, <1>5

(* Every character of a name is printed at its place, and a backslash      *)
(* everywhere else.                                                        *)
LEMMA EscapedAt ==
    ASSUME NEW name \in Name
    PROVE  LET e == Escape(name)
           IN /\ e \in Name
              /\ \A i \in 1..Len(name) : Place(name, i) \in 1..Len(e) /\ e[Place(name, i)] = name[i]
              /\ \A p \in 1..Len(e) : e[p] # Backslash =>
                    \E i \in 1..Len(name) : Place(name, i) = p
<1> DEFINE n == Len(name)
           N == Place(name, n)
           at(p) == CHOOSE i \in DOMAIN name : Place(name, i) = p
           char(p) == IF \E i \in DOMAIN name : Place(name, i) = p THEN name[at(p)] ELSE Backslash
           e == [p \in 1..N |-> char(p)]
<1>1. n \in Nat /\ DOMAIN name = 1..n /\ n \in 0..n /\ \A i \in 1..n : name[i] \in Char /\ i \in 0..n
  BY DEF Name
<1>2. N \in Nat
  BY <1>1, PlaceType
<1>3. \A i, j \in 1..n : Place(name, i) = Place(name, j) => i = j
  <2> SUFFICES ASSUME NEW i \in 1..n, NEW j \in 1..n, Place(name, i) = Place(name, j), i # j PROVE FALSE
    OBVIOUS
  <2>1. i < j \/ j < i
    BY <1>1
  <2>2. Place(name, i) \in Nat
    BY <1>1, PlaceType
  <2>3. Place(name, i) < Place(name, j) \/ Place(name, j) < Place(name, i)
    BY <1>1, <2>1, PlaceIncreases
  <2> QED
    BY <2>2, <2>3
<1>4. \A i \in 1..n : Place(name, i) \in 1..N
  <2> SUFFICES ASSUME NEW i \in 1..n PROVE Place(name, i) \in 1..N
    OBVIOUS
  <2>1. Place(name, i) \in Nat /\ Place(name, i) >= i
    BY <1>1, PlaceType
  <2>2. i < n => Place(name, i) < N
    BY <1>1, PlaceIncreases
  <2>3. i = n => Place(name, i) = N
    OBVIOUS
  <2> HIDE DEF n, N
  <2>4. i \in Nat /\ i >= 1 /\ (i = n \/ i < n)
    BY <1>1
  <2> QED
    BY <1>2, <2>1, <2>2, <2>3, <2>4
<1>5. \A i \in 1..n : char(Place(name, i)) = name[i]
  <2> TAKE i \in 1..n
  <2> DEFINE k == at(Place(name, i))
  <2>1. \E j \in DOMAIN name : Place(name, j) = Place(name, i)
    BY <1>1
  <2>2. k \in 1..n /\ Place(name, k) = Place(name, i)
    BY <1>1, <2>1
  <2> HIDE DEF k
  <2>3. k = i
    BY <1>3, <2>2
  <2> QED
    BY <2>1, <2>3 DEF k
<1>6. \A p \in 1..N : char(p) \in Char /\ (char(p) # Backslash => \E i \in 1..n : Place(name, i) = p)
  <2> TAKE p \in 1..N
  <2>1. CASE \E i \in DOMAIN name : Place(name, i) = p
    <3>1. at(p) \in 1..n
      BY <1>1, <2>1
    <3>2. name[at(p)] \in Char
      BY <1>1, <3>1
    <3> QED
      BY <1>1, <2>1, <3>2
  <2>2. CASE ~\E i \in DOMAIN name : Place(name, i) = p
    BY <2>2, CharAssumption
  <2> QED
    BY <2>1, <2>2
<1>7. Escape(name) = e
  BY DEF Escape
<1> HIDE DEF char, N, n
<1>8. \A p \in 1..N : e[p] = char(p)
  OBVIOUS
<1>9. e \in Name /\ Len(e) = N
  <2>1. e \in [1..N -> Char]
    BY <1>6
  <2> QED
    BY <1>2, <2>1 DEF Name
<1> HIDE DEF e
<1> QED
  BY <1>4, <1>5, <1>6, <1>7, <1>8, <1>9 DEF n

(* No comma comes before a "CN=" in a printed value unless it does in the  *)
(* value: the backslash of an escape stands between nothing else.          *)
LEMMA EscapeHidesNothing ==
    ASSUME NEW name \in Name, ~Hides(name)
    PROVE  LET e == Escape(name)
           IN \A p \in 1..Len(e) : p + 1 \in 1..Len(e) /\ e[p] = Comma => e[p + 1] # CN
<1> DEFINE e == Escape(name)
<1>1. /\ e \in Name
      /\ \A i \in 1..Len(name) : Place(name, i) \in 1..Len(e) /\ e[Place(name, i)] = name[i]
      /\ \A p \in 1..Len(e) : e[p] # Backslash => \E i \in 1..Len(name) : Place(name, i) = p
  BY EscapedAt
<1> HIDE DEF e
<1> SUFFICES ASSUME NEW p \in 1..Len(e), p + 1 \in 1..Len(e), e[p] = Comma, e[p + 1] = CN
             PROVE  FALSE
  BY DEF e
<1>2. Comma # Backslash /\ CN # Backslash
  BY CharAssumption
<1>3. PICK i \in 1..Len(name) : Place(name, i) = p
  BY <1>1, <1>2
<1>4. PICK j \in 1..Len(name) : Place(name, j) = p + 1
  BY <1>1, <1>2
<1>5. name[i] = Comma /\ name[j] = CN
  BY <1>1, <1>3, <1>4
<1>6. Len(name) \in Nat /\ i \in Nat /\ j \in Nat /\ p \in Nat /\ i \in 0..Len(name) /\ j \in 0..Len(name)
  BY DEF Name
<1>7. i < j
  <2>1. i # j
    BY <1>3, <1>4, <1>6
  <2>2. j < i => Place(name, j) < Place(name, i)
    BY <1>6, PlaceIncreases
  <2> QED
    BY <1>3, <1>4, <1>6, <2>1, <2>2
<1>8. j = i + 1
  <2> SUFFICES ASSUME i + 1 < j PROVE FALSE
    BY <1>6, <1>7
  <2>1. i + 1 \in 0..Len(name)
    BY <1>6
  <2>2. Place(name, i) < Place(name, i + 1)
    BY <1>6, <2>1, PlaceIncreases
  <2>3. Place(name, i + 1) < Place(name, j)
    BY <1>6, <2>1, PlaceIncreases
  <2>4. Place(name, i + 1) \in Nat
    BY <2>1, PlaceType
  <2> QED
    BY <1>3, <1>4, <1>6, <2>2, <2>3, <2>4
<1>9. i \in 1..(Len(name) - 1) /\ name[i + 1] = CN
  BY <1>5, <1>6, <1>8
<1> QED
  BY <1>5, <1>9 DEF Hides

-----------------------------------------------------------------------------
(* Cutting the common name out of a printed subject.                       *)

(* What is left of a name cut at its first comma.                          *)
LEMMA CutFacts ==
    ASSUME NEW s \in Name
    PROVE  LET v == UpToComma(s)
           IN /\ v \in Name /\ Len(v) \in Nat /\ Len(v) <= Len(s)
              /\ \A i \in 1..Len(v) : v[i] = s[i] /\ s[i] # Comma
              /\ Len(v) < Len(s) => s[Len(v) + 1] = Comma
<1> DEFINE commas == {i \in DOMAIN s : s[i] = Comma}
           v == UpToComma(s)
<1>1. Len(s) \in Nat /\ DOMAIN s = 1..Len(s) /\ commas \subseteq Nat
  BY DEF Name
<1>2. CASE commas = {}
  <2>1. v = s
    BY <1>2 DEF UpToComma
  <2> QED
    BY <1>1, <1>2, <2>1
<1>3. CASE commas # {}
  <2> DEFINE m == Min(commas)
  <2>1. m \in commas /\ \A x \in commas : m <= x
    BY <1>1, <1>3, MinInSet
  <2>2. v = SubSeq(s, 1, m - 1)
    BY <1>3 DEF UpToComma
  <2> HIDE DEF m
  <2>3. m \in 1..Len(s) /\ s[m] = Comma
    BY <1>1, <2>1
  <2>4. m - 1 \in 0..Len(s) /\ m - 1 + 1 = m
    BY <1>1, <2>3
  <2>5. \A i \in 1..m - 1 : i \in 1..Len(s) /\ ~(m <= i)
    BY <1>1, <2>3
  <2>6. v \in Name /\ Len(v) = m - 1 /\ \A i \in 1..m - 1 : v[i] = s[i]
    BY <1>1, <2>2, <2>3, <2>4 DEF Name
  <2>7. \A i \in 1..m - 1 : s[i] # Comma
    BY <1>1, <2>1, <2>5
  <2> HIDE DEF v
  <2> QED
    BY <1>1, <2>3, <2>4, <2>6, <2>7 DEF v
<1> QED
  BY <1>2, <1>3

(* Cutting at a comma keeps names names, and a first character that is not *)
(* a comma.                                                                *)
LEMMA UpToCommaType ==
    ASSUME NEW e \in Name, e # <<>>, e[1] # Comma
    PROVE  UpToComma(e) \in Name /\ UpToComma(e) # <<>>
<1> DEFINE commas == {i \in DOMAIN e : e[i] = Comma}
<1>1. Len(e) \in Nat /\ DOMAIN e = 1..Len(e) /\ commas \subseteq Nat
  BY DEF Name
<1>2. CASE commas = {}
  BY <1>2 DEF UpToComma
<1>3. CASE commas # {}
  <2> DEFINE m == Min(commas)
  <2>1. m \in commas
    BY <1>1, <1>3, MinInSet
  <2>2. m \in 1..Len(e) /\ e[m] = Comma
    BY <1>1, <2>1
  <2>3. UpToComma(e) = SubSeq(e, 1, m - 1)
    BY <1>3 DEF UpToComma
  <2> HIDE DEF m
  <2>4. m >= 2 /\ m - 1 \in 1..Len(e)
    BY <1>1, <2>2
  <2>5. SubSeq(e, 1, m - 1) \in Name /\ Len(SubSeq(e, 1, m - 1)) = m - 1
    BY <1>1, <2>4 DEF Name
  <2> QED
    BY <2>3, <2>4, <2>5
<1> QED
  BY <1>2, <1>3

(* Attributes behind a name, which a comma separates, do not change where  *)
(* the name is cut.                                                        *)
LEMMA UpToCommaIgnoresRest ==
    ASSUME NEW S, NEW e \in Seq(S), NEW t \in Seq(S), t # <<>> => t[1] = Comma
    PROVE  UpToComma(e \o t) = UpToComma(e)
<1> DEFINE s == e \o t
           here == {i \in DOMAIN e : e[i] = Comma}
           all == {i \in DOMAIN s : s[i] = Comma}
<1>1. /\ s \in Seq(S) /\ Len(e) \in Nat /\ Len(t) \in Nat
      /\ Len(s) = Len(e) + Len(t)
      /\ DOMAIN s = 1..Len(s) /\ DOMAIN e = 1..Len(e)
      /\ \A i \in 1..Len(e) : s[i] = e[i]
  OBVIOUS
<1>2. CASE t = <<>>
  BY <1>2
<1>3. CASE t # <<>>
  <2>1. Len(t) >= 1 /\ t[1] = Comma
    BY <1>1, <1>3
  <2>2. s[Len(e) + 1] = Comma
    <3>1. s[Len(e) + 1] = t[1]
      BY <1>1, <2>1
    <3> QED
      BY <2>1, <3>1
  <2> HIDE DEF s
  <2>3. Len(e) + 1 \in all /\ all \subseteq Nat /\ all # {}
    BY <1>1, <2>1, <2>2
  <2>4. Min(all) \in all /\ \A i \in all : Min(all) <= i
    BY <2>3, MinInSet
  <2>5. UpToComma(s) = SubSeq(s, 1, Min(all) - 1)
    BY <2>3 DEF UpToComma
  <2>6. CASE here = {}
    <3>1. \A i \in all : Len(e) + 1 <= i
      BY <1>1, <2>6
    <3>2. Min(all) = Len(e) + 1
      BY <2>3, <3>1, MinIs
    <3>3. SubSeq(s, 1, Len(e)) = e
      <4>1. SubSeq(s, 1, Len(e)) \in Seq(S) /\ Len(SubSeq(s, 1, Len(e))) = Len(e)
        BY <1>1
      <4>2. \A i \in 1..Len(e) : SubSeq(s, 1, Len(e))[i] = e[i]
        BY <1>1
      <4> DEFINE cut == SubSeq(s, 1, Len(e))
      <4>3. cut \in Seq(S) /\ Len(cut) = Len(e) /\ \A i \in 1..Len(cut) : cut[i] = e[i]
        BY <4>1, <4>2
      <4> HIDE DEF cut
      <4>4. cut = e
        BY <4>3, SeqEqual
      <4> QED
        BY <4>4 DEF cut
    <3>4. Min(all) - 1 = Len(e)
      BY <1>1, <3>2
    <3>5. UpToComma(e) = e
      BY <2>6 DEF UpToComma
    <3> QED
      BY <2>5, <3>3, <3>4, <3>5 DEF s
  <2>7. CASE here # {}
    <3>0. here \subseteq Nat
      BY <1>1
    <3>1. here \subseteq Nat /\ Min(here) \in here /\ \A i \in here : Min(here) <= i
      <4> HIDE DEF here
      <4> QED
        BY <2>7, <3>0, MinInSet
    <3>2. Min(here) \in all
      BY <1>1, <3>1
    <3>3. \A i \in all : Min(here) <= i
      <4> TAKE i \in all
      <4>1. CASE i <= Len(e)
        BY <1>1, <3>1, <4>1
      <4>2. CASE ~(i <= Len(e))
        BY <1>1, <3>1, <4>2
      <4> QED
        BY <4>1, <4>2
    <3>4. Min(all) = Min(here)
      BY <2>3, <3>2, <3>3, MinIs
    <3>5. UpToComma(e) = SubSeq(e, 1, Min(here) - 1)
      BY <2>7 DEF UpToComma
    <3>6. Min(here) \in 1..Len(e)
      BY <1>1, <3>1
    <3> DEFINE m == Min(here)
    <3>7. m \in 1..Len(e)
      BY <3>6
    <3> HIDE DEF m
    <3>8. SubSeq(s, 1, m - 1) = SubSeq(e, 1, m - 1)
      <4>1. /\ SubSeq(s, 1, m - 1) \in Seq(S) /\ Len(SubSeq(s, 1, m - 1)) = m - 1
            /\ SubSeq(e, 1, m - 1) \in Seq(S) /\ Len(SubSeq(e, 1, m - 1)) = m - 1
        BY <1>1, <3>7
      <4>2. \A i \in 1..(m - 1) : SubSeq(s, 1, m - 1)[i] = SubSeq(e, 1, m - 1)[i]
        BY <1>1, <3>7
      <4> QED
        BY <4>1, <4>2
    <3> QED
      BY <2>5, <3>4, <3>5, <3>8 DEF s, m
  <2> QED
    BY <2>6, <2>7
<1> QED
  BY <1>2, <1>3

(* Printed attributes and what is joined of them are names.                *)
LEMMA AttributeType ==
    ASSUME NEW label \in Char, NEW value \in Name
    PROVE  Attribute(label, value) \in Name
<1>1. CASE value = <<>>
  BY <1>1 DEF Attribute, Name
<1>2. CASE value # <<>>
  <2> DEFINE e == Escape(value)
  <2>1. e \in Seq(Char)
    BY <1>2, EscapeType DEF Name
  <2> HIDE DEF e
  <2>2. <<label>> \o e \in Seq(Char)
    BY <2>1
  <2> QED
    BY <1>2, <2>2 DEF Attribute, Name, e
<1> QED
  BY <1>1, <1>2

LEMMA SeparatedType ==
    ASSUME NEW left \in Name, NEW right \in Name
    PROVE  Separated(left, right) \in Name
<1>1. Comma \in Char
  BY CharAssumption
<1>2. left \o right \in Seq(Char) /\ left \o <<Comma>> \o right \in Seq(Char)
  BY <1>1 DEF Name
<1> QED
  BY <1>2 DEF Separated, Name

(* The positions of the two sides of a joint.                              *)
LEMMA SeparatedAt ==
    ASSUME NEW left \in Name, NEW right \in Name, left # <<>>, right # <<>>
    PROVE  LET s == Separated(left, right)
           IN /\ s \in Name /\ Len(left) \in Nat /\ Len(right) \in Nat
              /\ Len(s) = Len(left) + 1 + Len(right)
              /\ \A i \in 1..Len(left) : s[i] = left[i]
              /\ s[Len(left) + 1] = Comma
              /\ \A i \in 1..Len(right) : s[Len(left) + 1 + i] = right[i]
<1> DEFINE lc == left \o <<Comma>>
<1>1. Comma \in Char /\ left \in Seq(Char) /\ right \in Seq(Char)
  BY CharAssumption DEF Name
<1>2. /\ lc \in Seq(Char) /\ Len(left) \in Nat /\ Len(right) \in Nat
      /\ Len(lc) = Len(left) + 1
      /\ \A i \in 1..Len(left) : lc[i] = left[i]
      /\ lc[Len(left) + 1] = Comma
  BY <1>1
<1>3. Separated(left, right) = lc \o right
  BY DEF Separated
<1> HIDE DEF lc
<1>4. /\ lc \o right \in Seq(Char)
      /\ Len(lc \o right) = Len(lc) + Len(right)
      /\ \A i \in 1..Len(lc) : (lc \o right)[i] = lc[i]
      /\ \A i \in 1..Len(right) : (lc \o right)[Len(lc) + i] = right[i]
  BY <1>1, <1>2
<1>5. \A i \in 1..Len(left) : i \in 1..Len(lc)
  BY <1>2
<1>6. Len(left) + 1 \in 1..Len(lc)
  BY <1>2
<1> DEFINE r == lc \o right
<1> HIDE DEF r
<1>7. /\ r \in Name /\ Len(r) = Len(left) + 1 + Len(right)
      /\ \A i \in 1..Len(left) : r[i] = left[i]
      /\ r[Len(left) + 1] = Comma
      /\ \A i \in 1..Len(right) : r[Len(left) + 1 + i] = right[i]
  BY <1>2, <1>4, <1>5, <1>6 DEF r, Name
<1> QED
  BY <1>2, <1>3, <1>7 DEF r

(* Nothing that looks like a common name is printed for another attribute  *)
(* that hides none.                                                        *)
LEMMA NoStartInAttribute ==
    ASSUME NEW label \in {Serial, O}, NEW value \in Name, ~Hides(value)
    PROVE  CommonNameStarts(Attribute(label, value)) = {}
<1>1. CASE value = <<>>
  BY <1>1 DEF Attribute, CommonNameStarts
<1>2. CASE value # <<>>
  <2> DEFINE e == Escape(value)
             a == <<label>> \o e
  <2>1. e \in Seq(Char) /\ \A p \in 1..Len(e) : p + 1 \in 1..Len(e) /\ e[p] = Comma => e[p + 1] # CN
    BY <1>2, EscapeType, EscapeHidesNothing DEF Name
  <2> HIDE DEF e
  <2>2. label # CN /\ label # Comma
    BY CharAssumption
  <2>3. /\ Len(e) \in Nat /\ DOMAIN a = 1..(Len(e) + 1) /\ a[1] = label
        /\ \A i \in 2..(Len(e) + 1) : a[i] = e[i - 1]
    BY <2>1
  <2> HIDE DEF a
  <2>4. ASSUME NEW i \in DOMAIN a, a[i] = CN, i = 1 \/ a[i - 1] = Comma
        PROVE  FALSE
    <3>1. i \in 2..(Len(e) + 1) /\ e[i - 1] = CN /\ a[i - 1] = Comma
      BY <2>2, <2>3, <2>4
    <3>2. i # 2
      BY <2>2, <2>3, <3>1
    <3>3. i - 1 \in 2..(Len(e) + 1) /\ e[i - 2] = Comma
      BY <2>3, <3>1, <3>2
    <3>4. i - 2 \in 1..Len(e) /\ i - 2 + 1 = i - 1 /\ i - 1 \in 1..Len(e)
      BY <2>3, <3>1, <3>2
    <3> QED
      BY <2>1, <3>1, <3>3, <3>4
  <2>5. CommonNameStarts(a) = {}
    BY <2>4 DEF CommonNameStarts
  <2> QED
    BY <1>2, <2>5 DEF Attribute, a, e
<1> QED
  BY <1>1, <1>2

LEMMA NoStartInSeparated ==
    ASSUME NEW left \in Name, CommonNameStarts(left) = {},
           NEW right \in Name, CommonNameStarts(right) = {}
    PROVE  CommonNameStarts(Separated(left, right)) = {}
<1>1. CASE left = <<>> \/ right = <<>>
  <2>1. Separated(left, right) = left \o right
    BY <1>1 DEF Separated
  <2>2. left \o right = IF left = <<>> THEN right ELSE left
    BY <1>1, ConcatEmptySeq DEF Name
  <2> QED
    BY <2>1, <2>2
<1>2. CASE left # <<>> /\ right # <<>>
  <2> DEFINE s == Separated(left, right)
             n == Len(left)
  <2>1. /\ s \in Name /\ n \in Nat /\ Len(right) \in Nat
        /\ Len(s) = n + 1 + Len(right)
        /\ \A i \in 1..n : s[i] = left[i]
        /\ s[n + 1] = Comma
        /\ \A i \in 1..Len(right) : s[n + 1 + i] = right[i]
    BY <1>2, SeparatedAt
  <2>2. DOMAIN left = 1..n /\ DOMAIN right = 1..Len(right) /\ DOMAIN s = 1..Len(s)
    BY <2>1 DEF Name
  <2> HIDE DEF s, n
  <2>3. CN # Comma
    BY CharAssumption
  <2>4. ASSUME NEW i \in DOMAIN s, s[i] = CN, i = 1 \/ s[i - 1] = Comma
        PROVE  FALSE
    <3>1. i \in Nat /\ i >= 1 /\ i <= n + 1 + Len(right) /\ i # n + 1
      BY <2>1, <2>2, <2>3, <2>4
    <3>2. CASE i <= n
      <4>1. i \in DOMAIN left /\ left[i] = CN
        BY <2>1, <2>2, <2>4, <3>1, <3>2
      <4>2. i = 1 \/ left[i - 1] = Comma
        BY <2>1, <2>4, <3>1, <3>2
      <4> QED
        BY <4>1, <4>2 DEF CommonNameStarts
    <3>3. CASE i > n + 1
      <4> DEFINE j == i - (n + 1)
      <4>1. /\ j \in 1..Len(right) /\ n + 1 + j = i
            /\ j # 1 => j - 1 \in 1..Len(right)
            /\ n + 1 + (j - 1) = i - 1
        <5>1. j \in Int /\ j >= 1 /\ j <= Len(right)
          BY <2>1, <3>1, <3>3
        <5>2. n + 1 + j = i /\ n + 1 + (j - 1) = i - 1
          BY <2>1, <3>1
        <5> HIDE DEF j
        <5>3. j \in 1..Len(right) /\ (j # 1 => j - 1 \in 1..Len(right))
          BY <2>1, <5>1
        <5> QED
          BY <5>2, <5>3
      <4> HIDE DEF j
      <4>2. right[j] = CN
        BY <2>1, <2>4, <4>1
      <4>3. j = 1 \/ right[j - 1] = Comma
        <5> SUFFICES ASSUME j # 1 PROVE right[j - 1] = Comma
          OBVIOUS
        <5>1. i # 1
          BY <2>1, <3>3
        <5>2. s[n + 1 + (j - 1)] = right[j - 1]
          BY <2>1, <4>1
        <5> QED
          BY <2>4, <4>1, <5>1, <5>2
      <4> QED
        BY <2>2, <4>1, <4>2, <4>3 DEF CommonNameStarts
    <3> QED
      BY <2>1, <3>1, <3>2, <3>3
  <2> QED
    BY <2>4 DEF CommonNameStarts, s
<1> QED
  BY <1>1, <1>2

(* What commonNameFromSubject returns is some name.                        *)
LEMMA CommonNameType ==
    ASSUME NEW subject \in Name
    PROVE  CommonNameFromSubject(subject) \in Name
<1>1. CASE CommonNameStarts(subject) = {}
  BY <1>1 DEF CommonNameFromSubject, Name
<1>2. CASE CommonNameStarts(subject) # {}
  <2> DEFINE k == Min(CommonNameStarts(subject))
  <2>1. Len(subject) \in Nat /\ DOMAIN subject = 1..Len(subject)
    BY DEF Name
  <2>2. CommonNameStarts(subject) \subseteq Nat /\ CommonNameStarts(subject) \subseteq 1..Len(subject)
    BY <2>1 DEF CommonNameStarts
  <2>3. k \in 1..Len(subject)
    BY <1>2, <2>2, MinInSet
  <2> HIDE DEF k
  <2>4. SubSeq(subject, k + 1, Len(subject)) \in Name
    BY <2>1, <2>3 DEF Name
  <2> QED
    BY <1>2, <2>4, CutFacts DEF CommonNameFromSubject, k
<1> QED
  BY <1>1, <1>2

(* The first part that starts with "CN=" is the common name, if nothing    *)
(* before it does.                                                         *)
LEMMA FirstStart ==
    ASSUME NEW left \in Name, CommonNameStarts(left) = {}, NEW rest \in Name
    PROVE  CommonNameFromSubject(Separated(left, <<CN>> \o rest)) = UpToComma(rest)
<1> DEFINE right == <<CN>> \o rest
           s == Separated(left, right)
           k == IF left = <<>> THEN 1 ELSE Len(left) + 2
<1>1. CN \in Char /\ CN # Comma
  BY CharAssumption
<1>2. /\ right \in Name /\ right # <<>> /\ Len(rest) \in Nat /\ Len(right) = Len(rest) + 1
      /\ right[1] = CN /\ \A i \in 1..Len(rest) : right[i + 1] = rest[i]
  BY <1>1 DEF Name
<1> HIDE DEF right
<1>3. /\ s \in Name /\ k \in Nat /\ k >= 1 /\ Len(s) = k + Len(rest) /\ s[k] = CN
      /\ (k = 1 \/ s[k - 1] = Comma)
      /\ \A i \in 1..Len(rest) : s[k + i] = rest[i]
      /\ \A i \in 1..(k - 1) : ~(s[i] = CN /\ (i = 1 \/ s[i - 1] = Comma))
  <2>1. CASE left = <<>>
    <3>1. s = right
      <4>1. s = left \o right
        BY <2>1 DEF Separated
      <4> QED
        BY <1>2, <2>1, <4>1, ConcatEmptySeq DEF Name
    <3>2. \A i \in 1..Len(rest) : 1 + i = i + 1
      BY <1>2
    <3> HIDE DEF s
    <3>3. \A i \in 1..Len(rest) : s[1 + i] = rest[i]
      BY <1>2, <3>1, <3>2
    <3>4. k = 1
      BY <2>1
    <3> QED
      BY <1>2, <3>1, <3>3, <3>4
  <2>2. CASE left # <<>>
    <3> DEFINE n == Len(left)
    <3>1. /\ s \in Name /\ n \in Nat
          /\ Len(s) = n + 1 + Len(right)
          /\ \A i \in 1..n : s[i] = left[i]
          /\ s[n + 1] = Comma
          /\ \A i \in 1..Len(right) : s[n + 1 + i] = right[i]
      BY <1>2, <2>2, SeparatedAt
    <3>2. DOMAIN left = 1..n
      BY DEF Name
    <3>3. k = n + 2
      BY <2>2
    <3> HIDE DEF s, n, k
    <3>4. s[k] = CN
      <4>1. 1 \in 1..Len(right) /\ n + 1 + 1 = k
        BY <1>2, <3>1, <3>3
      <4> QED
        BY <1>2, <3>1, <4>1
    <3>5. \A i \in 1..Len(rest) : s[k + i] = rest[i]
      <4> TAKE i \in 1..Len(rest)
      <4>1. i + 1 \in 1..Len(right) /\ n + 1 + (i + 1) = k + i
        BY <1>2, <3>1, <3>3
      <4> QED
        BY <1>2, <3>1, <4>1
    <3>6. ASSUME NEW i \in 1..(k - 1), s[i] = CN, i = 1 \/ s[i - 1] = Comma
          PROVE  FALSE
      <4>1. i \in 1..n
        BY <1>1, <3>1, <3>3, <3>6
      <4>2. left[i] = CN /\ (i = 1 \/ left[i - 1] = Comma)
        <5>1. i # 1 => i - 1 \in 1..n
          BY <3>1, <4>1
        <5> QED
          BY <3>1, <3>6, <4>1, <5>1
      <4> QED
        BY <3>2, <4>1, <4>2 DEF CommonNameStarts
    <3>7. k - 1 = n + 1 /\ k \in Nat /\ k >= 1
      BY <3>1, <3>3
    <3> QED
      BY <1>2, <3>1, <3>3, <3>4, <3>5, <3>6, <3>7
  <2> QED
    BY <2>1, <2>2
<1> HIDE DEF s, k
<1> DEFINE starts == CommonNameStarts(s)
<1>4. DOMAIN s = 1..Len(s)
  BY <1>3 DEF Name
<1>5. starts \subseteq Nat /\ k \in starts
  BY <1>2, <1>3, <1>4 DEF CommonNameStarts
<1>6. \A i \in starts : k <= i
  <2> SUFFICES ASSUME NEW i \in starts, ~(k <= i) PROVE FALSE
    OBVIOUS
  <2>1. i \in 1..Len(s) /\ s[i] = CN /\ (i = 1 \/ s[i - 1] = Comma)
    BY <1>4 DEF CommonNameStarts
  <2>2. i \in 1..(k - 1)
    BY <1>2, <1>3, <2>1
  <2> QED
    BY <1>3, <2>1, <2>2
<1>7. Min(starts) = k /\ starts # {}
  <2> HIDE DEF starts
  <2> QED
    BY <1>5, <1>6, MinIs
<1>8. SubSeq(s, k + 1, Len(s)) = rest
  <2> DEFINE cut == SubSeq(s, k + 1, Len(s))
  <2>1. s \in Seq(Char) /\ rest \in Seq(Char)
    BY <1>3 DEF Name
  <2>2. cut \in Seq(Char) /\ Len(cut) = Len(rest)
    BY <1>2, <1>3, <2>1
  <2>3. \A i \in 1..Len(rest) : cut[i] = s[k + i]
    BY <1>2, <1>3, <2>1
  <2> HIDE DEF cut
  <2>4. \A i \in 1..Len(rest) : cut[i] = rest[i]
    BY <1>3, <2>3
  <2>5. cut = rest
    BY <2>1, <2>2, <2>4, SeqEqual
  <2> QED
    BY <2>5 DEF cut
<1>9. CommonNameFromSubject(s) = UpToComma(SubSeq(s, k + 1, Len(s)))
  BY <1>7 DEF CommonNameFromSubject
<1> QED
  BY <1>8, <1>9 DEF s, right

(* commonNameFromSubject returns the printed common name up to its first   *)
(* comma, whatever stands before and behind it, and nothing if there is no *)
(* common name and no other attribute hides one.                           *)
LEMMA CommonNameFound ==
    ASSUME NEW c \in Certificate, ~Misleading(c)
    PROVE  CommonNameFromSubject(SubjectString(c))
               = IF c.cn = <<>> THEN <<>> ELSE UpToComma(Escape(c.cn))
<1> DEFINE a == Attribute(Serial, c.serial)
           m == Attribute(CN, c.cn)
           b == Attribute(O, c.org)
<1>1. c.cn \in Name /\ c.serial \in Name /\ c.org \in Name
  BY DEF Certificate
<1>2. a \in Name /\ b \in Name
  BY <1>1, AttributeType, CharAssumption
<1>3. CommonNameStarts(a) = {}
  BY <1>1, NoStartInAttribute DEF Misleading
<1>4. SubjectString(c) = Separated(a, Separated(m, b))
  BY DEF SubjectString
<1>5. CASE c.cn = <<>>
  <2>1. m = <<>>
    BY <1>5 DEF Attribute
  <2>2. CommonNameStarts(b) = {}
    BY <1>1, <1>5, NoStartInAttribute DEF Misleading
  <2> HIDE DEF a, b, m
  <2>3. Separated(m, b) = b
    BY <1>2, <2>1, ConcatEmptySeq DEF Separated, Name
  <2>4. CommonNameStarts(SubjectString(c)) = {}
    BY <1>2, <1>3, <1>4, <2>2, <2>3, NoStartInSeparated
  <2> QED
    BY <1>5, <2>4 DEF CommonNameFromSubject
<1>6. CASE c.cn # <<>>
  <2> DEFINE e == Escape(c.cn)
             t == IF b = <<>> THEN <<>> ELSE <<Comma>> \o b
  <2>1. e \in Seq(Char)
    BY <1>1, <1>6, EscapeType DEF Name
  <2>2. m = <<CN>> \o e
    BY <1>6 DEF Attribute
  <2> HIDE DEF a, b, m, e
  <2>3. CN \in Char /\ Comma \in Char /\ b \in Seq(Char)
    BY <1>2, CharAssumption DEF Name
  <2>4. t \in Seq(Char) /\ (t # <<>> => t[1] = Comma)
    BY <2>3
  <2>5. Separated(m, b) = <<CN>> \o (e \o t)
    <3>1. CASE b = <<>>
      BY <2>1, <2>2, <2>3, <3>1, ConcatEmptySeq DEF Separated
    <3>2. CASE b # <<>>
      <4>1. m # <<>>
        BY <2>1, <2>2, <2>3
      <4>2. Separated(m, b) = (<<CN>> \o e) \o <<Comma>> \o b
        BY <2>2, <3>2, <4>1 DEF Separated
      <4>3. (<<CN>> \o e) \o <<Comma>> \o b = <<CN>> \o (e \o (<<Comma>> \o b))
        BY <2>1, <2>3, ConcatAssociative
      <4> QED
        BY <3>2, <4>2, <4>3
    <3> QED
      BY <3>1, <3>2
  <2> HIDE DEF t
  <2>6. e \o t \in Name
    BY <2>1, <2>4 DEF Name
  <2>7. CommonNameFromSubject(SubjectString(c)) = UpToComma(e \o t)
    BY <1>2, <1>3, <1>4, <2>5, <2>6, FirstStart
  <2>8. UpToComma(e \o t) = UpToComma(e)
    BY <2>1, <2>4, UpToCommaIgnoresRest
  <2> QED
    BY <1>6, <2>7, <2>8 DEF e
<1> QED
  BY <1>5, <1>6

(* A certificate with a common name can be rotated without restating it,   *)
(* whatever other attributes it has, unless its serial number hides a name:*)
(* the name derived is never empty, whatever it is made of, and exact if   *)
(* nothing in it is escaped (generate.go:149-162).                         *)
THEOREM DerivedNameUsable ==
    ASSUME NEW c \in Certificate, c.cn # <<>>, ~Hides(c.serial)
    PROVE  /\ CommonNameFromSubject(SubjectString(c)) \in Name
           /\ CommonNameFromSubject(SubjectString(c)) # <<>>
           /\ Plain(c.cn) => CommonNameFromSubject(SubjectString(c)) = c.cn
<1>1. c.cn \in Name
  BY DEF Certificate
<1>2. CommonNameFromSubject(SubjectString(c)) = UpToComma(Escape(c.cn))
  BY CommonNameFound DEF Misleading
<1>3. Escape(c.cn) \in Name /\ Escape(c.cn) # <<>> /\ Escape(c.cn)[1] # Comma
  BY <1>1, EscapeType
<1>4. UpToComma(Escape(c.cn)) \in Name /\ UpToComma(Escape(c.cn)) # <<>>
  BY <1>3, UpToCommaType
<1>5. ASSUME Plain(c.cn) PROVE UpToComma(Escape(c.cn)) = c.cn
  <2>1. Escape(c.cn) = c.cn
    BY <1>1, <1>5, EscapePlain
  <2>2. {i \in DOMAIN c.cn : c.cn[i] = Comma} = {}
    BY <1>5, CharAssumption DEF Plain
  <2> QED
    BY <2>1, <2>2 DEF UpToComma
<1> QED
  BY <1>2, <1>4, <1>5

-----------------------------------------------------------------------------
(* What a name with escaped characters turns into.                         *)

(* Printed and cut, a name is cut at the same comma, and escaped before it. *)
LEMMA EscapedThenCut ==
    ASSUME NEW name \in Name
    PROVE  LET u == UpToComma(Escape(name))
               v == UpToComma(name)
           IN /\ u \in Name
              /\ Len(u) >= Len(v)
              /\ \A i \in 1..Len(v) : Place(name, i) \in 1..Len(u) /\ u[Place(name, i)] = v[i]
              /\ \A p \in 1..Len(u) : u[p] # Backslash => \E i \in 1..Len(v) : Place(name, i) = p
<1> DEFINE e == Escape(name)
           u == UpToComma(e)
           v == UpToComma(name)
           n == Len(name)
           m == Len(v)
<1>1. /\ e \in Name
      /\ \A i \in 1..n : Place(name, i) \in 1..Len(e) /\ e[Place(name, i)] = name[i]
      /\ \A p \in 1..Len(e) : e[p] # Backslash => \E i \in 1..n : Place(name, i) = p
  BY EscapedAt
<1> HIDE DEF e
<1>2. /\ u \in Name /\ Len(u) \in Nat /\ Len(u) <= Len(e) /\ Len(e) \in Nat
      /\ \A p \in 1..Len(u) : u[p] = e[p] /\ e[p] # Comma
      /\ Len(u) < Len(e) => e[Len(u) + 1] = Comma
  <2>1. Len(e) \in Nat
    BY <1>1 DEF Name
  <2> QED
    BY <1>1, <2>1, CutFacts
<1>3. /\ m \in Nat /\ n \in Nat /\ m <= n
      /\ \A i \in 1..m : v[i] = name[i] /\ name[i] # Comma
      /\ m < n => name[m + 1] = Comma
  <2>1. n \in Nat
    BY DEF Name
  <2> QED
    BY <2>1, CutFacts
<1>4. \A i \in 1..n : i \in 0..n /\ Place(name, i) \in Nat /\ Place(name, i) >= i
  <2>1. \A i \in 1..n : i \in 0..n
    BY <1>3
  <2> QED
    BY <2>1, PlaceType
<1>5. \A i, j \in 1..n : i < j => Place(name, i) < Place(name, j)
  BY <1>4, PlaceIncreases
<1> HIDE DEF u, v, n, m
<1>6. ASSUME NEW i \in 1..m
      PROVE  Place(name, i) \in 1..Len(u)
  <2>1. i \in 1..n
    BY <1>3
  <2>2. Place(name, i) \in 1..Len(e)
    BY <1>1, <2>1
  <2> SUFFICES ASSUME ~(Place(name, i) <= Len(u)) PROVE FALSE
    BY <1>2, <2>2
  <2>3. Len(u) + 1 <= Place(name, i) /\ Len(u) + 1 \in 1..Len(e) /\ Len(u) < Len(e)
    BY <1>2, <2>2
  <2>4. e[Len(u) + 1] = Comma /\ Comma # Backslash
    BY <1>2, <2>3, CharAssumption
  <2>5. PICK j \in 1..n : Place(name, j) = Len(u) + 1
    BY <1>1, <2>3, <2>4
  <2>6. name[j] = Comma
    BY <1>1, <2>4, <2>5
  <2>7. ~(i < j)
    <3>1. i < j => Place(name, i) < Place(name, j)
      BY <1>5, <2>1
    <3> QED
      BY <1>4, <2>1, <2>3, <2>5, <3>1
  <2>8. j \in 1..m
    BY <1>3, <2>1, <2>7
  <2> QED
    BY <1>3, <2>6, <2>8
<1>7. ASSUME NEW i \in 1..m
      PROVE  u[Place(name, i)] = v[i]
  <2>1. i \in 1..n
    BY <1>3
  <2> QED
    BY <1>1, <1>2, <1>3, <1>6, <2>1
<1>8. ASSUME NEW p \in 1..Len(u), u[p] # Backslash
      PROVE  \E i \in 1..m : Place(name, i) = p
  <2>1. p \in 1..Len(e) /\ u[p] = e[p]
    BY <1>2
  <2>2. PICK i \in 1..n : Place(name, i) = p
    BY <1>1, <1>8, <2>1
  <2>3. ASSUME ~(i <= m)
        PROVE  FALSE
    <3>1. m + 1 \in 1..n /\ m < n /\ (i = m + 1 \/ m + 1 < i)
      BY <1>3, <2>3
    <3>2. name[m + 1] = Comma
      BY <1>3, <3>1
    <3> DEFINE x == Place(name, m + 1)
    <3>3. x \in 1..Len(e) /\ e[x] = Comma /\ x \in Nat
      BY <1>1, <1>4, <3>1, <3>2
    <3>4. m + 1 < i => x < Place(name, i)
      BY <1>5, <3>1
    <3> HIDE DEF x
    <3>5. i = m + 1 => x = p
      BY <2>2 DEF x
    <3>6. x \in 1..Len(u)
      BY <1>2, <2>2, <3>1, <3>3, <3>4, <3>5
    <3> QED
      BY <1>2, <3>3, <3>6
  <2> QED
    BY <1>3, <2>2, <2>3
<1>9. Len(u) >= m
  <2>1. CASE m = 0
    BY <1>2, <2>1
  <2>2. CASE m # 0
    <3>1. m \in 1..m /\ m \in 1..n
      BY <1>3, <2>2
    <3> QED
      BY <1>2, <1>3, <1>4, <1>6, <3>1
  <2> QED
    BY <2>1, <2>2
<1> QED
  BY <1>2, <1>6, <1>7, <1>8, <1>9 DEF e, u, v, m

(* But for its backslashes it is what stood before the comma.              *)
LEMMA EscapedThenCutIsBare ==
    ASSUME NEW name \in Name
    PROVE  Bare(UpToComma(Escape(name))) = Bare(UpToComma(name))
<1> DEFINE u == UpToComma(Escape(name))
           v == UpToComma(name)
           m == Len(v)
           at == [i \in 1..m |-> Place(name, i)]
           P == {Place(name, i) : i \in 1..m}
           C == Char \ {Backslash}
           S == {i \in DOMAIN v : v[i] \in C}
           T == {p \in DOMAIN u : u[p] \in C}
           q == InOrder(S)
<1>1. /\ u \in Name
      /\ \A i \in 1..m : Place(name, i) \in 1..Len(u) /\ u[Place(name, i)] = v[i]
      /\ \A p \in 1..Len(u) : u[p] # Backslash => \E i \in 1..m : Place(name, i) = p
  BY EscapedThenCut
<1>2. v \in Name /\ m \in Nat /\ DOMAIN v = 1..m /\ m <= Len(name)
  BY CutFacts DEF Name
<1>3. Len(u) \in Nat /\ DOMAIN u = 1..Len(u)
  BY <1>1 DEF Name
<1>4. \A i, j \in 1..m : i < j => Place(name, i) < Place(name, j)
  <2>1. \A i \in 1..m : i \in 0..Len(name)
    BY <1>2 DEF Name
  <2> QED
    BY <2>1, PlaceIncreases
<1> HIDE DEF u, v, m, C
<1>5. P \in SUBSET (1..Len(u))
  BY <1>1
<1>6. at \in Seq(P) /\ DOMAIN at = 1..m /\ Len(at) = m /\ \A i \in 1..m : at[i] = Place(name, i)
  <2>1. at \in [1..m -> P] /\ DOMAIN at = 1..m /\ \A i \in 1..m : at[i] = Place(name, i)
    OBVIOUS
  <2> HIDE DEF at, P
  <2>2. at \in Seq(P)
    BY <1>2, <2>1, SeqDef
  <2>3. Len(at) = m
    BY <1>2, <2>1, <2>2, LenProperties
  <2> QED
    BY <2>1, <2>2, <2>3
<1>7. \A x \in P : \E i \in 1..m : at[i] = x
  BY <1>6
<1> HIDE DEF at, P
<1>8. Lists(at, P)
  BY <1>4, <1>6, <1>7 DEF Lists
<1>9. T \in SUBSET P
  <2> SUFFICES ASSUME NEW p \in T PROVE p \in P
    OBVIOUS
  <2>1. p \in 1..Len(u) /\ u[p] # Backslash
    BY <1>3 DEF C
  <2> QED
    BY <1>1, <2>1 DEF P
<1>10. S = {k \in DOMAIN at : at[k] \in T}
  <2>1. \A k \in 1..m : at[k] \in 1..Len(u) /\ u[at[k]] = v[k]
    BY <1>1, <1>6
  <2> QED
    BY <1>2, <1>3, <1>6, <2>1
<1>11. S \in SUBSET (1..m)
  BY <1>2
<1> HIDE DEF S, T
<1>12. InOrder(T) = Pick(at, q)
  <2>1. Mirrors(at, S, T)
    BY <1>3, <1>5, <1>8, <1>9, <1>10, ThroughListing
  <2> QED
    BY <2>1 DEF Mirrors
<1>13. q \in Seq(S)
  BY <1>2, <1>11, InOrderLists DEF Lists
<1>14. \A k \in DOMAIN q : q[k] \in 1..m
  <2>1. DOMAIN q = 1..Len(q)
    BY <1>13, LenProperties
  <2> QED
    BY <1>11, <1>13, <2>1, ElementOfSeq
<1> HIDE DEF q
<1>15. Bare(u) = [k \in DOMAIN q |-> u[at[q[k]]]]
  <2>1. Bare(u) = Pick(u, Pick(at, q))
    BY <1>12 DEF Bare, Filter, T, C
  <2> QED
    BY <2>1 DEF Pick
<1>16. Bare(v) = [k \in DOMAIN q |-> v[q[k]]]
  BY DEF Bare, Filter, Pick, S, C, q
<1>17. \A k \in DOMAIN q : u[at[q[k]]] = v[q[k]]
  BY <1>1, <1>6, <1>14
<1> QED
  BY <1>15, <1>16, <1>17 DEF u, v

-----------------------------------------------------------------------------
(* The service.                                                            *)

(* A bundle made from a certificate is one.                                *)
LEMMA BundleType ==
    ASSUME NEW c \in Certificate
    PROVE  /\ BundleOf(c) \in Bundle
           /\ BundleOf(c).leaf = c
           /\ BundleOf(c).meta.subject = SubjectString(c)
           /\ BundleOf(c).meta.sans = c.dns \o c.ips
<1>1. c.cn \in Name /\ c.serial \in Name /\ c.org \in Name /\ c.dns \in Seq(San) /\ c.ips \in Seq(San)
  BY DEF Certificate
<1>2. SubjectString(c) \in Name
  BY <1>1, AttributeType, SeparatedType, CharAssumption DEF SubjectString
<1>3. c.dns \o c.ips \in Seq(San)
  BY <1>1
<1> QED
  BY <1>2, <1>3 DEF Bundle, BundleOf, MetaFromLeaf

(* What holds of a bundle in use and of what was asked of it.              *)
UseOK(b, g) ==
    /\ b \in Bundle
    /\ b = BundleOf(b.leaf)
    /\ b.leaf.key # 0 => b.leaf.cn # <<>> /\ b.leaf.serial = <<>>
    /\ g.cn \in Name /\ g.sans \in Seq(San)
    /\ Misleading(b.leaf) => g.misled
    /\ Plain(g.cn) /\ ~g.misled => b.leaf.cn = g.cn
    /\ b.meta.sans = g.sans
    /\ b.leaf.key # 0 => b.leaf.dns = g.sans /\ b.leaf.ips = <<>>

RotationInv ==
    /\ UseOK(current, given.current)
    /\ next # None => UseOK(next, given.next)
    /\ given.next.cn \in Name /\ given.next.sans \in Seq(San)
    /\ DOMAIN given = {"current", "next"}
    /\ keys \in 0..MaxKeys
    /\ refused \in BOOLEAN
    /\ RefusedOnlyNameless

LEMMA NothingHidden == ~Hides(<<>>)
BY DEF Hides

(* What the options amount to, and when they lack a name.                  *)
LEMMA OptionsUsed ==
    ASSUME NEW b, NEW g, UseOK(b, g), NEW opts \in GenOpts
    PROVE  /\ RotateOptions(b, opts).cn \in Name
           /\ RotateOptions(b, opts).dns = IF opts.dns = <<>> THEN g.sans ELSE opts.dns
           /\ RotateOptions(b, opts).dns \in Seq(San)
           /\ opts.cn # <<>> => RotateOptions(b, opts).cn = opts.cn
           /\ opts.cn = <<>> /\ Plain(b.leaf.cn) /\ ~Misleading(b.leaf) =>
                 RotateOptions(b, opts).cn = b.leaf.cn
           /\ RotateOptions(b, opts).cn = <<>> => b.leaf.cn = <<>> \/ Hides(b.leaf.serial)
<1>1. b.leaf \in Certificate /\ b.leaf.cn \in Name
  BY DEF UseOK, Bundle, Certificate
<1>2. b.meta.subject = SubjectString(b.leaf) /\ b.meta.sans = g.sans /\ g.sans \in Seq(San)
  <2>1. b = BundleOf(b.leaf)
    BY DEF UseOK
  <2> QED
    BY <1>1, <2>1, BundleType DEF UseOK
<1>3. opts.cn \in Name /\ opts.dns \in Seq(San)
  BY DEF GenOpts
<1> DEFINE derived == CommonNameFromSubject(b.meta.subject)
<1>4. derived \in Name
  <2>1. SubjectString(b.leaf) \in Name
    BY <1>1, BundleType DEF Bundle
  <2> QED
    BY <1>2, <2>1, CommonNameType
<1>6. ASSUME derived = <<>> PROVE b.leaf.cn = <<>> \/ Hides(b.leaf.serial)
  BY <1>1, <1>2, <1>6, DerivedNameUsable
<1>7. ASSUME Plain(b.leaf.cn), ~Misleading(b.leaf) PROVE derived = b.leaf.cn
  <2>1. CASE b.leaf.cn # <<>>
    BY <1>1, <1>2, <1>7, <2>1, DerivedNameUsable DEF Misleading
  <2>2. CASE b.leaf.cn = <<>>
    BY <1>1, <1>2, <1>7, <2>2, CommonNameFound
  <2> QED
    BY <2>1, <2>2
<1> HIDE DEF derived
<1>5. /\ RotateOptions(b, opts).cn = IF opts.cn = <<>> THEN derived ELSE opts.cn
      /\ RotateOptions(b, opts).dns = IF opts.dns = <<>> THEN b.meta.sans ELSE opts.dns
  BY DEF RotateOptions, derived
<1> QED
  BY <1>2, <1>3, <1>4, <1>5, <1>6, <1>7

(* A rotation makes a bundle that is as it was asked for.                  *)
LEMMA MadeAsAsked ==
    ASSUME RotationInv, NEW opts \in Options, NEW made, made = Rotate(current, opts, keys + 1)
    PROVE  /\ made = None => /\ current.leaf.key = 0
                           /\ (current.leaf.cn = <<>> \/ Hides(current.leaf.serial))
           /\ made # None => UseOK(made, GivenNext(opts))
<1> DEFINE o == RotateOptions(current, opts)
           c == [cn |-> o.cn, serial |-> <<>>, org |-> <<>>, dns |-> o.dns, ips |-> <<>>, key |-> keys + 1]
<1>1. opts \in GenOpts /\ opts.cn \in Name /\ opts.dns \in Seq(San) /\ keys + 1 \in Nat \ {0}
  BY InputsAssumption, MaxKeysAssumption DEF GenOpts, RotationInv
<1>2. UseOK(current, given.current)
  BY DEF RotationInv
<1>3. /\ o.cn \in Name
      /\ o.dns = IF opts.dns = <<>> THEN given.current.sans ELSE opts.dns
      /\ o.dns \in Seq(San)
      /\ opts.cn # <<>> => o.cn = opts.cn
      /\ opts.cn = <<>> /\ Plain(current.leaf.cn) /\ ~Misleading(current.leaf) => o.cn = current.leaf.cn
      /\ o.cn = <<>> => current.leaf.cn = <<>> \/ Hides(current.leaf.serial)
  BY <1>1, <1>2, OptionsUsed
<1> HIDE DEF o
<1>4. c \in Certificate
  BY <1>1, <1>3 DEF Certificate, Name
<1>5. BundleOf(c) # None
  BY <1>4, BundleType, NoneAssumption
<1>6. made = IF o.cn = <<>> THEN None ELSE BundleOf(c)
  BY DEF Rotate, GenerateSelfSigned, o
<1>7. CASE o.cn = <<>>
  BY <1>2, <1>3, <1>6, <1>7, NothingHidden DEF UseOK
<1>8. CASE o.cn # <<>>
  <2>1. made = BundleOf(c) /\ made # None
    BY <1>5, <1>6, <1>8
  <2> DEFINE g == GivenNext(opts)
  <2>2. /\ g.cn = IF opts.cn = <<>> THEN given.current.cn ELSE opts.cn
        /\ g.sans = IF opts.dns = <<>> THEN given.current.sans ELSE opts.dns
        /\ g.misled = (opts.cn = <<>> /\ given.current.misled)
    BY DEF GivenNext
  <2> HIDE DEF g
  <2>3. g.cn \in Name /\ g.sans \in Seq(San) /\ g.sans = o.dns
    BY <1>1, <1>2, <1>3, <2>2 DEF UseOK
  <2>4. c.cn = o.cn /\ c.serial = <<>> /\ c.dns = o.dns /\ c.ips = <<>> /\ c.key # 0
    BY <1>1
  <2>5. Plain(g.cn) /\ ~g.misled => c.cn = g.cn
    <3>1. CASE opts.cn # <<>>
      BY <1>3, <2>2, <2>4, <3>1
    <3>2. CASE opts.cn = <<>>
      BY <1>2, <1>3, <2>2, <2>4, <3>2 DEF UseOK
    <3> QED
      BY <3>1, <3>2
  <2> HIDE DEF c
  <2>6. BundleOf(c) \in Bundle /\ BundleOf(c).leaf = c /\ BundleOf(c).meta.sans = c.dns \o c.ips
    BY <1>4, BundleType
  <2>7. c.dns \o c.ips = o.dns
    <3>1. o.dns \o <<>> = o.dns
      BY <1>3, ConcatEmptySeq
    <3> QED
      BY <2>4, <3>1
  <2>8. ~Misleading(c)
    BY <1>8, <2>4, NothingHidden DEF Misleading
  <2>9. UseOK(BundleOf(c), g)
    BY <1>8, <2>3, <2>4, <2>5, <2>6, <2>7, <2>8 DEF UseOK
  <2> QED
    BY <2>1, <2>9 DEF g
<1> QED
  BY <1>7, <1>8

(* A service starts with a bundle that is as it was given.                 *)
LEMMA InitRotation == Init => RotationInv
<1> SUFFICES ASSUME Init PROVE RotationInv
  OBVIOUS
<1>1. next = None /\ refused = FALSE /\ <<>> \in Name /\ <<>> \in Seq(San)
  BY DEF Init, Name
<1>2. CASE \E opts \in Options :
               /\ opts.cn # <<>>
               /\ current = GenerateSelfSigned(opts, 1)
               /\ keys = 1
               /\ given = [current |-> Given(opts.cn, opts.dns, FALSE), next |-> Nothing]
  <2>1. PICK opts \in Options :
               /\ opts.cn # <<>>
               /\ current = GenerateSelfSigned(opts, 1)
               /\ keys = 1
               /\ given = [current |-> Given(opts.cn, opts.dns, FALSE), next |-> Nothing]
    BY <1>2
  <2> DEFINE c == [cn |-> opts.cn, serial |-> <<>>, org |-> <<>>, dns |-> opts.dns, ips |-> <<>>, key |-> 1]
  <2>2. opts.cn \in Name /\ opts.dns \in Seq(San)
    BY InputsAssumption DEF GenOpts
  <2>3. c \in Certificate
    BY <1>1, <2>2 DEF Certificate
  <2>4. c.cn = opts.cn /\ c.serial = <<>> /\ c.dns = opts.dns /\ c.ips = <<>> /\ c.key = 1
    OBVIOUS
  <2>5. current = BundleOf(c)
    BY <2>1 DEF GenerateSelfSigned
  <2> HIDE DEF c
  <2>6. current \in Bundle /\ current.leaf = c /\ current.meta.sans = c.dns \o c.ips
    BY <2>3, <2>5, BundleType
  <2>7. c.dns \o c.ips = opts.dns
    BY <2>2, <2>4, ConcatEmptySeq
  <2>8. /\ given.current = Given(opts.cn, opts.dns, FALSE)
        /\ given.next = Nothing
        /\ DOMAIN given = {"current", "next"}
    BY <2>1
  <2>9. given.current.cn = opts.cn /\ given.current.sans = opts.dns
        /\ given.next.cn = <<>> /\ given.next.sans = <<>>
    BY <2>8 DEF Given, Nothing
  <2>10. UseOK(current, given.current)
    BY <2>1, <2>2, <2>4, <2>5, <2>6, <2>7, <2>9, NothingHidden DEF UseOK, Misleading
  <2>11. keys \in 0..MaxKeys
    BY <2>1, MaxKeysAssumption
  <2> QED
    BY <1>1, <2>8, <2>9, <2>10, <2>11 DEF RotationInv, RefusedOnlyNameless
<1>3. CASE \E c \in Foreign :
               /\ current = BundleOf(c)
               /\ keys = 0
               /\ given = [current |-> Given(c.cn, c.dns \o c.ips, Misleading(c)), next |-> Nothing]
  <2>1. PICK c \in Foreign :
               /\ current = BundleOf(c)
               /\ keys = 0
               /\ given = [current |-> Given(c.cn, c.dns \o c.ips, Misleading(c)), next |-> Nothing]
    BY <1>3
  <2>2. c \in Certificate /\ c.key = 0
    BY InputsAssumption
  <2>3. c.cn \in Name /\ c.dns \in Seq(San) /\ c.ips \in Seq(San)
    BY <2>2 DEF Certificate
  <2>4. c.dns \o c.ips \in Seq(San)
    BY <2>3
  <2>5. current \in Bundle /\ current.leaf = c /\ current.meta.sans = c.dns \o c.ips
    BY <2>1, <2>2, BundleType
  <2>6. /\ given.current = Given(c.cn, c.dns \o c.ips, Misleading(c))
        /\ given.next = Nothing
        /\ DOMAIN given = {"current", "next"}
    BY <2>1
  <2>7. /\ given.current.cn = c.cn /\ given.current.sans = c.dns \o c.ips
        /\ given.current.misled = Misleading(c)
        /\ given.next.cn = <<>> /\ given.next.sans = <<>>
    <3> DEFINE sans == c.dns \o c.ips
    <3>1. given.current = Given(c.cn, sans, Misleading(c))
      BY <2>6
    <3> HIDE DEF sans
    <3>2. given.current.cn = c.cn /\ given.current.sans = sans /\ given.current.misled = Misleading(c)
      BY <3>1 DEF Given
    <3>3. given.next.cn = <<>> /\ given.next.sans = <<>>
      BY <2>6 DEF Given, Nothing
    <3> QED
      BY <3>2, <3>3 DEF sans
  <2>8. UseOK(current, given.current)
    BY <2>1, <2>2, <2>3, <2>4, <2>5, <2>7 DEF UseOK
  <2>9. keys \in 0..MaxKeys
    BY <2>1, MaxKeysAssumption
  <2> QED
    BY <1>1, <2>6, <2>7, <2>8, <2>9 DEF RotationInv, RefusedOnlyNameless
<1> QED
  BY <1>2, <1>3 DEF Init

(* Rotations and cut-overs keep it so.                                     *)
LEMMA StepRotation == RotationInv /\ [Next]_vars => RotationInv'
<1> SUFFICES ASSUME RotationInv, [Next]_vars PROVE RotationInv'
  OBVIOUS
<1>1. ASSUME NEW opts \in Options, RotateNext(opts) PROVE RotationInv'
  <2> DEFINE made == Rotate(current, opts, keys + 1)
  <2>1. /\ made = None => /\ current.leaf.key = 0
                          /\ (current.leaf.cn = <<>> \/ Hides(current.leaf.serial))
        /\ made # None => UseOK(made, GivenNext(opts))
    BY MadeAsAsked
  <2> HIDE DEF made
  <2>2. /\ keys < MaxKeys
        /\ refused' = (made = None)
        /\ current' = current
        /\ made = None => next' = next /\ given' = given /\ keys' = keys
        /\ made # None => /\ next' = made
                          /\ keys' = keys + 1
                          /\ given' = [given EXCEPT !.next = GivenNext(opts)]
    BY <1>1 DEF RotateNext, made
  <2>3. refused' \in BOOLEAN /\ RefusedOnlyNameless'
    BY <2>1, <2>2 DEF RefusedOnlyNameless
  <2>4. CASE made = None
    BY <2>2, <2>3, <2>4 DEF RotationInv
  <2>5. CASE made # None
    <3>1. given'.current = given.current /\ given'.next = GivenNext(opts)
          /\ DOMAIN given' = {"current", "next"}
      BY <2>2, <2>5 DEF RotationInv
    <3>2. keys' \in 0..MaxKeys
      BY <2>2, <2>5, MaxKeysAssumption DEF RotationInv
    <3>3. UseOK(next', given'.next)
      BY <2>1, <2>2, <2>5, <3>1
    <3>4. UseOK(current', given'.current)
      BY <2>2, <3>1 DEF RotationInv
    <3>5. given'.next.cn \in Name /\ given'.next.sans \in Seq(San)
      BY <3>3 DEF UseOK
    <3> QED
      BY <2>3, <3>1, <3>2, <3>3, <3>4, <3>5 DEF RotationInv
  <2> QED
    BY <2>4, <2>5
<1>2. ASSUME CutOver PROVE RotationInv'
  <2>1. /\ next # None /\ current' = next /\ next' = None
        /\ given' = [given EXCEPT !.current = given.next]
        /\ refused' = FALSE /\ keys' = keys
    BY <1>2 DEF CutOver
  <2>2. given'.current = given.next /\ given'.next = given.next
        /\ DOMAIN given' = {"current", "next"}
    BY <2>1 DEF RotationInv
  <2>3. UseOK(current', given'.current)
    BY <2>1, <2>2 DEF RotationInv
  <2> QED
    BY <2>1, <2>2, <2>3 DEF RotationInv, RefusedOnlyNameless
<1>3. ASSUME UNCHANGED vars PROVE RotationInv'
  <2>1. current' = current /\ next' = next /\ given' = given /\ keys' = keys /\ refused' = refused
    BY <1>3 DEF vars
  <2> QED
    BY <2>1 DEF RotationInv, RefusedOnlyNameless
<1> QED
  BY <1>1, <1>2, <1>3 DEF Next

LEMMA AlwaysRotation == Spec => []RotationInv
BY InitRotation, StepRotation, PTL DEF Spec

(* What is served is a bundle, with a common name if this package made it, *)
(* and what was asked of it is a name and SANs, after every rotation and   *)
(* cut-over.                                                               *)
THEOREM TypeCorrect == Spec => []TypeOK
<1>1. RotationInv => TypeOK
  <2> SUFFICES ASSUME RotationInv PROVE TypeOK
    OBVIOUS
  <2>1. UseOK(current, given.current) /\ (next # None => UseOK(next, given.next))
    BY DEF RotationInv
  <2>2. \A b \in {current, next} \ {None} : b.leaf.key # 0 => b.leaf.cn # <<>>
    BY <2>1 DEF UseOK
  <2> QED
    BY <2>1, <2>2 DEF RotationInv, UseOK, TypeOK
<1> QED
  BY <1>1, AlwaysRotation, PTL

(* A common name without escaped characters survives any number of         *)
(* rotations, next to attributes that hide no other (generate.go:141-143   *)
(* and 155-162).                                                           *)
THEOREM PlainNamesKept == Spec => []PlainNameKept
<1>1. RotationInv => PlainNameKept
  <2> SUFFICES ASSUME RotationInv PROVE PlainNameKept
    OBVIOUS
  <2>1. UseOK(current, given.current) /\ (next # None => UseOK(next, given.next))
    BY DEF RotationInv
  <2>2. \A u \in InUse : UseOK(u[1], u[2])
    BY <2>1 DEF InUse
  <2> QED
    BY <2>2 DEF PlainNameKept, UseOK
<1> QED
  BY <1>1, AlwaysRotation, PTL

(* The SANs are those last given, in order, whatever else the options      *)
(* leave out (generate.go:144-146).                                        *)
THEOREM SANsPreserved == Spec => []SANsKept
<1>1. RotationInv => SANsKept
  <2> SUFFICES ASSUME RotationInv PROVE SANsKept
    OBVIOUS
  <2>1. UseOK(current, given.current) /\ (next # None => UseOK(next, given.next))
    BY DEF RotationInv
  <2>2. \A u \in InUse : UseOK(u[1], u[2])
    BY <2>1 DEF InUse
  <2> QED
    BY <2>2 DEF SANsKept, UseOK
<1> QED
  BY <1>1, AlwaysRotation, PTL

(* Only a foreign certificate without a common name, or with a serial      *)
(* number that hides an empty one, is refused (generate.go:70-72 and       *)
(* 141-143).                                                               *)
THEOREM RefusalsJustified == Spec => []RefusedOnlyNameless
<1>1. RotationInv => RefusedOnlyNameless
  BY DEF RotationInv
<1> QED
  BY <1>1, AlwaysRotation, PTL

(* What an escaped name turns into: printing adds backslashes, which there *)
(* is no comma to cut at.                                                  *)
Derives(b, g) ==
    ~HasComma(g.cn) /\ ~g.misled =>
        /\ ~HasComma(b.leaf.cn)
        /\ Bare(b.leaf.cn) = Bare(g.cn)
        /\ Len(b.leaf.cn) >= Len(g.cn)

DerivedInv ==
    /\ Derives(current, given.current)
    /\ next # None => Derives(next, given.next)

(* One derivation more.                                                    *)
LEMMA DerivedOnceMore ==
    ASSUME NEW old \in Name, ~HasComma(old), NEW cn, cn = UpToComma(Escape(old))
    PROVE  ~HasComma(cn) /\ Bare(cn) = Bare(old) /\ Len(cn) >= Len(old)
<1>1. UpToComma(old) = old
  BY DEF UpToComma, HasComma
<1>2. Bare(cn) = Bare(old)
  BY <1>1, EscapedThenCutIsBare
<1>3. Len(cn) >= Len(old)
  BY <1>1, EscapedThenCut
<1>4. Escape(old) \in Name
  BY EscapedAt
<1>5. cn \in Name /\ \A i \in 1..Len(cn) : cn[i] # Comma
  <2> DEFINE e == Escape(old)
  <2>1. e \in Name /\ cn = UpToComma(e)
    BY <1>4
  <2> HIDE DEF e
  <2>2. cn \in Name /\ \A i \in 1..Len(cn) : cn[i] = e[i] /\ e[i] # Comma
    BY <2>1, CutFacts
  <2> QED
    BY <2>2
<1>6. ~HasComma(cn)
  BY <1>5 DEF HasComma, Name
<1> QED
  BY <1>2, <1>3, <1>6

LEMMA OwnName == \A name \in Name : Len(name) >= Len(name)
BY DEF Name

LEMMA MadeDerives ==
    ASSUME RotationInv, DerivedInv, NEW opts \in Options, NEW made,
           made = Rotate(current, opts, keys + 1), made # None
    PROVE  Derives(made, GivenNext(opts))
<1> DEFINE o == RotateOptions(current, opts)
           g == GivenNext(opts)
           old == given.current
<1>1. UseOK(current, old) /\ Derives(current, old)
  BY DEF RotationInv, DerivedInv
<1>2. made.leaf.cn = o.cn /\ o.cn # <<>>
  <2> DEFINE c == [cn |-> o.cn, serial |-> <<>>, org |-> <<>>, dns |-> o.dns, ips |-> <<>>,
                   key |-> keys + 1]
  <2>1. o.cn # <<>> /\ made = BundleOf(c)
    BY DEF Rotate, GenerateSelfSigned
  <2>2. c.cn = o.cn
    OBVIOUS
  <2> HIDE DEF c, o
  <2>3. made.leaf = c
    BY <2>1 DEF BundleOf
  <2> QED
    BY <2>1, <2>2, <2>3
<1>3. g.cn = (IF opts.cn = <<>> THEN old.cn ELSE opts.cn)
      /\ g.misled = (opts.cn = <<>> /\ old.misled)
  BY DEF GivenNext
<1> HIDE DEF g
<1>4. CASE opts.cn # <<>>
  <2>1. o.cn = opts.cn
    BY <1>4 DEF RotateOptions
  <2> HIDE DEF o
  <2> QED
    BY <1>2, <1>3, <1>4, <2>1, OwnName DEF Derives, g
<1>5. CASE opts.cn = <<>>
  <2>1. o.cn = CommonNameFromSubject(current.meta.subject)
    BY <1>5 DEF RotateOptions
  <2>2. current.leaf \in Certificate /\ current.meta.subject = SubjectString(current.leaf)
    <3>1. current.leaf \in Certificate /\ current = BundleOf(current.leaf)
      BY <1>1 DEF UseOK, Bundle
    <3> QED
      BY <3>1, BundleType
  <2> HIDE DEF o
  <2> SUFFICES ASSUME ~HasComma(old.cn), ~old.misled
               PROVE  /\ ~HasComma(o.cn)
                      /\ Bare(o.cn) = Bare(old.cn)
                      /\ Len(o.cn) >= Len(old.cn)
    BY <1>2, <1>3, <1>5 DEF Derives, g
  <2> DEFINE leaf == current.leaf
  <2>3. ~Misleading(leaf) /\ leaf.cn \in Name /\ old.cn \in Name
    BY <1>1, <2>2 DEF UseOK, Certificate
  <2>4. o.cn = UpToComma(Escape(leaf.cn))
    BY <1>2, <2>1, <2>2, <2>3, CommonNameFound
  <2>5. ~HasComma(leaf.cn) /\ Bare(leaf.cn) = Bare(old.cn) /\ Len(leaf.cn) >= Len(old.cn)
    BY <1>1 DEF Derives
  <2>6. ~HasComma(o.cn) /\ Bare(o.cn) = Bare(leaf.cn) /\ Len(o.cn) >= Len(leaf.cn)
    BY <2>3, <2>4, <2>5, DerivedOnceMore
  <2>7. o.cn \in Name
    BY <2>3, <2>4, EscapedThenCut
  <2>8. Len(o.cn) \in Nat /\ Len(leaf.cn) \in Nat /\ Len(old.cn) \in Nat
    BY <2>3, <2>7 DEF Name
  <2> QED
    BY <2>5, <2>6, <2>8
<1> QED
  BY <1>4, <1>5

LEMMA InitDerives == Init => DerivedInv
<1> SUFFICES ASSUME Init PROVE DerivedInv
  OBVIOUS
<1>1. \A cn, sans, misled : Given(cn, sans, misled).cn = cn
  BY DEF Given
<1>2. CASE \E opts \in Options :
               /\ opts.cn # <<>>
               /\ current = GenerateSelfSigned(opts, 1)
               /\ keys = 1
               /\ given = [current |-> Given(opts.cn, opts.dns, FALSE), next |-> Nothing]
  <2>1. PICK opts \in Options :
               /\ opts.cn # <<>>
               /\ current = GenerateSelfSigned(opts, 1)
               /\ given = [current |-> Given(opts.cn, opts.dns, FALSE), next |-> Nothing]
    BY <1>2
  <2>2. current.leaf.cn = opts.cn
    BY <2>1 DEF GenerateSelfSigned, BundleOf
  <2>3. given.current = Given(opts.cn, opts.dns, FALSE)
    BY <2>1
  <2>4. given.current.cn = opts.cn /\ opts.cn \in Name
    <3>1. opts \in GenOpts
      BY InputsAssumption
    <3>2. opts.cn \in Name
      BY <3>1 DEF GenOpts
    <3> QED
      BY <2>3, <3>2 DEF Given
  <2> QED
    BY <2>2, <2>4, OwnName DEF Init, DerivedInv, Derives
<1>3. CASE \E c \in Foreign :
               /\ current = BundleOf(c)
               /\ keys = 0
               /\ given = [current |-> Given(c.cn, c.dns \o c.ips, Misleading(c)), next |-> Nothing]
  <2>1. PICK c \in Foreign :
               /\ current = BundleOf(c)
               /\ given = [current |-> Given(c.cn, c.dns \o c.ips, Misleading(c)), next |-> Nothing]
    BY <1>3
  <2>2. current.leaf.cn = c.cn
    BY <2>1 DEF BundleOf
  <2>3. given.current = Given(c.cn, c.dns \o c.ips, Misleading(c))
    BY <2>1
  <2>4. given.current.cn = c.cn /\ c.cn \in Name
    BY <1>1, <2>3, InputsAssumption DEF GenOpts, Certificate
  <2> QED
    BY <2>2, <2>4, OwnName DEF Init, DerivedInv, Derives
<1> QED
  BY <1>2, <1>3 DEF Init

LEMMA StepDerives == RotationInv /\ DerivedInv /\ [Next]_vars => DerivedInv'
<1> SUFFICES ASSUME RotationInv, DerivedInv, [Next]_vars PROVE DerivedInv'
  OBVIOUS
<1>0. DOMAIN given = {"current", "next"}
  BY DEF RotationInv
<1>1. ASSUME NEW opts \in Options, RotateNext(opts) PROVE DerivedInv'
  <2> DEFINE made == Rotate(current, opts, keys + 1)
  <2>1. made # None => Derives(made, GivenNext(opts))
    BY MadeDerives
  <2> HIDE DEF made
  <2>2. /\ current' = current
        /\ made = None => next' = next /\ given' = given
        /\ made # None => next' = made /\ given' = [given EXCEPT !.next = GivenNext(opts)]
    BY <1>1 DEF RotateNext, made
  <2>3. made # None => given'.current = given.current /\ given'.next = GivenNext(opts)
    BY <1>0, <2>2
  <2>4. CASE made = None
    BY <2>2, <2>4 DEF DerivedInv
  <2>5. CASE made # None
    <3>1. Derives(next', given'.next) /\ Derives(current', given'.current)
      BY <2>1, <2>2, <2>3, <2>5 DEF DerivedInv
    <3> QED
      BY <3>1 DEF DerivedInv
  <2> QED
    BY <2>4, <2>5
<1>2. ASSUME CutOver PROVE DerivedInv'
  <2>1. next # None /\ current' = next /\ next' = None /\ given' = [given EXCEPT !.current = given.next]
    BY <1>2 DEF CutOver
  <2>2. given'.current = given.next
    BY <1>0, <2>1
  <2>3. Derives(current', given'.current)
    BY <2>1, <2>2 DEF DerivedInv
  <2> QED
    BY <2>1, <2>3 DEF DerivedInv
<1>3. ASSUME UNCHANGED vars PROVE DerivedInv'
  <2>1. current' = current /\ next' = next /\ given' = given
    BY <1>3 DEF vars
  <2> QED
    BY <2>1 DEF DerivedInv
<1> QED
  BY <1>1, <1>2, <1>3 DEF Next

LEMMA AlwaysDerives == Spec => []DerivedInv
BY InitDerives, StepDerives, AlwaysRotation, PTL DEF Spec

(* However often a name is derived, it keeps its characters, in order and  *)
(* with backslashes added, if it has no comma to be cut at                 *)
(* (generate.go:141-143 and 155-162, through pkix.Name.String).            *)
THEOREM CharactersAreKept == Spec => []CharactersKept
<1>1. RotationInv /\ DerivedInv => CharactersKept
  <2> SUFFICES ASSUME RotationInv, DerivedInv PROVE CharactersKept
    OBVIOUS
  <2>1. \A u \in InUse : Derives(u[1], u[2])
    BY DEF DerivedInv, InUse
  <2> QED
    BY <2>1 DEF CharactersKept, Derives
<1> QED
  BY <1>1, AlwaysRotation, AlwaysDerives, PTL

=============================================================================
