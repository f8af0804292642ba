--------------------------- MODULE ParsersProofs ---------------------------
(***************************************************************************)
(* Lemmas about the operators of Parsers, which the proofs about the state *)
(* machines PEMStream, ParseDispatch and Conversion rest on.               *)
(***************************************************************************)
EXTENDS Parsers, NumberLemmas

-----------------------------------------------------------------------------
(* Types of what the helpers return.                                       *)

LEMMA FailIsResult == \A e \in Error : Fail(e) \in Result
<1>1. NoMeta \in Meta
  BY DEF NoMeta, Meta
<1>2. EmptyBundle \in Bundle
  BY <1>1, EmptySeq DEF EmptyBundle, Bundle
<1> QED
  BY <1>2 DEF Fail, Result

LEMMA OkIsResult == \A b \in Bundle : Ok(b) \in Result
BY DEF Ok, Result, Error

(* A decoded key is a PKCS#8 key, never Nil; anything else is an error.    *)
LEMMA DecodeType ==
    ASSUME NEW b \in Block, NEW p
    PROVE  LET d == DecodePrivateKeyBlock(b, p)
           IN \/ d.err = "none" /\ d.der \in {PKCS8(k) : k \in Key} /\ d.der # Nil
              \/ d.err \in {"wrong_passphrase", "unrecognized"}
<1>1. ASSUME NEW der
      PROVE  LET d == NormalizeToPKCS8(der)
             IN \/ d.err = "none" /\ d.der \in {PKCS8(k) : k \in Key}
                \/ d.err = "unrecognized"
  BY DEF NormalizeToPKCS8, Bytes, NoBytes, KeyDER
<1>2. ASSUME NEW der, NEW s
      PROVE  Decrypt(der, s, p).err \in {"none", "wrong_passphrase"}
  BY DEF Decrypt, Bytes, NoBytes
<1>3. Bytes(b.der).err = "none"
  BY DEF Bytes
<1>4. \A k \in Key : PKCS8(k) # Nil
  BY MaterialAssumption DEF PKCS8, DERBlob, KeyDER, KeyForm
<1> QED
  BY <1>1, <1>2, <1>3, <1>4 DEF DecodePrivateKeyBlock

(* The leaf's index is an index.                                           *)
LEMMA LeafIndexType ==
    ASSUME NEW cs \in Seq(Cert), cs # <<>>
    PROVE  LeafIndex(cs) \in 1..Len(cs)
<1>1. Len(cs) \in Nat /\ Len(cs) > 0 /\ DOMAIN cs = 1..Len(cs)
  BY EmptySeq, LenProperties
<1>2. EndEntities(cs) \in SUBSET Nat /\ EndEntities(cs) \subseteq 1..Len(cs)
  BY <1>1 DEF EndEntities
<1>3. CASE EndEntities(cs) = {}
  BY <1>1, <1>3 DEF LeafIndex
<1>4. CASE EndEntities(cs) # {}
  BY <1>2, <1>4, MinInSet DEF LeafIndex
<1> QED
  BY <1>3, <1>4

(* Removing an element and putting it back.                                *)
LEMMA RemoveAtProperties ==
    ASSUME NEW S, NEW s \in Seq(S), NEW i \in 1..Len(s)
    PROVE  /\ RemoveAt(s, i) \in Seq(S)
           /\ Len(RemoveAt(s, i)) = Len(s) - 1
           /\ \A j \in 1..Len(s) - 1 : RemoveAt(s, i)[j] = IF j < i THEN s[j] ELSE s[j + 1]
<1> DEFINE a == SubSeq(s, 1, i - 1)
           b == SubSeq(s, i + 1, Len(s))
<1>1. Len(s) \in Nat /\ i \in Nat
  BY LenProperties
<1>2. \A j \in 1..Len(s) : s[j] \in S
  BY ElementOfSeq
<1>3. a \in Seq(S) /\ Len(a) = i - 1 /\ \A j \in 1..i - 1 : a[j] = s[j]
  <2>1. \A j \in 1..i - 1 : s[j] \in S
    BY <1>1, <1>2
  <2>2. 1 \in Int /\ i - 1 \in Int
    BY <1>1
  <2>3. /\ a \in Seq(S)
        /\ Len(a) = IF 1 <= i - 1 THEN i - 1 - 1 + 1 ELSE 0
        /\ \A j \in 1..i - 1 - 1 + 1 : a[j] = s[1 + j - 1]
    BY <2>1, <2>2, SubSeqProperties
  <2> HIDE DEF a
  <2> QED
    BY <1>1, <2>3
<1>4. b \in Seq(S) /\ Len(b) = Len(s) - i /\ \A j \in 1..Len(s) - i : b[j] = s[i + j]
  <2>1. \A j \in i + 1..Len(s) : s[j] \in S
    BY <1>1, <1>2
  <2>2. i + 1 \in Int /\ Len(s) \in Int
    BY <1>1
  <2>3. /\ b \in Seq(S)
        /\ Len(b) = IF i + 1 <= Len(s) THEN Len(s) - (i + 1) + 1 ELSE 0
        /\ \A j \in 1..Len(s) - (i + 1) + 1 : b[j] = s[i + 1 + j - 1]
    BY <2>1, <2>2, SubSeqProperties
  <2> HIDE DEF b
  <2> QED
    BY <1>1, <2>3
<1> DEFINE t == a \o b
<1>5. t \in Seq(S) /\ Joined(t, a, b)
  <2> HIDE DEF a, b
  <2> QED
    BY <1>3, <1>4, ConcatJoins
<1> HIDE DEF a, b, t
<1>6. ASSUME NEW j \in 1..Len(s) - 1
      PROVE  t[j] = IF j < i THEN s[j] ELSE s[j + 1]
  <2>1. CASE j < i
    BY <1>1, <1>3, <1>5, <2>1 DEF Joined
  <2>2. CASE ~(j < i)
    <3>1. j - (i - 1) \in 1..Len(s) - i /\ i - 1 + (j - (i - 1)) = j /\ i + (j - (i - 1)) = j + 1
      BY <1>1, <2>2
    <3>2. b[j - (i - 1)] = s[j + 1]
      BY <1>4, <3>1
    <3>3. t[i - 1 + (j - (i - 1))] = b[j - (i - 1)]
      BY <1>3, <1>4, <1>5, <3>1 DEF Joined
    <3> QED
      BY <2>2, <3>1, <3>2, <3>3
  <2> QED
    BY <2>1, <2>2
<1>7. Len(t) = Len(s) - 1
  BY <1>1, <1>3, <1>4, <1>5 DEF Joined
<1> QED
  BY <1>5, <1>6, <1>7 DEF RemoveAt, a, b, t

LEMMA InsertedBack ==
    ASSUME NEW S, NEW s \in Seq(S), NEW i \in 1..Len(s)
    PROVE  InsertAt(RemoveAt(s, i), i, s[i]) = s
<1> DEFINE r == RemoveAt(s, i)
           a == SubSeq(r, 1, i - 1)
           b == SubSeq(r, i, Len(r))
           c == <<s[i]>>
<1>1. Len(s) \in Nat /\ i \in Nat /\ s[i] \in S
  BY LenProperties, ElementOfSeq
<1>2. /\ r \in Seq(S) /\ Len(r) = Len(s) - 1
      /\ \A j \in 1..Len(s) - 1 : r[j] = IF j < i THEN s[j] ELSE s[j + 1]
  BY RemoveAtProperties
<1> HIDE DEF r
<1>3. \A j \in 1..Len(s) - 1 : r[j] \in S
  BY <1>2, ElementOfSeq
<1>4. a \in Seq(S) /\ Len(a) = i - 1 /\ \A j \in 1..i - 1 : a[j] = r[j]
  <2>1. \A j \in 1..i - 1 : r[j] \in S
    BY <1>1, <1>3
  <2>2. 1 \in Int /\ i - 1 \in Int
    BY <1>1
  <2>3. /\ a \in Seq(S)
        /\ Len(a) = IF 1 <= i - 1 THEN i - 1 - 1 + 1 ELSE 0
        /\ \A j \in 1..i - 1 - 1 + 1 : a[j] = r[1 + j - 1]
    BY <2>1, <2>2, SubSeqProperties
  <2> HIDE DEF a
  <2> QED
    BY <1>1, <2>3
<1>5. b \in Seq(S) /\ Len(b) = Len(s) - i /\ \A j \in 1..Len(s) - i : b[j] = r[i + j - 1]
  <2>1. \A j \in i..Len(r) : r[j] \in S
    BY <1>1, <1>2, <1>3
  <2>2. i \in Int /\ Len(r) \in Int
    BY <1>1, <1>2
  <2>3. /\ b \in Seq(S)
        /\ Len(b) = IF i <= Len(r) THEN Len(r) - i + 1 ELSE 0
        /\ \A j \in 1..Len(r) - i + 1 : b[j] = r[i + j - 1]
    BY <2>1, <2>2, SubSeqProperties
  <2> HIDE DEF b
  <2> QED
    BY <1>1, <1>2, <2>3
<1>6. c \in Seq(S) /\ Len(c) = 1 /\ c[1] = s[i]
  BY <1>1
<1> HIDE DEF a, b, c
<1> DEFINE u == a \o c
           t == u \o b
<1>7. /\ u \in Seq(S) /\ Len(u) = i
      /\ \A j \in 1..i - 1 : u[j] = a[j]
      /\ u[i] = s[i]
  <2>1. u \in Seq(S) /\ Joined(u, a, c)
    BY <1>4, <1>6, ConcatJoins
  <2> HIDE DEF u
  <2>2. Len(a) = i - 1 /\ Len(c) = 1 /\ i - 1 + 1 = i /\ 1 \in 1..1
    BY <1>1, <1>4, <1>6
  <2> QED
    BY <1>6, <2>1, <2>2 DEF Joined
<1> HIDE DEF u
<1>8. /\ t \in Seq(S) /\ Len(t) = Len(s)
      /\ \A j \in 1..i : t[j] = u[j]
      /\ \A j \in 1..Len(s) - i : t[i + j] = b[j]
  <2>1. t \in Seq(S) /\ Joined(t, u, b)
    BY <1>5, <1>7, ConcatJoins
  <2> HIDE DEF t
  <2>2. i + (Len(s) - i) = Len(s)
    BY <1>1
  <2> QED
    BY <1>5, <1>7, <2>1, <2>2 DEF Joined
<1> HIDE DEF t
<1>9. ASSUME NEW j \in 1..Len(s)
      PROVE  t[j] = s[j]
  <2>1. CASE j < i
    <3>1. j \in 1..i - 1 /\ j \in 1..i /\ j \in 1..Len(s) - 1
      BY <1>1, <2>1
    <3> QED
      BY <1>2, <1>4, <1>7, <1>8, <2>1, <3>1
  <2>2. CASE j = i
    <3>1. i \in 1..i
      BY <1>1
    <3> QED
      BY <1>7, <1>8, <2>2, <3>1
  <2>3. CASE j > i
    <3>1. j - i \in 1..Len(s) - i /\ i + (j - i) = j /\ i + (j - i) - 1 = j - 1
          /\ j - 1 \in 1..Len(s) - 1 /\ ~(j - 1 < i) /\ j - 1 + 1 = j
      BY <1>1, <2>3
    <3>2. b[j - i] = r[j - 1]
      BY <1>5, <3>1
    <3>3. r[j - 1] = s[j]
      BY <1>2, <3>1
    <3>4. t[i + (j - i)] = b[j - i]
      BY <1>8, <3>1
    <3> QED
      BY <3>1, <3>2, <3>3, <3>4
  <2> QED
    BY <1>1, <2>1, <2>2, <2>3
<1>10. t = s
  BY <1>8, <1>9, SeqEqual
<1> QED
  BY <1>10 DEF InsertAt, a, b, c, r, u, t

LEMMA ClassifiedType ==
    ASSUME NEW cs \in Seq(Cert), cs # <<>>, NEW k \in KeyDER \cup {Nil}
    PROVE  ClassifiedBundle(cs, k) \in Bundle
<1> DEFINE l == LeafIndex(cs)
<1>1. l \in 1..Len(cs)
  BY LeafIndexType
<1> HIDE DEF l
<1>2. cs[l] \in Cert
  BY <1>1, ElementOfSeq
<1>3. MetaFromLeaf(cs[l]) \in Meta
  BY <1>2 DEF MetaFromLeaf, Meta
<1>4. RemoveAt(cs, l) \in Seq(Cert)
  BY <1>1, RemoveAtProperties
<1>5. RemoveAt(cs, l) \in Seq(Cert \cup {Noise})
  BY <1>4, SeqMonotonic
<1> QED
  BY <1>2, <1>3, <1>5 DEF ClassifiedBundle, LeafBundle, Bundle, l

(* The bundle of a classification holds the certificates it was given: put *)
(* back where it stood, the leaf completes the chain.                      *)
LEMMA ClassifiedConserves ==
    ASSUME NEW cs \in Seq(Cert), cs # <<>>, NEW k
    PROVE  LET b == ClassifiedBundle(cs, k)
           IN /\ Len(b.chain) = Len(cs) - 1
              /\ LeafIndex(cs) \in 1..Len(b.chain) + 1
              /\ InsertAt(b.chain, LeafIndex(cs), b.leaf) = cs
<1> DEFINE l == LeafIndex(cs)
<1>1. l \in 1..Len(cs) /\ Len(cs) \in Nat
  BY LeafIndexType, LenProperties
<1> HIDE DEF l
<1>2. Len(RemoveAt(cs, l)) = Len(cs) - 1 /\ InsertAt(RemoveAt(cs, l), l, cs[l]) = cs
  BY <1>1, RemoveAtProperties, InsertedBack
<1>3. 1..Len(cs) - 1 + 1 = 1..Len(cs)
  BY <1>1
<1> QED
  BY <1>1, <1>2, <1>3 DEF ClassifiedBundle, LeafBundle, l

-----------------------------------------------------------------------------
(* ParsePEM, case by case.                                                 *)

CertsOf(s) == DersAt(s, InOrder(CertPositions(s)))

KeyOf(s, p) ==
    IF KeyPositions(s) = {} THEN Nil ELSE DecodePrivateKeyBlock(s[Max(KeyPositions(s))], p).der

LEMMA CertsListing ==
    ASSUME NEW s \in Seq(Block)
    PROVE  LET at == InOrder(CertPositions(s))
           IN /\ Len(s) \in Nat /\ DOMAIN s = 1..Len(s)
              /\ CertPositions(s) \in SUBSET (1..Len(s))
              /\ Lists(at, CertPositions(s))
              /\ CertsOf(s) \in Seq(Cert)
              /\ DOMAIN CertsOf(s) = DOMAIN at
              /\ \A i \in DOMAIN at : CertsOf(s)[i] = s[at[i]].der
              /\ CertsOf(s) = <<>> <=> CertPositions(s) = {}
<1> DEFINE S == CertPositions(s)
           at == InOrder(S)
<1>1. Len(s) \in Nat /\ DOMAIN s = 1..Len(s)
  BY LenProperties
<1>2. S \in SUBSET (1..Len(s)) /\ \A i \in S : s[i].der \in Cert
  BY <1>1 DEF CertPositions
<1> HIDE DEF S
<1>3. Lists(at, S)
  BY <1>1, <1>2, InOrderLists
<1>4. at \in Seq(S) /\ Len(at) \in Nat /\ DOMAIN at = 1..Len(at)
  BY <1>3, LenProperties DEF Lists
<1> HIDE DEF at
<1>5. \A i \in 1..Len(at) : at[i] \in S
  BY <1>4, ElementOfSeq
<1> DEFINE cs == DersAt(s, at)
<1>6. cs = [i \in 1..Len(at) |-> s[at[i]].der]
  BY <1>4 DEF DersAt
<1>7. cs \in [1..Len(at) -> Cert]
  BY <1>2, <1>5, <1>6
<1>8. cs \in Seq(Cert)
  BY <1>4, <1>7, SeqDef
<1>9. Len(cs) = Len(at) /\ DOMAIN cs = DOMAIN at
  BY <1>4, <1>6, <1>8, LenProperties
<1>10. cs = <<>> <=> S = {}
  <2>1. cs = <<>> <=> Len(at) = 0
    BY <1>4, <1>8, <1>9, EmptySeq
  <2>2. Len(at) = 0 => S = {}
    BY <1>3, <1>4 DEF Lists
  <2>3. S = {} => Len(at) = 0
    BY <1>4, <1>5
  <2> QED
    BY <2>1, <2>2, <2>3
<1> QED
  BY <1>1, <1>2, <1>3, <1>6, <1>8, <1>9, <1>10, <1>4 DEF CertsOf, S, at

LEMMA KeyListing ==
    ASSUME NEW s \in Seq(Block)
    PROVE  /\ KeyPositions(s) \in SUBSET (1..Len(s))
           /\ KeyPositions(s) # {} =>
                 /\ Max(KeyPositions(s)) \in KeyPositions(s)
                 /\ \A i \in KeyPositions(s) : i <= Max(KeyPositions(s))
           /\ \A p : BadKeyPositions(s, p) # {} =>
                 /\ Min(BadKeyPositions(s, p)) \in BadKeyPositions(s, p)
                 /\ \A i \in BadKeyPositions(s, p) : Min(BadKeyPositions(s, p)) <= i
<1>1. Len(s) \in Nat /\ DOMAIN s = 1..Len(s)
  BY LenProperties
<1> DEFINE S == KeyPositions(s)
<1>2. S \in SUBSET (1..Len(s))
  BY <1>1 DEF KeyPositions
<1>3. \A p : BadKeyPositions(s, p) \subseteq S
  BY DEF BadKeyPositions
<1> HIDE DEF S
<1>4. \A T \in SUBSET (1..Len(s)) : \A i \in T : i \in Nat /\ i \in 0..Len(s)
  BY <1>1
<1>5. S \in SUBSET (0..Len(s))
  BY <1>2, <1>4
<1>6. S # {} => Max(S) \in S /\ \A i \in S : i <= Max(S)
  BY <1>1, <1>5, MaxInSet
<1>7. ASSUME NEW p, BadKeyPositions(s, p) # {}
      PROVE  /\ Min(BadKeyPositions(s, p)) \in BadKeyPositions(s, p)
             /\ \A i \in BadKeyPositions(s, p) : Min(BadKeyPositions(s, p)) <= i
  <2>1. BadKeyPositions(s, p) \in SUBSET Nat
    BY <1>2, <1>3, <1>4
  <2> QED
    BY <1>7, <2>1, MinInSet
<1> QED
  BY <1>2, <1>6, <1>7 DEF S

LEMMA ParsePEMCases ==
    ASSUME NEW s \in Seq(Block), NEW p
    PROVE  LET bad == BadKeyPositions(s, p)
               cs  == CertsOf(s)
               key == KeyOf(s, p)
           IN /\ bad # {} =>
                    \E i \in KeyPositions(s) :
                       /\ DecodePrivateKeyBlock(s[i], p).err \in {"wrong_passphrase", "unrecognized"}
                       /\ ParsePEM(s, p) = Fail(DecodePrivateKeyBlock(s[i], p).err)
              /\ bad = {} =>
                    /\ key \in NormalKey \cup {Nil}
                    /\ key = Nil <=> KeyPositions(s) = {}
                    /\ ParsePEM(s, p) = IF cs # <<>> THEN Ok(ClassifiedBundle(cs, key))
                                        ELSE IF key # Nil THEN Ok(KeyBundle(key))
                                        ELSE Fail("unrecognized")
<1> DEFINE bad == BadKeyPositions(s, p)
           cs  == CertsOf(s)
           key == KeyOf(s, p)
<1>1. ParsePEM(s, p) = IF bad # {} THEN Fail(DecodePrivateKeyBlock(s[Min(bad)], p).err)
                       ELSE IF cs # <<>> THEN Ok(ClassifiedBundle(cs, key))
                       ELSE IF key # Nil THEN Ok(KeyBundle(key))
                       ELSE Fail("unrecognized")
  BY DEF ParsePEM, CertsOf, KeyOf
<1>2. \A i \in KeyPositions(s) : s[i] \in Block
  BY KeyListing, ElementOfSeq
<1>3. \A i \in KeyPositions(s) :
         LET d == DecodePrivateKeyBlock(s[i], p)
         IN \/ d.err = "none" /\ d.der \in NormalKey /\ d.der # Nil
            \/ d.err \in {"wrong_passphrase", "unrecognized"}
  BY <1>2, DecodeType DEF NormalKey
<1>4. CASE bad # {}
  <2>1. Min(bad) \in KeyPositions(s) /\ DecodePrivateKeyBlock(s[Min(bad)], p).err # "none"
    BY <1>4, KeyListing DEF BadKeyPositions
  <2> QED
    BY <1>1, <1>3, <1>4, <2>1
<1>5. CASE bad = {}
  <2>1. KeyPositions(s) = {} => key = Nil
    BY DEF KeyOf
  <2>2. KeyPositions(s) # {} => key \in NormalKey /\ key # Nil
    <3> SUFFICES ASSUME KeyPositions(s) # {} PROVE key \in NormalKey /\ key # Nil
      OBVIOUS
    <3> DEFINE m == Max(KeyPositions(s))
    <3>1. m \in KeyPositions(s)
      BY KeyListing
    <3>2. DecodePrivateKeyBlock(s[m], p).err = "none"
      BY <1>5, <3>1 DEF BadKeyPositions
    <3>3. key = DecodePrivateKeyBlock(s[m], p).der
      BY DEF KeyOf
    <3> HIDE DEF m, key
    <3> QED
      BY <1>3, <3>1, <3>2, <3>3
  <2> QED
    BY <1>1, <1>5, <2>1, <2>2
<1> QED
  BY <1>4, <1>5

(* Blocks that are neither keys nor parseable certificates change nothing. *)
LEMMA IgnoredBlocks ==
    ASSUME NEW s \in Seq(Block), NEW p, NEW U,
           \A i \in DOMAIN s : s[i] \in U <=> IsPrivateKeyBlock(s[i])
                                           \/ (IsCertificateBlock(s[i]) /\ s[i].der \in Cert)
    PROVE  ParsePEM(Filter(s, U), p) = ParsePEM(s, p)
<1> DEFINE P == {i \in DOMAIN s : s[i] \in U}
           at == InOrder(P)
           t == Filter(s, U)
<1>1. Len(s) \in Nat /\ DOMAIN s = 1..Len(s)
  BY LenProperties
<1>2. Lists(at, P) /\ at \in Seq(DOMAIN s) /\ t = Pick(s, at) /\ t \in Seq(Block \cap U)
  <2>1. Lists(at, P)
    BY FilterLists, Zenon
  <2>2. at \in Seq(DOMAIN s)
    BY FilterLists, Zenon
  <2>3. t = Pick(s, at)
    BY DEF Filter
  <2>4. t \in Seq(Block \cap U)
    BY FilterLists, Zenon
  <2> QED
    BY <2>1, <2>2, <2>3, <2>4
<1>3. P \in SUBSET (1..Len(s))
  BY <1>1
<1>4. CertPositions(s) \in SUBSET P /\ KeyPositions(s) \in SUBSET P
  BY DEF CertPositions, KeyPositions
<1>5. \A q : BadKeyPositions(s, q) \subseteq KeyPositions(s)
  BY DEF BadKeyPositions
<1> HIDE DEF P, at, t
<1>6. DOMAIN t = DOMAIN at /\ \A k \in DOMAIN at : t[k] = s[at[k]]
  BY <1>2 DEF Pick
<1>7. at \in Seq(P) /\ \A k \in DOMAIN at : at[k] \in P
  BY <1>2, LenProperties, ElementOfSeq DEF Lists
<1>8. \A k \in DOMAIN at : at[k] \in DOMAIN s
  BY <1>1, <1>3, <1>7
<1>9. /\ CertPositions(t) = {k \in DOMAIN at : at[k] \in CertPositions(s)}
      /\ KeyPositions(t) = {k \in DOMAIN at : at[k] \in KeyPositions(s)}
      /\ BadKeyPositions(t, p) = {k \in DOMAIN at : at[k] \in BadKeyPositions(s, p)}
  BY <1>6, <1>8 DEF CertPositions, KeyPositions, BadKeyPositions
<1>m. /\ Mirrors(at, CertPositions(t), CertPositions(s))
      /\ Mirrors(at, KeyPositions(t), KeyPositions(s))
      /\ Mirrors(at, BadKeyPositions(t, p), BadKeyPositions(s, p))
  <2>1. ASSUME NEW S, NEW T, S \in SUBSET P, T = {k \in DOMAIN at : at[k] \in S}
        PROVE  Mirrors(at, T, S)
    BY <1>1, <1>2, <1>3, <2>1, ThroughListing
  <2>2. BadKeyPositions(s, p) \in SUBSET P
    BY <1>4, <1>5
  <2> QED
    BY <1>4, <1>9, <2>1, <2>2
<1>10. CertsOf(t) = CertsOf(s)
  <2> DEFINE q == InOrder(CertPositions(t))
  <2>1. InOrder(CertPositions(s)) = Pick(at, q)
    BY <1>m DEF Mirrors
  <2>2. t \in Seq(Block)
    <3>1. Block \cap U \subseteq Block
      OBVIOUS
    <3> QED
      BY <1>2, <3>1, SeqMonotonic
  <2>3. q \in Seq(CertPositions(t))
    BY <2>2, CertsListing DEF Lists
  <2> HIDE DEF q
  <2>4. \A i \in DOMAIN q : q[i] \in CertPositions(t)
    BY <2>3, LenProperties, ElementOfSeq
  <2>5. \A i \in DOMAIN q : q[i] \in DOMAIN at
    BY <1>9, <2>4
  <2>6. DersAt(s, Pick(at, q)) = DersAt(t, q)
    BY <1>6, <2>5 DEF DersAt, Pick
  <2> QED
    BY <2>1, <2>6 DEF CertsOf, q
<1>11. KeyPositions(s) = {} <=> KeyPositions(t) = {}
  BY <1>m DEF Mirrors
<1>12. KeyPositions(s) # {} => Max(KeyPositions(s)) = at[Max(KeyPositions(t))]
  BY <1>m DEF Mirrors
<1>14. /\ BadKeyPositions(s, p) = {} <=> BadKeyPositions(t, p) = {}
       /\ BadKeyPositions(s, p) # {} =>
             Min(BadKeyPositions(s, p)) = at[Min(BadKeyPositions(t, p))]
  BY <1>m DEF Mirrors
<1>16. t \in Seq(Block)
  <2>1. Block \cap U \subseteq Block
    OBVIOUS
  <2> QED
    BY <1>2, <2>1, SeqMonotonic
<1>17. KeyOf(t, p) = KeyOf(s, p)
  <2>1. KeyPositions(t) # {} => Max(KeyPositions(t)) \in DOMAIN at
    BY <1>9, <1>16, KeyListing
  <2> QED
    BY <1>6, <1>11, <1>12, <2>1 DEF KeyOf
<1>18. BadKeyPositions(s, p) # {} =>
          t[Min(BadKeyPositions(t, p))] = s[Min(BadKeyPositions(s, p))]
  <2>1. BadKeyPositions(t, p) # {} => Min(BadKeyPositions(t, p)) \in DOMAIN at
    BY <1>9, <1>16, KeyListing
  <2> QED
    BY <1>6, <1>14, <2>1
<1>19. ASSUME NEW u
       PROVE  ParsePEM(u, p) =
                IF BadKeyPositions(u, p) # {}
                THEN Fail(DecodePrivateKeyBlock(u[Min(BadKeyPositions(u, p))], p).err)
                ELSE IF CertsOf(u) # <<>> THEN Ok(ClassifiedBundle(CertsOf(u), KeyOf(u, p)))
                ELSE IF KeyOf(u, p) # Nil THEN Ok(KeyBundle(KeyOf(u, p)))
                ELSE Fail("unrecognized")
  BY DEF ParsePEM, CertsOf, KeyOf
<1>20. ParsePEM(t, p) = ParsePEM(s, p)
  BY <1>10, <1>14, <1>17, <1>18, <1>19
<1> QED
  BY <1>20 DEF t

(* The format DetectPEM announces has room for what is parsed.             *)
LEMMA DetectionCovers ==
    ASSUME NEW s \in Seq(Block), NEW p, ParsePEM(s, p).err = "none"
    PROVE  LET f == DetectPEM(s)
               b == ParsePEM(s, p).bundle
           IN /\ b.key # Nil => f \in {"pem", "pem-key"}
              /\ b.leaf # Nil => f \in {"pem", "pem-cert", "pem-fullchain"}
              /\ b.chain # <<>> => f \in {"pem", "pem-fullchain"}
<1> DEFINE keys  == {i \in DOMAIN s : s[i].type \in KeyBlockType \cup {"OPENSSH PRIVATE KEY"}}
           certs == {i \in DOMAIN s : s[i].type \in CertBlockType \cup {"CERTIFICATE REQUEST"}}
           n == Cardinality(certs)
           f == DetectPEM(s)
           b == ParsePEM(s, p).bundle
           cs == CertsOf(s)
           key == KeyOf(s, p)
<1>1. KeyPositions(s) \subseteq keys /\ CertPositions(s) \subseteq certs
  BY DEF KeyPositions, CertPositions, IsPrivateKeyBlock, IsCertificateBlock
<1>2. n \in Nat /\ (n = 0 <=> certs = {}) /\ IsFiniteSet(certs)
  <2>1. Len(s) \in Nat /\ certs \in SUBSET (1..Len(s))
    <3>1. Len(s) \in Nat /\ DOMAIN s = 1..Len(s)
      BY LenProperties
    <3> QED
      BY <3>1
  <2> HIDE DEF certs
  <2>2. IsFiniteSet(1..Len(s))
    BY <2>1, FS_Interval
  <2>3. IsFiniteSet(certs)
    BY <2>1, <2>2, FS_Subset
  <2> QED
    BY <2>3, FS_CardinalityType, FS_EmptySet
<1>3. /\ keys # {} /\ certs # {} => f = "pem"
      /\ keys # {} /\ certs = {} => f = "pem-key"
      /\ keys = {} /\ n > 1 => f = "pem-fullchain"
      /\ keys = {} /\ n = 1 => f = "pem-cert"
  <2>1. f = CASE keys # {} /\ certs # {} -> "pem"
              [] keys # {} /\ certs = {} -> "pem-key"
              [] keys = {} /\ n > 1 -> "pem-fullchain"
              [] keys = {} /\ n = 1 -> "pem-cert"
              [] OTHER -> Unknown
    BY DEF DetectPEM
  <2> HIDE DEF keys, certs, n, f
  <2> QED
    BY <1>2, <2>1
<1>4. /\ BadKeyPositions(s, p) = {}
      /\ key \in NormalKey \cup {Nil}
      /\ key = Nil <=> KeyPositions(s) = {}
      /\ b = IF cs # <<>> THEN ClassifiedBundle(cs, key) ELSE KeyBundle(key)
  <2>1. BadKeyPositions(s, p) = {}
    BY ParsePEMCases DEF Fail
  <2>2. \A c : Ok(c).bundle = c /\ Fail("unrecognized").err = "unrecognized"
    BY DEF Ok, Fail
  <2>3. /\ key \in NormalKey \cup {Nil}
        /\ key = Nil <=> KeyPositions(s) = {}
        /\ ParsePEM(s, p) = IF cs # <<>> THEN Ok(ClassifiedBundle(cs, key))
                            ELSE IF key # Nil THEN Ok(KeyBundle(key))
                            ELSE Fail("unrecognized")
    BY <2>1, ParsePEMCases
  <2> HIDE DEF key, cs
  <2> QED
    BY <2>1, <2>2, <2>3
<1>5. KeyBundle(key).leaf = Nil /\ KeyBundle(key).chain = <<>> /\ KeyBundle(key).key = key
      /\ ClassifiedBundle(cs, key).key = key
  BY DEF KeyBundle, EmptyBundle, ClassifiedBundle, LeafBundle
<1>6. cs = <<>> <=> CertPositions(s) = {}
  BY CertsListing
<1>7. b.key # Nil => keys # {}
  <2>1. b.key = key
    BY <1>4, <1>5
  <2> QED
    BY <1>1, <1>4, <2>1
<1>8. b.leaf # Nil => certs # {}
  BY <1>1, <1>4, <1>5, <1>6
<1>9. ASSUME b.chain # <<>> PROVE n > 1
  <2> DEFINE at == InOrder(CertPositions(s))
  <2>1. cs # <<>> /\ b = ClassifiedBundle(cs, key)
    BY <1>4, <1>5, <1>9
  <2>2. cs \in Seq(Cert) /\ Lists(at, CertPositions(s)) /\ DOMAIN cs = DOMAIN at
    BY CertsListing
  <2> HIDE DEF at, cs, b, key, certs, keys, f
  <2>3. Len(b.chain) = Len(cs) - 1 /\ b.chain \in Seq(Cert)
    <3>1. LeafIndex(cs) \in 1..Len(cs)
      BY <2>1, <2>2, LeafIndexType
    <3>2. RemoveAt(cs, LeafIndex(cs)) \in Seq(Cert)
      BY <2>2, <3>1, RemoveAtProperties
    <3>3. b.chain = RemoveAt(cs, LeafIndex(cs))
      BY <2>1 DEF ClassifiedBundle, LeafBundle
    <3>4. Len(b.chain) = Len(cs) - 1
      BY <2>1, <2>2, ClassifiedConserves
    <3> QED
      BY <3>2, <3>3, <3>4
  <2>4. Len(b.chain) \in Nat /\ Len(b.chain) # 0
    BY <1>9, <2>3, EmptySeq
  <2>5. Len(cs) \in Nat /\ DOMAIN cs = 1..Len(cs)
    BY <2>2, LenProperties
  <2>6. 1 \in DOMAIN at /\ 2 \in DOMAIN at
    <3>1. ASSUME NEW m, NEW k, m \in Nat, k \in Nat, m # 0, m = k - 1
          PROVE  1 \in 1..k /\ 2 \in 1..k
      BY <3>1
    <3>2. 1 \in 1..Len(cs) /\ 2 \in 1..Len(cs)
      BY <2>3, <2>4, <2>5, <3>1
    <3> QED
      BY <2>2, <2>5, <3>2
  <2>7. at \in Seq(CertPositions(s)) /\ at[1] < at[2]
    BY <2>2, <2>6 DEF Lists
  <2>8. at[1] \in CertPositions(s) /\ at[2] \in CertPositions(s)
    BY <2>6, <2>7, LenProperties, ElementOfSeq
  <2>9. \A i \in CertPositions(s) : i \in Nat
    BY CertsListing
  <2>10. at[1] \in certs /\ at[2] \in certs /\ at[1] # at[2]
    BY <1>1, <2>7, <2>8, <2>9
  <2> QED
    BY <1>2, <2>10, TwoMembers DEF n
<1> HIDE DEF keys, certs, n, f, b
<1>10. certs = {} => ~(n > 1)
  BY <1>2
<1>11. certs # {} /\ keys = {} => n > 1 \/ n = 1
  BY <1>2
<1> QED
  BY <1>3, <1>7, <1>8, <1>9, <1>10, <1>11 DEF f, b

-----------------------------------------------------------------------------
(* Parse, case by case.                                                    *)

Hinted(d, p) == ParseByFormat(DetectFormat(d), d, p)

(* The first of four attempts that succeeds.                               *)
LEMMA FirstSuccess ==
    ASSUME NEW a, NEW b, NEW c, NEW e
    PROVE  LET s == <<a, b, c, e>>
               f == SelectInSeq(s, LAMBDA r : r.err = "none")
           IN /\ a.err = "none" => f = 1
              /\ a.err # "none" /\ b.err = "none" => f = 2
              /\ a.err # "none" /\ b.err # "none" /\ c.err = "none" => f = 3
              /\ a.err # "none" /\ b.err # "none" /\ c.err # "none" /\ e.err = "none" => f = 4
              /\ a.err # "none" /\ b.err # "none" /\ c.err # "none" /\ e.err # "none" => f = 0
<1> DEFINE s == <<a, b, c, e>>
           I == {i \in 1..Len(s) : s[i].err = "none"}
<1>1. SelectInSeq(s, LAMBDA r : r.err = "none") = IF I # {} THEN Min(I) ELSE 0
  BY DEF SelectInSeq
<1>2. Len(s) = 4 /\ s[1] = a /\ s[2] = b /\ s[3] = c /\ s[4] = e
  OBVIOUS
<1>3. I \in SUBSET Nat /\ \A i \in Nat : i \in I <=> i \in 1..4 /\ s[i].err = "none"
  BY <1>2
<1> HIDE DEF I, s
<1>4. ASSUME NEW m \in I, \A i \in I : m <= i
      PROVE  I # {} /\ Min(I) = m
  BY <1>3, <1>4, MinIs
<1>5. a.err = "none" => 1 \in I /\ \A i \in I : 1 <= i
  BY <1>2, <1>3
<1>6. a.err # "none" /\ b.err = "none" => 2 \in I /\ \A i \in I : 2 <= i
  BY <1>2, <1>3
<1>7. a.err # "none" /\ b.err # "none" /\ c.err = "none" => 3 \in I /\ \A i \in I : 3 <= i
  BY <1>2, <1>3
<1>8. a.err # "none" /\ b.err # "none" /\ c.err # "none" /\ e.err = "none"
        => 4 \in I /\ \A i \in I : 4 <= i
  BY <1>2, <1>3
<1>9. a.err # "none" /\ b.err # "none" /\ c.err # "none" /\ e.err # "none" => I = {}
  BY <1>2, <1>3
<1> QED
  BY <1>1, <1>4, <1>5, <1>6, <1>7, <1>8, <1>9 DEF s

LEMMA ParseCases ==
    ASSUME NEW d, NEW p
    PROVE  LET rest == Hinted(d, p).err = "unrecognized" /\ "begin" \notin Marks(d)
               no12 == rest /\ ParsePKCS12(d, p).err # "none"
               no7  == no12 /\ ParsePKCS7(d).err # "none"
               noDER == no7 /\ ParseDER(d).err # "none"
           IN /\ Hinted(d, p).err # "unrecognized" => Parse(d, p) = Hinted(d, p)
              /\ Hinted(d, p).err = "unrecognized" /\ "begin" \in Marks(d)
                   => Parse(d, p) = ParsePEM(Blocks(d), p)
              /\ rest /\ ParsePKCS12(d, p).err = "none" => Parse(d, p) = ParsePKCS12(d, p)
              /\ no12 /\ ParsePKCS7(d).err = "none" => Parse(d, p) = ParsePKCS7(d)
              /\ no7 /\ ParseDER(d).err = "none" => Parse(d, p) = ParseDER(d)
              /\ noDER /\ ParseJKS(d, p).err = "none" => Parse(d, p) = ParseJKS(d, p)
              /\ noDER /\ ParseJKS(d, p).err # "none" => Parse(d, p) = Fail("unrecognized")
<1> DEFINE s == <<ParsePKCS12(d, p), ParsePKCS7(d), ParseDER(d), ParseJKS(d, p)>>
           f == SelectInSeq(s, LAMBDA r : r.err = "none")
<1>1. Parse(d, p) = IF Hinted(d, p).err # "unrecognized" THEN Hinted(d, p)
                    ELSE IF "begin" \in Marks(d) THEN ParsePEM(Blocks(d), p)
                    ELSE IF f # 0 THEN s[f]
                    ELSE Fail("unrecognized")
  BY DEF Parse, Hinted
<1>2. s[1] = ParsePKCS12(d, p) /\ s[2] = ParsePKCS7(d) /\ s[3] = ParseDER(d)
      /\ s[4] = ParseJKS(d, p)
  OBVIOUS
<1>3. /\ ParsePKCS12(d, p).err = "none" => f = 1
      /\ ParsePKCS12(d, p).err # "none" /\ ParsePKCS7(d).err = "none" => f = 2
      /\ ParsePKCS12(d, p).err # "none" /\ ParsePKCS7(d).err # "none"
           /\ ParseDER(d).err = "none" => f = 3
      /\ ParsePKCS12(d, p).err # "none" /\ ParsePKCS7(d).err # "none"
           /\ ParseDER(d).err # "none" /\ ParseJKS(d, p).err = "none" => f = 4
      /\ ParsePKCS12(d, p).err # "none" /\ ParsePKCS7(d).err # "none"
           /\ ParseDER(d).err # "none" /\ ParseJKS(d, p).err # "none" => f = 0
  BY FirstSuccess
<1> HIDE DEF s, f
<1> QED
  BY <1>1, <1>2, <1>3

(* A parser disowns every container but its own.                           *)
LEMMA Disowned ==
    ASSUME NEW d, NEW p
    PROVE  /\ d.kind # "pkcs12" => ParsePKCS12(d, p) = Fail("unrecognized")
           /\ d.kind # "pkcs7"  => ParsePKCS7(d) = Fail("unrecognized")
           /\ d.kind # "der"    => ParseDER(d) = Fail("unrecognized")
           /\ d.kind # "jks"    => ParseJKS(d, p) = Fail("unrecognized")
  BY DEF ParsePKCS12, ParsePKCS7, ParseDER, ParseJKS, LoadKeystore

(* A parser that answers "unrecognized" answers nothing else.              *)
LEMMA Unrecognized ==
    ASSUME NEW d, NEW p
    PROVE  /\ ParsePKCS12(d, p).err = "unrecognized" => ParsePKCS12(d, p) = Fail("unrecognized")
           /\ ParsePKCS7(d).err = "unrecognized" => ParsePKCS7(d) = Fail("unrecognized")
           /\ ParseJKS(d, p).err = "unrecognized" => ParseJKS(d, p) = Fail("unrecognized")
<1>1. \A b : Ok(b).err = "none"
  BY DEF Ok
<1>2. \A e : Fail(e).err = e
  BY DEF Fail
<1>3. \A as : Multiple(as).err = "multiple"
  BY DEF Multiple, Fail
<1>4. ParsePKCS12(d, p).err = "unrecognized" => ParsePKCS12(d, p) = Fail("unrecognized")
  BY <1>1, <1>2 DEF ParsePKCS12
<1>5. ParsePKCS7(d).err = "unrecognized" => ParsePKCS7(d) = Fail("unrecognized")
  BY <1>1, <1>3 DEF ParsePKCS7
<1>6. \A e : BundleFromKeyEntry(e, p).err = "unrecognized"
                => BundleFromKeyEntry(e, p) = Fail("unrecognized")
  BY <1>1, <1>2 DEF BundleFromKeyEntry
<1>7. \A e : BundleFromTrustedEntry(e).err = "unrecognized"
                => BundleFromTrustedEntry(e) = Fail("unrecognized")
  BY <1>1 DEF BundleFromTrustedEntry
<1>8. \A es, a : BundleFromKeystoreEntry(es, a, p).err = "unrecognized"
                => BundleFromKeystoreEntry(es, a, p) = Fail("unrecognized")
  BY <1>6, <1>7 DEF BundleFromKeystoreEntry
<1>9. ParseJKS(d, p).err = "unrecognized" => ParseJKS(d, p) = Fail("unrecognized")
  BY <1>2, <1>3, <1>8 DEF ParseJKS
<1> QED
  BY <1>4, <1>5, <1>9

(* The hint, marker by marker.                                             *)
LEMMA HintCases ==
    ASSUME NEW d, NEW p
    PROVE  /\ DetectFormat(d) = Unknown => Hinted(d, p) = Fail("unrecognized")
           /\ "begin" \in Marks(d) => Hinted(d, p) \in {ParsePEM(Blocks(d), p), Fail("unrecognized")}
           /\ "begin" \notin Marks(d) =>
                  /\ DetectFormat(d) \in {"jks", "pkcs12", "pkcs7", "der", Unknown}
                  /\ DetectFormat(d) = "jks" => Hinted(d, p) = ParseJKS(d, p)
                  /\ DetectFormat(d) = "pkcs12" => Hinted(d, p) = ParsePKCS12(d, p)
                  /\ DetectFormat(d) = "pkcs7" => Hinted(d, p) = ParsePKCS7(d)
                  /\ DetectFormat(d) = "der" => Hinted(d, p) = ParseDER(d)
           /\ DetectFormat(d) \in {"jks", "pkcs12", "pkcs7", "der"} => "begin" \notin Marks(d)
<1>1. \A s : DetectPEM(s) \in {"pem", "pem-key", "pem-fullchain", "pem-cert", Unknown}
  BY DEF DetectPEM
<1>2. DetectFormat(d) = Unknown => Hinted(d, p) = Fail("unrecognized")
  BY DEF Hinted, ParseByFormat, Unknown
<1>3. "begin" \in Marks(d) => Hinted(d, p) \in {ParsePEM(Blocks(d), p), Fail("unrecognized")}
  BY <1>1 DEF DetectFormat, Hinted, ParseByFormat, Unknown
<1>4. "begin" \notin Marks(d) => DetectFormat(d) \in {"jks", "pkcs12", "pkcs7", "der", Unknown}
  BY DEF DetectFormat
<1>5. DetectFormat(d) \in {"jks", "pkcs12", "pkcs7", "der"} => "begin" \notin Marks(d)
  BY <1>1 DEF DetectFormat, Unknown
<1>6. /\ DetectFormat(d) = "jks" => Hinted(d, p) = ParseJKS(d, p)
      /\ DetectFormat(d) = "pkcs12" => Hinted(d, p) = ParsePKCS12(d, p)
      /\ DetectFormat(d) = "pkcs7" => Hinted(d, p) = ParsePKCS7(d)
      /\ DetectFormat(d) = "der" => Hinted(d, p) = ParseDER(d)
  BY DEF Hinted, ParseByFormat
<1> QED
  BY <1>2, <1>3, <1>4, <1>5, <1>6

(* An input without PEM blocks, a stray marker included, is not PEM.       *)
LEMMA NoBlocks == \A p : ParsePEM(<<>>, p) = Fail("unrecognized")
<1> TAKE p
<1>1. CertPositions(<<>>) = {} /\ KeyPositions(<<>>) = {} /\ BadKeyPositions(<<>>, p) = {}
  BY DEF CertPositions, KeyPositions, BadKeyPositions
<1>2. Cardinality({}) = 0
  BY FS_EmptySet
<1>3. InOrder({}) = <<>>
  BY <1>2 DEF InOrder
<1>4. DersAt(<<>>, <<>>) = <<>>
  BY DEF DersAt
<1> QED
  BY <1>1, <1>3, <1>4 DEF ParsePEM

-----------------------------------------------------------------------------
(* Parse and the container's own parser.                                   *)

Kind == {"pem", "der", "pkcs12", "pkcs7", "jks", "junk"}

LEMMA KindOfContainer ==
    ASSUME NEW d, IsContainer(d)
    PROVE  /\ d.kind \in Kind
           /\ d.kind = "pem" => d.blocks \in Seq(Block)
           /\ d.kind = "der" => d.cert \in Cert
           /\ d.kind = "pkcs12" => d.key \in Key \cup {Nil} /\ d.certs \in Seq(Cert)
           /\ d.kind = "pkcs7" => d.certs \in Seq(Cert)
           /\ d.kind = "jks" => /\ IsFiniteSet(DOMAIN d.entries)
                              /\ \A a \in DOMAIN d.entries : a \in Alias /\ d.entries[a] \in KeystoreEntry
BY DEF IsContainer, JKSData, Kind

LEMMA NativeCases ==
    ASSUME NEW d, NEW p
    PROVE  /\ d.kind = "pem"    => NativeParse(d, p) = ParsePEM(Blocks(d), p)
           /\ d.kind = "der"    => NativeParse(d, p) = ParseDER(d)
           /\ d.kind = "pkcs12" => NativeParse(d, p) = ParsePKCS12(d, p)
           /\ d.kind = "pkcs7"  => NativeParse(d, p) = ParsePKCS7(d)
           /\ d.kind = "jks"    => NativeParse(d, p) = ParseJKS(d, p)
           /\ d.kind = "junk"   => NativeParse(d, p) = Fail("unrecognized")
  BY DEF NativeParse, Blocks

(* Files of PEM blocks and junk: whatever the hint, PEM or nothing.        *)
LEMMA PEMAndJunk ==
    ASSUME NEW d, NEW p, d.kind \in {"pem", "junk"}
    PROVE  Parse(d, p) = NativeParse(d, p)
<1>1. /\ ParsePKCS12(d, p) = Fail("unrecognized") /\ ParsePKCS7(d) = Fail("unrecognized")
      /\ ParseDER(d) = Fail("unrecognized") /\ ParseJKS(d, p) = Fail("unrecognized")
  BY Disowned
<1>2. Fail("unrecognized").err = "unrecognized"
  BY DEF Fail
<1>3. CASE "begin" \in Marks(d)
  <2>1. Parse(d, p) = ParsePEM(Blocks(d), p) \/ Hinted(d, p).err # "unrecognized"
    BY <1>3, ParseCases
  <2>2. Parse(d, p) = ParsePEM(Blocks(d), p)
    BY <1>2, <1>3, <2>1, HintCases, ParseCases
  <2>3. d.kind = "junk" => Blocks(d) = <<>>
    BY DEF Blocks
  <2> QED
    BY <2>2, <2>3, NoBlocks, NativeCases
<1>4. CASE "begin" \notin Marks(d)
  <2>1. Hinted(d, p) = Fail("unrecognized")
    BY <1>1, <1>4, HintCases
  <2>2. Parse(d, p) = Fail("unrecognized")
    BY <1>1, <1>2, <1>4, <2>1, ParseCases
  <2>3. d.kind = "pem" => Blocks(d) = <<>>
    BY <1>4 DEF Marks, Blocks
  <2> QED
    BY <2>2, <2>3, NoBlocks, NativeCases
<1> QED
  BY <1>3, <1>4

(* A dishonest hint cannot hide a readable container, unless it is a PEM   *)
(* marker: the wrong parser disowns the data, and so do the fallback's     *)
(* until the right one is reached.                                         *)
LEMMA ReadableIsRead ==
    ASSUME NEW d, NEW p, d.kind \in Kind,
           "begin" \in Marks(d) => d.kind = "pem",
           NativeParse(d, p).err = "none"
    PROVE  Parse(d, p) = NativeParse(d, p)
<1>1. Fail("unrecognized").err = "unrecognized"
  BY DEF Fail
<1>2. CASE d.kind \in {"pem", "junk"}
  BY <1>2, PEMAndJunk
<1>3. CASE d.kind \in {"der", "pkcs12", "pkcs7", "jks"}
  <2>1. "begin" \notin Marks(d)
    BY <1>3
  <2>2. Hinted(d, p) = NativeParse(d, p) \/ Hinted(d, p) = Fail("unrecognized")
    BY <1>3, <2>1, HintCases, NativeCases, Disowned
  <2>3. CASE d.kind = "pkcs12"
    BY <1>1, <2>1, <2>2, <2>3, Disowned, NativeCases, ParseCases
  <2>4. CASE d.kind = "pkcs7"
    BY <1>1, <2>1, <2>2, <2>4, Disowned, NativeCases, ParseCases
  <2>5. CASE d.kind = "der"
    BY <1>1, <2>1, <2>2, <2>5, Disowned, NativeCases, ParseCases
  <2>6. CASE d.kind = "jks"
    BY <1>1, <2>1, <2>2, <2>6, Disowned, NativeCases, ParseCases
  <2> QED
    BY <1>3, <2>3, <2>4, <2>5, <2>6
<1> QED
  BY <1>2, <1>3 DEF Kind

(* Parse gives a container its own parser's answer or disowns it.          *)
LEMMA NativeOrNothing ==
    ASSUME NEW d, NEW p, d.kind \in Kind
    PROVE  Parse(d, p) \in {NativeParse(d, p), Fail("unrecognized")}
<1>1. CASE d.kind \in {"pem", "junk"}
  BY <1>1, PEMAndJunk
<1>2. CASE d.kind \in {"der", "pkcs12", "pkcs7", "jks"}
  <2>1. Blocks(d) = <<>>
    BY <1>2 DEF Blocks
  <2>2. Hinted(d, p) = NativeParse(d, p) \/ Hinted(d, p) = Fail("unrecognized")
    BY <1>2, <2>1, HintCases, NativeCases, Disowned, NoBlocks
  <2>4. /\ ParsePKCS12(d, p) \in {NativeParse(d, p), Fail("unrecognized")}
        /\ ParsePKCS7(d) \in {NativeParse(d, p), Fail("unrecognized")}
        /\ ParseDER(d) \in {NativeParse(d, p), Fail("unrecognized")}
        /\ ParseJKS(d, p) \in {NativeParse(d, p), Fail("unrecognized")}
    BY <1>2, NativeCases, Disowned
  <2>5. ParsePEM(Blocks(d), p) = Fail("unrecognized")
    BY <2>1, NoBlocks
  <2> QED
    BY <2>2, <2>4, <2>5, ParseCases
<1> QED
  BY <1>1, <1>2 DEF Kind

-----------------------------------------------------------------------------
(* What the parsers answer for a container.                                *)

LEMMA NormalKeyType == \A k \in NormalKey : k \in KeyDER /\ k # Nil
<1>1. \A k \in Key : PKCS8(k) \in KeyDER
  BY DEF PKCS8, KeyDER, KeyForm
<1> QED
  BY <1>1, MaterialAssumption DEF NormalKey, DERBlob

LEMMA FailIsAnswer == \A e \in Error \ {"none"} : IsAnswer(Fail(e))
<1>1. EmptyBundle.key = Nil /\ EmptyBundle.chain = <<>>
  BY DEF EmptyBundle
<1> QED
  BY <1>1, FailIsResult DEF IsAnswer, Fail

LEMMA MultipleIsAnswer == \A as \in SUBSET (Alias \cup Cert) : IsAnswer(Multiple(as))
<1> TAKE as \in SUBSET (Alias \cup Cert)
<1> DEFINE f == Fail("multiple")
<1>1. f \in Result /\ f.err = "multiple" /\ f.bundle = EmptyBundle
  BY FailIsResult DEF Error, Fail
<1> HIDE DEF f
<1>2. [f EXCEPT !.aliases = as] \in Result
  BY <1>1 DEF Result
<1>3. [f EXCEPT !.aliases = as].err = "multiple" /\ [f EXCEPT !.aliases = as].bundle = EmptyBundle
  BY <1>1 DEF Result
<1>4. EmptyBundle.key = Nil /\ EmptyBundle.chain = <<>>
  BY DEF EmptyBundle
<1> QED
  BY <1>2, <1>3, <1>4 DEF IsAnswer, Multiple, f

LEMMA LeafIsAnswer ==
    ASSUME NEW c \in Cert, NEW k \in NormalKey \cup {Nil}, NEW chain \in Seq(Cert \cup {Noise})
    PROVE  IsAnswer(Ok(LeafBundle(c, k, chain)))
<1> DEFINE b == LeafBundle(c, k, chain)
<1>1. k \in KeyDER \cup {Nil}
  BY NormalKeyType
<1>2. MetaFromLeaf(c) \in Meta
  BY DEF MetaFromLeaf, Meta
<1>3. b \in Bundle
  BY <1>1, <1>2 DEF LeafBundle, Bundle
<1>4. b.leaf = c /\ b.key = k /\ c # Nil
  BY MaterialAssumption DEF LeafBundle, DERBlob
<1> HIDE DEF b
<1>5. Ok(b) \in Result /\ Ok(b).err = "none" /\ Ok(b).bundle = b
  BY <1>3, OkIsResult DEF Ok
<1> QED
  BY <1>4, <1>5 DEF IsAnswer, b

LEMMA KeyIsAnswer ==
    ASSUME NEW k \in NormalKey
    PROVE  IsAnswer(Ok(KeyBundle(k)))
<1> DEFINE b == KeyBundle(k)
<1>1. k \in KeyDER \cup {Nil} /\ k # Nil
  BY NormalKeyType
<1>2. b = [leaf |-> Nil, key |-> k, chain |-> <<>>, meta |-> NoMeta]
  BY DEF KeyBundle, EmptyBundle
<1>3. b \in Bundle
  BY <1>1, <1>2, EmptySeq DEF Bundle, NoMeta, Meta
<1> HIDE DEF b
<1>4. Ok(b) \in Result /\ Ok(b).err = "none" /\ Ok(b).bundle = b
  BY <1>3, OkIsResult DEF Ok
<1> QED
  BY <1>1, <1>2, <1>4 DEF IsAnswer, b

LEMMA ClassifiedIsAnswer ==
    ASSUME NEW cs \in Seq(Cert), cs # <<>>, NEW k \in NormalKey \cup {Nil}
    PROVE  IsAnswer(Ok(ClassifiedBundle(cs, k)))
<1> DEFINE l == LeafIndex(cs)
<1>1. l \in 1..Len(cs)
  BY LeafIndexType
<1> HIDE DEF l
<1>2. cs[l] \in Cert
  BY <1>1, ElementOfSeq
<1>3. RemoveAt(cs, l) \in Seq(Cert)
  BY <1>1, RemoveAtProperties
<1>4. RemoveAt(cs, l) \in Seq(Cert \cup {Noise})
  BY <1>3, SeqMonotonic
<1> QED
  BY <1>2, <1>4, LeafIsAnswer DEF ClassifiedBundle, l

LEMMA ParsePEMAnswers ==
    ASSUME NEW s \in Seq(Block), NEW p
    PROVE  IsAnswer(ParsePEM(s, p))
<1> DEFINE cs == CertsOf(s)
           key == KeyOf(s, p)
<1>1. CASE BadKeyPositions(s, p) # {}
  <2>1. PICK e \in {"wrong_passphrase", "unrecognized"} : ParsePEM(s, p) = Fail(e)
    BY <1>1, ParsePEMCases
  <2> QED
    BY <2>1, FailIsAnswer DEF Error
<1>2. CASE BadKeyPositions(s, p) = {}
  <2>1. /\ key \in NormalKey \cup {Nil}
        /\ ParsePEM(s, p) = IF cs # <<>> THEN Ok(ClassifiedBundle(cs, key))
                            ELSE IF key # Nil THEN Ok(KeyBundle(key))
                            ELSE Fail("unrecognized")
    BY <1>2, ParsePEMCases
  <2>2. cs \in Seq(Cert)
    BY CertsListing
  <2>3. IsAnswer(Fail("unrecognized"))
    BY FailIsAnswer DEF Error
  <2> HIDE DEF cs, key
  <2> QED
    BY <2>1, <2>2, <2>3, ClassifiedIsAnswer, KeyIsAnswer
<1> QED
  BY <1>1, <1>2

(* The first of a list and the rest.                                       *)
LEMMA HeadAndTail ==
    ASSUME NEW S, NEW s \in Seq(S), s # <<>>
    PROVE  Head(s) \in S /\ Tail(s) \in Seq(S)
BY HeadTailProperties

LEMMA BinaryAnswers ==
    ASSUME NEW d, IsContainer(d), NEW p
    PROVE  /\ IsAnswer(ParseDER(d))
           /\ IsAnswer(ParsePKCS12(d, p))
           /\ IsAnswer(ParsePKCS7(d))
<1>1. IsAnswer(Fail("unrecognized")) /\ IsAnswer(Fail("wrong_passphrase"))
  BY FailIsAnswer DEF Error
<1>2. IsAnswer(ParseDER(d))
  <2>1. CASE d.kind = "der"
    BY <2>1, KindOfContainer, EmptySeq, LeafIsAnswer DEF ParseDER
  <2> QED
    BY <1>1, <2>1 DEF ParseDER
<1>3. IsAnswer(ParsePKCS12(d, p))
  <2>1. CASE d.kind = "pkcs12" /\ d.key # Nil /\ d.certs # <<>>
    <3>1. d.key \in Key /\ d.certs \in Seq(Cert)
      BY <2>1, KindOfContainer
    <3>2. PKCS8(d.key) \in NormalKey
      BY <3>1 DEF NormalKey
    <3>3. Head(d.certs) \in Cert /\ Tail(d.certs) \in Seq(Cert)
      BY <2>1, <3>1, HeadAndTail
    <3>4. Tail(d.certs) \in Seq(Cert \cup {Noise})
      BY <3>3, SeqMonotonic
    <3>5. IsAnswer(Ok(LeafBundle(Head(d.certs), PKCS8(d.key), Tail(d.certs))))
      BY <3>2, <3>3, <3>4, LeafIsAnswer
    <3> QED
      BY <1>1, <2>1, <3>5 DEF ParsePKCS12
  <2> QED
    BY <1>1, <2>1 DEF ParsePKCS12
<1>4. IsAnswer(ParsePKCS7(d))
  <2>1. CASE d.kind = "pkcs7" /\ d.certs # <<>>
    <3>1. d.certs \in Seq(Cert)
      BY <2>1, KindOfContainer
    <3>2. IsAnswer(Ok(ClassifiedBundle(d.certs, Nil)))
      BY <2>1, <3>1, ClassifiedIsAnswer
    <3>3. {d.certs[i] : i \in EndEntities(d.certs)} \in SUBSET (Alias \cup Cert)
      <4>1. \A i \in EndEntities(d.certs) : d.certs[i] \in Cert
        BY <3>1, LenProperties, ElementOfSeq DEF EndEntities
      <4> QED
        BY <4>1
    <3>4. IsAnswer(Multiple({d.certs[i] : i \in EndEntities(d.certs)}))
      BY <3>3, MultipleIsAnswer
    <3> QED
      BY <2>1, <3>2, <3>4 DEF ParsePKCS7
  <2> QED
    BY <1>1, <2>1 DEF ParsePKCS7
<1> QED
  BY <1>2, <1>3, <1>4

LEMMA NormalizeType ==
    \A der : LET n == NormalizeToPKCS8(der)
             IN \/ n.err = "none" /\ n.der \in NormalKey
                \/ n.err = "unrecognized"
BY DEF NormalizeToPKCS8, Bytes, NoBytes, KeyDER, NormalKey

LEMMA KeystoreAnswers ==
    ASSUME NEW entries, \A a \in DOMAIN entries : entries[a] \in KeystoreEntry, NEW alias, NEW p
    PROVE  IsAnswer(BundleFromKeystoreEntry(entries, alias, p))
<1>1. IsAnswer(Fail("unrecognized")) /\ IsAnswer(Fail("wrong_passphrase"))
  BY FailIsAnswer DEF Error
<1>2. ASSUME NEW e \in KeystoreEntry, e.tag = "key"
      PROVE  IsAnswer(BundleFromKeyEntry(e, p))
  <2> DEFINE key == NormalizeToPKCS8(e.key)
  <2>1. e.chain \in Seq(Cert \cup {Noise})
    BY <1>2 DEF KeystoreEntry
  <2>2. \/ key.err = "none" /\ key.der \in NormalKey
        \/ key.err = "unrecognized"
    BY NormalizeType
  <2>3. BundleFromKeyEntry(e, p) =
           IF p # e.pass THEN Fail("wrong_passphrase")
           ELSE IF e.chain = <<>> THEN Fail("unrecognized")
           ELSE IF key.err # "none" THEN Fail(key.err)
           ELSE IF Head(e.chain) \notin Cert THEN Fail("unrecognized")
           ELSE Ok(LeafBundle(Head(e.chain), key.der, Tail(e.chain)))
    BY DEF BundleFromKeyEntry
  <2> HIDE DEF key
  <2>4. ASSUME e.chain # <<>>, Head(e.chain) \in Cert, key.err = "none"
        PROVE  IsAnswer(Ok(LeafBundle(Head(e.chain), key.der, Tail(e.chain))))
    <3>1. Tail(e.chain) \in Seq(Cert \cup {Noise})
      BY <2>1, <2>4, HeadAndTail
    <3> QED
      BY <2>2, <2>4, <3>1, LeafIsAnswer
  <2> QED
    BY <1>1, <2>2, <2>3, <2>4
<1>3. ASSUME NEW e
      PROVE  IsAnswer(BundleFromTrustedEntry(e))
  BY <1>1, EmptySeq, LeafIsAnswer DEF BundleFromTrustedEntry
<1> QED
  BY <1>1, <1>2, <1>3 DEF BundleFromKeystoreEntry

LEMMA JKSAnswers ==
    ASSUME NEW d, IsContainer(d), NEW p
    PROVE  IsAnswer(ParseJKS(d, p)) /\ \A alias : IsAnswer(ParseEntry(d, p, alias))
<1>1. IsAnswer(Fail("unrecognized")) /\ IsAnswer(Fail("wrong_passphrase"))
  BY FailIsAnswer DEF Error
<1>2. LoadKeystore(d, p) = "none" \/ IsAnswer(Fail(LoadKeystore(d, p)))
  BY <1>1 DEF LoadKeystore
<1>3. CASE LoadKeystore(d, p) = "none"
  <2>1. \A a \in DOMAIN d.entries : a \in Alias /\ d.entries[a] \in KeystoreEntry
    BY <1>3, KindOfContainer DEF LoadKeystore
  <2>2. \A alias : IsAnswer(BundleFromKeystoreEntry(d.entries, alias, p))
    BY <2>1, KeystoreAnswers
  <2>3. IsAnswer(Multiple(DOMAIN d.entries))
    <3>1. DOMAIN d.entries \in SUBSET (Alias \cup Cert)
      BY <2>1
    <3> QED
      BY <3>1, MultipleIsAnswer
  <2> QED
    BY <1>1, <1>3, <2>2, <2>3 DEF ParseJKS, ParseEntry
<1> QED
  BY <1>2, <1>3 DEF ParseJKS, ParseEntry

(* Parse answers for every container.                                      *)
LEMMA ParseAnswers ==
    ASSUME NEW d, IsContainer(d), NEW p
    PROVE  IsAnswer(Parse(d, p))
<1>1. IsAnswer(Fail("unrecognized"))
  BY FailIsAnswer DEF Error
<1>2. d.kind = "pem" => IsAnswer(ParsePEM(Blocks(d), p))
  BY KindOfContainer, ParsePEMAnswers DEF Blocks
<1>3. IsAnswer(NativeParse(d, p))
  BY <1>1, <1>2, KindOfContainer, NativeCases, BinaryAnswers, JKSAnswers DEF Kind
<1> QED
  BY <1>1, <1>3, KindOfContainer, NativeOrNothing

=============================================================================
