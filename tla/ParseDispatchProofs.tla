------------------------ MODULE ParseDispatchProofs ------------------------
(***************************************************************************)
(* Proofs about ParseDispatch, for every set of inputs: attempt by attempt *)
(* parse computes Parse, and what that means for the hint.                 *)
(***************************************************************************)
EXTENDS ParseDispatch, ParsersProofs

-----------------------------------------------------------------------------
(* An honest hint makes parse the container's own parser, errors included. *)
LEMMA HonestHintDecides ==
    ASSUME NEW d, NEW p, d.kind \in Kind, HonestHint(d)
    PROVE  Parse(d, p) = NativeParse(d, p)
<1>1. Fail("unrecognized").err = "unrecognized"
  BY DEF Fail
<1>2. CASE d.kind \in {"pem", "junk"}
  BY <1>2, PEMAndJunk
<1>3. CASE d.kind \in {"der", "pkcs12", "pkcs7", "jks"}
  <2>1. DetectFormat(d) = d.kind
    BY <1>3 DEF HonestHint
  <2>2. Hinted(d, p) = NativeParse(d, p) /\ "begin" \notin Marks(d)
    BY <1>3, <2>1, HintCases, NativeCases
  <2>3. CASE NativeParse(d, p).err # "unrecognized"
    BY <2>2, <2>3, ParseCases
  <2>4. CASE NativeParse(d, p).err = "unrecognized"
    <3>1. NativeParse(d, p) = Fail("unrecognized")
      <4>1. ParseDER(d).err = "unrecognized" => ParseDER(d) = Fail("unrecognized")
        BY DEF ParseDER, Ok
      <4> QED
        BY <1>3, <2>4, <4>1, Unrecognized, NativeCases
    <3>2. /\ ParsePKCS12(d, p) = Fail("unrecognized") /\ ParsePKCS7(d) = Fail("unrecognized")
          /\ ParseDER(d) = Fail("unrecognized") /\ ParseJKS(d, p) = Fail("unrecognized")
      BY <1>3, <3>1, Disowned, NativeCases
    <3> QED
      BY <1>1, <2>2, <3>1, <3>2, ParseCases
  <2> QED
    BY <2>3, <2>4
<1> QED
  BY <1>2, <1>3 DEF Kind

(* The parsers report several entries exactly for the containers that have *)
(* them, and report all of them.                                           *)
LEMMA AnotherMember ==
    ASSUME NEW S, IsFiniteSet(S), S # {}
    PROVE  Cardinality(S) > 1 <=> \E x, y \in S : x # y
<1>1. (\E x, y \in S : x # y) => Cardinality(S) > 1
  BY TwoMembers
<1>2. ASSUME ~(\E x, y \in S : x # y) PROVE ~(Cardinality(S) > 1)
  <2>1. PICK x \in S : TRUE
    OBVIOUS
  <2>2. S = {x}
    BY <1>2, <2>1
  <2>3. Cardinality({x}) = 1
    BY FS_Singleton
  <2> QED
    BY <2>2, <2>3
<1> QED
  BY <1>1, <1>2

LEMMA MultipleFields == \A as : Multiple(as).err = "multiple" /\ Multiple(as).aliases = as
BY DEF Multiple, Fail

LEMMA SeveralReported ==
    ASSUME NEW d, IsContainer(d), NEW p
    PROVE  /\ Ambiguous(d, p) <=> NativeParse(d, p).err = "multiple"
           /\ NativeParse(d, p).err = "multiple" => NativeParse(d, p).aliases = ToChooseFrom(d)
<1>0. /\ \A e : Fail(e).err = e
      /\ \A b : Ok(b).err = "none"
  BY DEF Fail, Ok
<1>1. d.kind \in Kind
  BY KindOfContainer
<1>2. CASE d.kind = "pem"
  <2>1. Blocks(d) \in Seq(Block)
    BY <1>2, KindOfContainer DEF Blocks
  <2>2. ParsePEM(Blocks(d), p).err # "multiple"
    BY <1>0, <2>1, ParsePEMCases
  <2> QED
    BY <1>2, <2>2, NativeCases DEF Ambiguous
<1>3. CASE d.kind \in {"der", "pkcs12", "junk"}
  <2>1. ParseDER(d).err # "multiple" /\ ParsePKCS12(d, p).err # "multiple"
    BY <1>0 DEF ParseDER, ParsePKCS12
  <2> QED
    BY <1>0, <1>3, <2>1, NativeCases DEF Ambiguous
<1>4. CASE d.kind = "pkcs7"
  <2> DEFINE ends == EndEntities(d.certs)
  <2>1. d.certs \in Seq(Cert) /\ NativeParse(d, p) = ParsePKCS7(d)
    BY <1>4, KindOfContainer, NativeCases
  <2>2. DOMAIN d.certs = 1..Len(d.certs) /\ Len(d.certs) \in Nat
    BY <2>1, LenProperties
  <2>3. IsFiniteSet(ends)
    <3>1. IsFiniteSet(DOMAIN d.certs)
      BY <2>2, FS_Interval
    <3> QED
      BY <3>1, FS_Subset DEF EndEntities
  <2>4. Ambiguous(d, p) <=> \E i, j \in ends : i # j
    BY <1>4 DEF Ambiguous, EndEntities
  <2>5. Ambiguous(d, p) <=> Cardinality(ends) > 1
    <3> HIDE DEF ends
    <3>1. CASE ends = {}
      BY <2>4, <3>1, FS_EmptySet
    <3>2. CASE ends # {}
      BY <2>3, <2>4, <3>2, AnotherMember
    <3> QED
      BY <3>1, <3>2
  <2>6. {d.certs[i] : i \in ends} = ToChooseFrom(d)
    BY <1>4, <2>1, <2>2 DEF ToChooseFrom, EndEntities, Range
  <2>7. d.certs = <<>> => ~Ambiguous(d, p)
    <3> SUFFICES ASSUME d.certs = <<>> PROVE ~(\E i, j \in ends : i # j)
      BY <2>4
    <3> QED
      BY DEF EndEntities
  <2>8. ParsePKCS7(d) = IF d.certs = <<>> THEN Fail("unrecognized")
                        ELSE IF Cardinality(ends) > 1 THEN Multiple({d.certs[i] : i \in ends})
                        ELSE Ok(ClassifiedBundle(d.certs, Nil))
    BY <1>4 DEF ParsePKCS7
  <2> HIDE DEF ends
  <2> QED
    BY <1>0, <2>1, <2>5, <2>6, <2>7, <2>8, MultipleFields
<1>5. CASE d.kind = "jks"
  <2> DEFINE aliases == DOMAIN d.entries
  <2>1. IsFiniteSet(aliases) /\ NativeParse(d, p) = ParseJKS(d, p)
    BY <1>5, KindOfContainer, NativeCases
  <2>2. \A a : BundleFromKeystoreEntry(d.entries, a, p).err # "multiple"
    BY <1>0 DEF BundleFromKeystoreEntry, BundleFromKeyEntry, BundleFromTrustedEntry,
                NormalizeToPKCS8, Bytes, NoBytes
  <2>3. CASE p # d.pass
    BY <1>0, <1>5, <2>1, <2>3 DEF ParseJKS, LoadKeystore, Ambiguous
  <2>4. CASE p = d.pass
    <3>1. ParseJKS(d, p) = IF aliases = {} THEN Fail("unrecognized")
                           ELSE IF Cardinality(aliases) > 1 THEN Multiple(aliases)
                           ELSE BundleFromKeystoreEntry(d.entries, CHOOSE a \in aliases : TRUE, p)
      BY <1>5, <2>4 DEF ParseJKS, LoadKeystore
    <3>2. Ambiguous(d, p) <=> \E a, b \in aliases : a # b
      BY <1>5, <2>4 DEF Ambiguous
    <3>3. ToChooseFrom(d) = aliases
      BY <1>5 DEF ToChooseFrom
    <3> HIDE DEF aliases
    <3>4. CASE aliases = {}
      BY <1>0, <2>1, <3>1, <3>2, <3>4
    <3>5. CASE aliases # {}
      <4>1. Ambiguous(d, p) <=> Cardinality(aliases) > 1
        BY <2>1, <3>2, <3>5, AnotherMember
      <4> QED
        BY <2>1, <2>2, <3>1, <3>3, <3>5, <4>1, MultipleFields
    <3> QED
      BY <3>4, <3>5
  <2> QED
    BY <2>3, <2>4
<1> QED
  BY <1>1, <1>2, <1>3, <1>4, <1>5 DEF Kind

-----------------------------------------------------------------------------
(* The invariant of the dispatch: which attempts have failed is read off   *)
(* from pc, and a call that has returned has returned Parse's answer.      *)

Past(attempts) == pc \in attempts

DispatchInv ==
    /\ data \in Inputs
    /\ pc \in Attempt
    /\ pc = "returned" => result = Parse(data, pass)
    /\ pc # "returned" => result = Pending
    /\ Past(Attempt \ {"hint", "returned"}) => Hinted(data, pass).err = "unrecognized"
    /\ Past({"pkcs12", "pkcs7", "der", "jks", "give up"}) => "begin" \notin Marks(data)
    /\ Past({"pkcs7", "der", "jks", "give up"}) => ParsePKCS12(data, pass).err # "none"
    /\ Past({"der", "jks", "give up"}) => ParsePKCS7(data).err # "none"
    /\ Past({"jks", "give up"}) => ParseDER(data).err # "none"
    /\ Past({"give up"}) => ParseJKS(data, pass).err # "none"

LEMMA InitDispatch == Init => DispatchInv
  BY DEF Init, DispatchInv, Attempt, Past

(* Each attempt hands over to the next one or returns Parse's answer.      *)
LEMMA StepDispatch ==
    ASSUME DispatchInv, Next
    PROVE  /\ DispatchInv'
           /\ result' = result \/ (result = Pending /\ result' = Parse(data, pass))
           /\ UNCHANGED <<data, pass>>
<1> USE DEF DispatchInv, Attempt, Past, ReturnResult, Continue
<1>0. Fail("unrecognized").err = "unrecognized"
  BY DEF Fail
<1>1. CASE TryHint
  <2>1. CASE DetectFormat(data) # Unknown /\ Hinted(data, pass).err # "unrecognized"
    BY <1>1, <2>1, ParseCases DEF TryHint, Hinted
  <2>2. CASE DetectFormat(data) = Unknown \/ Hinted(data, pass).err = "unrecognized"
    <3>1. Hinted(data, pass).err = "unrecognized"
      BY <1>0, <2>2, HintCases
    <3> QED
      BY <1>1, <2>2, <3>1 DEF TryHint, Hinted
  <2> QED
    BY <2>1, <2>2
<1>2. CASE TryBegin
  BY <1>2, ParseCases DEF TryBegin
<1>3. CASE TryPKCS12
  <2>1. pc = "pkcs12" /\ result = Pending /\ UNCHANGED <<data, pass>>
    BY <1>3 DEF TryPKCS12, TryParser
  <2>2. CASE ParsePKCS12(data, pass).err = "none"
    <3>1. Parse(data, pass) = ParsePKCS12(data, pass)
      BY <2>1, <2>2, ParseCases
    <3>2. pc' = "returned" /\ result' = ParsePKCS12(data, pass)
      BY <1>3, <2>2 DEF TryPKCS12, TryParser
    <3> QED
      BY <2>1, <3>1, <3>2
  <2>3. CASE ParsePKCS12(data, pass).err # "none"
    <3>1. pc' = "pkcs7" /\ result' = result
      BY <1>3, <2>3 DEF TryPKCS12, TryParser
    <3> QED
      BY <2>1, <2>3, <3>1
  <2> QED
    BY <2>2, <2>3
<1>4. CASE TryPKCS7
  <2>1. pc = "pkcs7" /\ result = Pending /\ UNCHANGED <<data, pass>>
    BY <1>4 DEF TryPKCS7, TryParser
  <2>2. CASE ParsePKCS7(data).err = "none"
    <3>1. Parse(data, pass) = ParsePKCS7(data)
      BY <2>1, <2>2, ParseCases
    <3>2. pc' = "returned" /\ result' = ParsePKCS7(data)
      BY <1>4, <2>2 DEF TryPKCS7, TryParser
    <3> QED
      BY <2>1, <3>1, <3>2
  <2>3. CASE ParsePKCS7(data).err # "none"
    <3>1. pc' = "der" /\ result' = result
      BY <1>4, <2>3 DEF TryPKCS7, TryParser
    <3> QED
      BY <2>1, <2>3, <3>1
  <2> QED
    BY <2>2, <2>3
<1>5. CASE TryDER
  <2>1. pc = "der" /\ result = Pending /\ UNCHANGED <<data, pass>>
    BY <1>5 DEF TryDER, TryParser
  <2>2. CASE ParseDER(data).err = "none"
    <3>1. Parse(data, pass) = ParseDER(data)
      BY <2>1, <2>2, ParseCases
    <3>2. pc' = "returned" /\ result' = ParseDER(data)
      BY <1>5, <2>2 DEF TryDER, TryParser
    <3> QED
      BY <2>1, <3>1, <3>2
  <2>3. CASE ParseDER(data).err # "none"
    <3>1. pc' = "jks" /\ result' = result
      BY <1>5, <2>3 DEF TryDER, TryParser
    <3> QED
      BY <2>1, <2>3, <3>1
  <2> QED
    BY <2>2, <2>3
<1>6. CASE TryJKS
  <2>1. pc = "jks" /\ result = Pending /\ UNCHANGED <<data, pass>>
    BY <1>6 DEF TryJKS, TryParser
  <2>2. CASE ParseJKS(data, pass).err = "none"
    <3>1. Parse(data, pass) = ParseJKS(data, pass)
      BY <2>1, <2>2, ParseCases
    <3>2. pc' = "returned" /\ result' = ParseJKS(data, pass)
      BY <1>6, <2>2 DEF TryJKS, TryParser
    <3> QED
      BY <2>1, <3>1, <3>2
  <2>3. CASE ParseJKS(data, pass).err # "none"
    <3>1. pc' = "give up" /\ result' = result
      BY <1>6, <2>3 DEF TryJKS, TryParser
    <3> QED
      BY <2>1, <2>3, <3>1
  <2> QED
    BY <2>2, <2>3
<1>7. CASE GiveUp
  BY <1>7, ParseCases DEF GiveUp
<1> QED
  BY <1>1, <1>2, <1>3, <1>4, <1>5, <1>6, <1>7 DEF Next

LEMMA DispatchInvariant == Spec => []DispatchInv
<1>1. ASSUME DispatchInv, [Next]_vars PROVE DispatchInv'
  <2>1. CASE Next
    BY <1>1, <2>1, StepDispatch
  <2>2. CASE UNCHANGED vars
    BY <1>1, <2>2 DEF vars, DispatchInv, Past
  <2> QED
    BY <1>1, <2>1, <2>2
<1> QED
  BY InitDispatch, <1>1, PTL DEF Spec

(* What a call returns is well formed whatever container it is given: a    *)
(* normalized key or none, no chain without a leaf, an empty bundle with   *)
(* an error and something in it without one (parse.go:98-130).             *)
THEOREM TypeCorrect == Spec => []TypeOK
<1>1. DispatchInv /\ pass \in Pass => TypeOK
  <2> SUFFICES ASSUME DispatchInv, pass \in Pass
               PROVE  TypeOK
    OBVIOUS
  <2>1. IsAnswer(Parse(data, pass))
    BY InputsAssumption, ParseAnswers DEF DispatchInv
  <2> QED
    BY <2>1 DEF DispatchInv, TypeOK, Returned
<1>2. Init => pass \in Pass
  BY DEF Init
<1>3. ASSUME DispatchInv, pass \in Pass, [Next]_vars
      PROVE  (pass \in Pass)'
  <2>1. CASE Next
    BY <1>3, <2>1, StepDispatch
  <2>2. CASE UNCHANGED vars
    BY <1>3, <2>2 DEF vars
  <2> QED
    BY <1>3, <2>1, <2>2
<1> QED
  BY DispatchInvariant, <1>1, <1>2, <1>3, PTL DEF Spec

(* parse, attempt by attempt, returns at most once, and returns Parse's    *)
(* answer for its data and passphrase (parse.go:98-130).                   *)
THEOREM DispatchImplementsContract == Spec => ImplementsParseCall
<1>1. Init => Call!Init
  BY DEF Init, Call!Init
<1>2. ASSUME DispatchInv, [Next]_vars PROVE [Call!Next]_(Call!vars)
  <2>1. CASE Next
    BY <1>2, <2>1, StepDispatch DEF Call!Next, Call!Return, Call!vars
  <2>2. CASE UNCHANGED vars
    BY <2>2 DEF vars, Call!vars
  <2> QED
    BY <1>2, <2>1, <2>2
<1> QED
  BY DispatchInvariant, <1>1, <1>2, PTL DEF Spec, ImplementsParseCall, Call!Spec

(* When the hint is right, what parse returns is its parser's answer,      *)
(* whatever it is: no fallback masks a definitive error (parse.go:99-103). *)
THEOREM DefinitiveErrorsPropagate == Spec => []DefinitiveErrorsKept
<1>1. DispatchInv => DefinitiveErrorsKept
  BY InputsAssumption, KindOfContainer, HonestHintDecides DEF DispatchInv, DefinitiveErrorsKept, Returned
<1> QED
  BY DispatchInvariant, <1>1, PTL

(* Whatever the hint says, a container without a stray PEM marker that its *)
(* own parser reads is read by parse (parse.go:103-105, :113-127).         *)
THEOREM ReadableContainersRead == Spec => []HintNeverHidesData
<1>1. DispatchInv => HintNeverHidesData
  BY InputsAssumption, KindOfContainer, ReadableIsRead DEF DispatchInv, HintNeverHidesData, Returned
<1> QED
  BY DispatchInvariant, <1>1, PTL

(* Several entries or end entities are reported, all of them, and nothing  *)
(* else is reported as several (parse.go:108, :351-360 and :391-399).      *)
THEOREM AmbiguityIsReported == Spec => []AmbiguityReported
<1>1. DispatchInv => AmbiguityReported
  <2> SUFFICES ASSUME DispatchInv, Returned PROVE AmbiguityReported
    BY DEF AmbiguityReported
  <2>1. IsContainer(data) /\ data.kind \in Kind /\ result = Parse(data, pass)
    BY InputsAssumption, KindOfContainer DEF DispatchInv, Returned
  <2>2. result \in {NativeParse(data, pass), Fail("unrecognized")}
    BY <2>1, NativeOrNothing
  <2>3. HonestHint(data) => result = NativeParse(data, pass)
    BY <2>1, HonestHintDecides
  <2>4. Fail("unrecognized").err # "multiple"
    BY DEF Fail
  <2> QED
    BY <2>1, <2>2, <2>3, <2>4, SeveralReported DEF AmbiguityReported
<1> QED
  BY DispatchInvariant, <1>1, PTL

=============================================================================
