-------------------------- MODULE PEMStreamProofs --------------------------
(***************************************************************************)
(* Proofs about PEMStream, for every set of streams, certificates, keys    *)
(* and passphrases: the loop invariant, the leaf rule, and that the loop   *)
(* implements the contract ParsePEM.                                       *)
(***************************************************************************)
EXTENDS PEMStream, ParsersProofs

(* The parallel lists being aligned, the bundle put together from the kept *)
(* blocks is the classification of the parsed certificates.                *)
LEMMA AssembledIsClassified ==
    ASSUME TypeOK, ListsAligned
    PROVE  /\ DersAt(data, certPEMs) = certs
           /\ certs # <<>> => AssembledBundle = ClassifiedBundle(certs, keyPEM)
<1>1. DersAt(data, certPEMs) = certs
  BY DEF DersAt, TypeOK, ListsAligned
<1> QED
  BY <1>1 DEF AssembledBundle, ClassifiedBundle, LeafBundle

-----------------------------------------------------------------------------
(* The loop invariant.                                                     *)

IInv == TypeOK /\ ScanInv

LEMMA InitInv == Init => IInv
<1> SUFFICES ASSUME Init PROVE IInv
  OBVIOUS
<1> USE StreamsAssumption DEF Init
<1>1. data \in Seq(Block) /\ Len(data) \in Nat
  BY LenProperties
<1>2. TypeOK
  BY <1>1, EmptySeq DEF TypeOK
<1>3. ListsAligned
  BY DEF ListsAligned
<1>4. CertsListed
  BY <1>1 DEF CertsListed
<1>5. LastKeyKept
  BY <1>1 DEF LastKeyKept
<1> QED
  BY <1>2, <1>3, <1>4, <1>5 DEF IInv, ScanInv

(* What holds at the head of the loop: the next block is one of the input, *)
(* and nothing has failed.                                                 *)
LEMMA ScanningFacts ==
    ASSUME IInv, Scanning
    PROVE  /\ Len(data) \in Nat /\ DOMAIN data = 1..Len(data) /\ pos \in 1..Len(data)
           /\ data[pos] \in Block
           /\ ~Failed /\ CertsListed /\ LastKeyKept
           /\ 1..(pos + 1) - 1 = (1..pos - 1) \cup {pos}
           /\ pos \notin 1..pos - 1
<1>1. Len(data) \in Nat /\ DOMAIN data = 1..Len(data)
  BY LenProperties DEF IInv, TypeOK
<1>2. pos \in 1..Len(data)
  BY <1>1 DEF Scanning
<1>3. data[pos] \in Block
  BY <1>2, ElementOfSeq DEF IInv, TypeOK
<1>4. ~Failed
  BY DEF Scanning, Failed
<1> QED
  BY <1>1, <1>2, <1>3, <1>4 DEF IInv, ScanInv

LEMMA ReadCertificateInv ==
    ASSUME IInv, ReadCertificate
    PROVE  IInv'
<1> DEFINE seen  == CertPositions(data) \cap 1..pos - 1
           seen1 == CertPositions(data) \cap 1..(pos + 1) - 1
<1>0. Scanning
  BY DEF ReadCertificate
<1>1. /\ Len(data) \in Nat /\ DOMAIN data = 1..Len(data) /\ pos \in 1..Len(data)
      /\ data[pos] \in Block /\ ~Failed /\ CertsListed /\ LastKeyKept
      /\ 1..(pos + 1) - 1 = (1..pos - 1) \cup {pos} /\ pos \notin 1..pos - 1
  BY <1>0, ScanningFacts
<1>2. pos' = pos + 1 /\ UNCHANGED <<data, pass, keyPEM, result>>
  BY DEF ReadCertificate
<1>3. pos \notin KeyPositions(data)
  BY DEF ReadCertificate, KeyPositions, IsCertificateBlock, IsPrivateKeyBlock,
         CertBlockType, KeyBlockType
<1>4. LastKeyKept'
  <2>1. KeyPositions(data) \cap 1..(pos + 1) - 1 = KeyPositions(data) \cap 1..pos - 1
    BY <1>1, <1>3
  <2>2. BadKeyPositions(data, pass) \cap 1..(pos + 1) - 1
          = BadKeyPositions(data, pass) \cap 1..pos - 1
    BY <1>1, <1>3 DEF BadKeyPositions
  <2> QED
    BY <1>1, <1>2, <2>1, <2>2 DEF LastKeyKept
<1>5. CASE data[pos].der \in Cert
  <2>1. certs' = Append(certs, data[pos].der) /\ certPEMs' = Append(certPEMs, pos)
    BY <1>5 DEF ReadCertificate
  <2>2. certs \in Seq(Cert) /\ certPEMs \in Seq(1..Len(data))
    BY DEF IInv, TypeOK
  <2>3. Len(certs) = Len(certPEMs) /\ Len(certs) \in Nat
        /\ DOMAIN certs = 1..Len(certs) /\ DOMAIN certPEMs = 1..Len(certs)
    BY <2>2, LenProperties DEF IInv, ScanInv, ListsAligned
  <2>4. /\ certs' \in Seq(Cert) /\ Len(certs') = Len(certs) + 1
        /\ \A i \in 1..Len(certs) : certs'[i] = certs[i]
        /\ certs'[Len(certs) + 1] = data[pos].der
    BY <1>5, <2>1, <2>2, AppendProperties
  <2>5. /\ certPEMs' \in Seq(1..Len(data)) /\ Len(certPEMs') = Len(certs) + 1
        /\ \A i \in 1..Len(certs) : certPEMs'[i] = certPEMs[i]
        /\ certPEMs'[Len(certs) + 1] = pos
    BY <1>1, <2>1, <2>2, <2>3, AppendProperties
  <2>6. DOMAIN certs' = 1..Len(certs) + 1 /\ DOMAIN certPEMs' = 1..Len(certs) + 1
    BY <2>4, <2>5, LenProperties
  <2>7. TypeOK'
    BY <1>1, <1>2, <2>4, <2>5 DEF IInv, TypeOK
  <2>8. ListsAligned'
    BY <1>2, <2>3, <2>4, <2>5, <2>6 DEF IInv, ScanInv, ListsAligned
  <2>9. seen1 = seen \cup {pos}
    BY <1>1, <1>5 DEF ReadCertificate, CertPositions
  <2>10. CertsListed'
    <3>1. \A x \in seen : \E i \in 1..Len(certs) : certPEMs[i] = x
      BY <1>1, <2>3 DEF CertsListed
    <3>2. \A i \in 1..Len(certs) : certPEMs[i] \in seen
      BY <1>1, <2>3 DEF CertsListed
    <3>3. \A i, j \in 1..Len(certs) : i < j => certPEMs[i] < certPEMs[j]
      BY <1>1, <2>3 DEF CertsListed
    <3> HIDE DEF seen, seen1
    <3>4. \A x \in seen1 : \E i \in DOMAIN certPEMs' : certPEMs'[i] = x
      BY <3>1, <2>3, <2>5, <2>6, <2>9
    <3>5. \A i \in DOMAIN certPEMs' : certPEMs'[i] \in seen1
      BY <3>2, <2>3, <2>5, <2>6, <2>9
    <3>6. \A i \in 1..Len(certs) : certPEMs[i] < pos
      BY <3>2, <1>1 DEF seen
    <3>7. \A i, j \in DOMAIN certPEMs' : i < j => certPEMs'[i] < certPEMs'[j]
      <4> SUFFICES ASSUME NEW i \in 1..Len(certs) + 1, NEW j \in 1..Len(certs) + 1, i < j
                   PROVE  certPEMs'[i] < certPEMs'[j]
        BY <2>6
      <4>1. i \in 1..Len(certs) /\ certPEMs'[i] = certPEMs[i]
        BY <2>3, <2>5
      <4>2. CASE j \in 1..Len(certs)
        BY <3>3, <4>1, <4>2, <2>5
      <4>3. CASE j = Len(certs) + 1
        BY <3>6, <4>1, <4>3, <2>5
      <4> QED
        BY <4>2, <4>3, <2>3
    <3> QED
      BY <1>2, <3>4, <3>5, <3>7 DEF CertsListed, seen1
  <2> QED
    BY <1>4, <2>7, <2>8, <2>10 DEF IInv, ScanInv
<1>6. CASE data[pos].der \notin Cert
  <2>1. UNCHANGED <<certs, certPEMs>>
    BY <1>6 DEF ReadCertificate
  <2>2. TypeOK'
    BY <1>1, <1>2, <2>1 DEF IInv, TypeOK
  <2>3. ListsAligned'
    BY <1>2, <2>1 DEF IInv, ScanInv, ListsAligned
  <2>4. seen1 = seen
    BY <1>1, <1>6 DEF CertPositions
  <2>5. CertsListed'
    BY <1>1, <1>2, <2>1, <2>4 DEF CertsListed
  <2> QED
    BY <1>4, <2>2, <2>3, <2>5 DEF IInv, ScanInv
<1> QED
  BY <1>5, <1>6

LEMMA ReadPrivateKeyInv ==
    ASSUME IInv, ReadPrivateKey
    PROVE  IInv'
<1> DEFINE key   == DecodePrivateKeyBlock(data[pos], pass)
           seen  == KeyPositions(data) \cap 1..pos - 1
           seen1 == KeyPositions(data) \cap 1..(pos + 1) - 1
<1>0. Scanning
  BY DEF ReadPrivateKey
<1>1. /\ Len(data) \in Nat /\ DOMAIN data = 1..Len(data) /\ pos \in 1..Len(data)
      /\ data[pos] \in Block /\ ~Failed /\ CertsListed /\ LastKeyKept
      /\ 1..(pos + 1) - 1 = (1..pos - 1) \cup {pos} /\ pos \notin 1..pos - 1
  BY <1>0, ScanningFacts
<1>2. pos' = pos + 1 /\ UNCHANGED <<data, pass, certs, certPEMs>>
  BY DEF ReadPrivateKey
<1>3. \/ key.err = "none" /\ key.der \in {PKCS8(k) : k \in Key} /\ key.der # Nil
      \/ key.err \in {"wrong_passphrase", "unrecognized"}
  BY <1>1, DecodeType
<1>4. ListsAligned'
  BY <1>2 DEF IInv, ScanInv, ListsAligned
<1>5. pos \in KeyPositions(data) /\ pos \notin CertPositions(data)
  BY <1>1 DEF ReadPrivateKey, KeyPositions, CertPositions, IsCertificateBlock,
              IsPrivateKeyBlock, CertBlockType, KeyBlockType
<1>6. CertsListed'
  <2>1. CertPositions(data) \cap 1..(pos + 1) - 1 = CertPositions(data) \cap 1..pos - 1
    BY <1>1, <1>5
  <2> QED
    BY <1>1, <1>2, <2>1 DEF CertsListed
<1>7. CASE key.err = "none"
  <2>1. keyPEM' = key.der /\ UNCHANGED result
    BY <1>7 DEF ReadPrivateKey
  <2>2. TypeOK'
    BY <1>1, <1>2, <1>3, <1>7, <2>1 DEF IInv, TypeOK
  <2>3. seen1 = seen \cup {pos}
    BY <1>1, <1>5
  <2>4. Max(seen1) = pos
    <3>1. seen1 \in SUBSET Nat /\ pos \in seen1 /\ \A x \in seen1 : x <= pos
      BY <1>1, <2>3
    <3> HIDE DEF seen1
    <3> QED
      BY <3>1, MaxIs
  <2>5. BadKeyPositions(data, pass) \cap 1..(pos + 1) - 1 = {}
    <3>1. pos \notin BadKeyPositions(data, pass)
      BY <1>7 DEF BadKeyPositions
    <3> QED
      BY <1>1, <3>1 DEF LastKeyKept
  <2>6. LastKeyKept'
    <3>1. seen1 # {}
      BY <2>3
    <3> HIDE DEF seen1
    <3> QED
      BY <1>2, <2>1, <2>4, <2>5, <3>1 DEF LastKeyKept, seen1
  <2> QED
    BY <1>4, <1>6, <2>2, <2>6 DEF IInv, ScanInv
<1>8. CASE key.err \in {"wrong_passphrase", "unrecognized"}
  <2>1. result' = Fail(key.err) /\ UNCHANGED keyPEM
    BY <1>8 DEF ReadPrivateKey
  <2>2. result' \in Result
    BY <1>8, <2>1, FailIsResult DEF Error
  <2>3. Failed'
    BY <1>8, <2>1, <2>2, PendingAssumption DEF Failed, Fail
  <2>4. TypeOK'
    BY <1>1, <1>2, <2>1, <2>2 DEF IInv, TypeOK
  <2> QED
    BY <1>4, <2>3, <2>4 DEF IInv, ScanInv
<1> QED
  BY <1>3, <1>7, <1>8

LEMMA SkipBlockInv ==
    ASSUME IInv, SkipBlock
    PROVE  IInv'
<1>0. Scanning
  BY DEF SkipBlock
<1>1. /\ Len(data) \in Nat /\ DOMAIN data = 1..Len(data) /\ pos \in 1..Len(data)
      /\ data[pos] \in Block /\ ~Failed /\ CertsListed /\ LastKeyKept
      /\ 1..(pos + 1) - 1 = (1..pos - 1) \cup {pos} /\ pos \notin 1..pos - 1
  BY <1>0, ScanningFacts
<1>2. pos' = pos + 1 /\ UNCHANGED <<data, pass, certs, certPEMs, keyPEM, result>>
  BY DEF SkipBlock
<1>3. pos \notin KeyPositions(data) /\ pos \notin CertPositions(data)
  BY DEF SkipBlock, KeyPositions, CertPositions
<1>4. /\ CertPositions(data) \cap 1..(pos + 1) - 1 = CertPositions(data) \cap 1..pos - 1
      /\ KeyPositions(data) \cap 1..(pos + 1) - 1 = KeyPositions(data) \cap 1..pos - 1
      /\ BadKeyPositions(data, pass) \cap 1..(pos + 1) - 1
            = BadKeyPositions(data, pass) \cap 1..pos - 1
  BY <1>1, <1>3 DEF BadKeyPositions
<1>5. TypeOK'
  BY <1>1, <1>2 DEF IInv, TypeOK
<1>6. ListsAligned'
  BY <1>2 DEF IInv, ScanInv, ListsAligned
<1>7. CertsListed' /\ LastKeyKept'
  BY <1>1, <1>2, <1>4 DEF CertsListed, LastKeyKept
<1> QED
  BY <1>5, <1>6, <1>7 DEF IInv, ScanInv

LEMMA AssembleInv ==
    ASSUME IInv, Assemble
    PROVE  IInv'
<1>1. UNCHANGED <<data, pass, pos, certs, certPEMs, keyPEM>>
  BY DEF Assemble
<1>2. certs \in Seq(Cert) /\ keyPEM \in KeyDER \cup {Nil}
  BY DEF IInv, TypeOK, PKCS8, KeyDER, KeyForm
<1>3. result' \in Result
  <2>1. CASE certs # <<>>
    <3>1. AssembledBundle = ClassifiedBundle(certs, keyPEM)
      BY <2>1, AssembledIsClassified DEF IInv, ScanInv
    <3> QED
      BY <1>2, <2>1, <3>1, ClassifiedType, OkIsResult DEF Assemble
  <2>2. CASE certs = <<>> /\ keyPEM # Nil
    <3>1. KeyBundle(keyPEM) \in Bundle
      BY <1>2, EmptySeq DEF KeyBundle, EmptyBundle, Bundle, Meta, NoMeta
    <3> QED
      BY <2>2, <3>1, OkIsResult DEF Assemble
  <2>3. CASE certs = <<>> /\ keyPEM = Nil
    BY <2>3, FailIsResult DEF Assemble, Error
  <2> QED
    BY <2>1, <2>2, <2>3
<1>4. ~Failed
  BY DEF Assemble, Failed
<1> QED
  BY <1>1, <1>3, <1>4 DEF IInv, TypeOK, ScanInv, ListsAligned, CertsListed, LastKeyKept

LEMMA StepInv == IInv /\ [Next]_vars => IInv'
<1>1. CASE UNCHANGED vars
  BY <1>1 DEF vars, IInv, TypeOK, ScanInv, ListsAligned, CertsListed, LastKeyKept, Failed
<1> QED
  BY <1>1, ReadCertificateInv, ReadPrivateKeyInv, SkipBlockInv, AssembleInv DEF Next

(* The loop invariant holds throughout every call.                         *)
LEMMA InvariantHolds == Spec => []IInv
BY InitInv, StepInv, PTL DEF Spec

(* Every variable of parsePEM keeps its type: in particular only PKCS#8    *)
(* keys are kept, and what is returned is a Bundle or a known error.       *)
THEOREM TypeCorrect == Spec => []TypeOK
<1>1. IInv => TypeOK
  BY DEF IInv
<1> QED
  BY <1>1, InvariantHolds, PTL

(* The two parallel lists stay aligned, list the parsed certificates in    *)
(* file order, and the last decodable key is the one kept.                 *)
THEOREM ScanInvariant == Spec => []ScanInv
<1>1. IInv => ScanInv
  BY DEF IInv
<1> QED
  BY <1>1, InvariantHolds, PTL

-----------------------------------------------------------------------------
(* What the code after the loop relies on.                                 *)

LEMMA EndOfStream ==
    ASSUME IInv, Assemble
    PROVE  /\ certPEMs \in Seq(Nat) /\ certs \in Seq(Cert) /\ DOMAIN certs = DOMAIN certPEMs
           /\ \A i \in DOMAIN certs : certs[i] = data[certPEMs[i]].der
           /\ \A i \in DOMAIN certPEMs : certPEMs[i] \in CertPositions(data)
           /\ \A x \in CertPositions(data) : \E i \in DOMAIN certPEMs : certPEMs[i] = x
           /\ \A i, j \in DOMAIN certPEMs : i < j => certPEMs[i] < certPEMs[j]
           /\ BadKeyPositions(data, pass) = {}
           /\ keyPEM = IF KeyPositions(data) = {} THEN Nil
                       ELSE DecodePrivateKeyBlock(data[Max(KeyPositions(data))], pass).der
<1>1. Len(data) \in Nat /\ DOMAIN data = 1..Len(data)
  BY LenProperties DEF IInv, TypeOK
<1>2. 1..pos - 1 = DOMAIN data
  BY <1>1 DEF Assemble, IInv, TypeOK
<1>3. /\ CertPositions(data) \cap 1..pos - 1 = CertPositions(data)
      /\ KeyPositions(data) \cap 1..pos - 1 = KeyPositions(data)
      /\ BadKeyPositions(data, pass) \cap 1..pos - 1 = BadKeyPositions(data, pass)
  BY <1>2 DEF CertPositions, KeyPositions, BadKeyPositions
<1>4. CertsListed /\ LastKeyKept /\ ListsAligned
  BY DEF Assemble, Failed, IInv, ScanInv
<1>5. certPEMs \in Seq(Nat)
  <2>1. 1..Len(data) \subseteq Nat
    BY <1>1
  <2> QED
    BY <2>1, SeqMonotonic DEF IInv, TypeOK
<1> QED
  BY <1>3, <1>4, <1>5 DEF CertsListed, LastKeyKept, ListsAligned, IInv, TypeOK

(* The leaf rule, at the step that picks the leaf.                         *)
LEMMA AssembleLeaf ==
    ASSUME IInv, Assemble, CertPositions(data) # {}
    PROVE  LeafLeads'
<1> DEFINE l == LeafIndex(certs)
           n == Len(certs)
<1>1. certs # <<>>
  BY EndOfStream
<1>2. n \in Nat /\ DOMAIN certs = 1..n /\ DOMAIN certPEMs = 1..n /\ l \in 1..n
  BY <1>1, EndOfStream, LenProperties, LeafIndexType
<1>3. result' = Ok(ClassifiedBundle(certs, keyPEM)) /\ UNCHANGED data
  BY <1>1, AssembledIsClassified DEF Assemble, IInv, ScanInv
<1>4. /\ result'.bundle.leaf = certs[l]
      /\ result'.bundle.meta = MetaFromLeaf(certs[l])
  BY <1>3 DEF Ok, ClassifiedBundle, LeafBundle
<1>5. certs[l] = data[certPEMs[l]].der /\ certPEMs[l] \in CertPositions(data)
  BY <1>2, EndOfStream
<1>6. EndEntities(certs) \subseteq 1..n /\ EndEntities(certs) \in SUBSET Nat
  BY <1>2 DEF EndEntities
<1>7. ASSUME NEW i \in CertPositions(data)
      PROVE  IF data[certPEMs[l]].der \in CA THEN certPEMs[l] <= i /\ data[i].der \in CA
             ELSE i < certPEMs[l] => data[i].der \in CA
  <2>1. PICK m \in 1..n : certPEMs[m] = i
    BY <1>2, EndOfStream
  <2>2. data[i].der = certs[m]
    BY <1>2, <2>1, EndOfStream
  <2>3. certPEMs[m] \in Nat /\ certPEMs[l] \in Nat
    BY <1>2, EndOfStream, ElementOfSeq, LenProperties
  <2>4. (l < m => certPEMs[l] < certPEMs[m]) /\ (m < l => certPEMs[m] < certPEMs[l])
    BY <1>2, EndOfStream
  <2>5. CASE EndEntities(certs) = {}
    <3>1. l = 1
      BY <2>5 DEF LeafIndex
    <3>2. certs[m] \in CA /\ certs[l] \in CA
      BY <1>2, <2>5 DEF EndEntities
    <3>3. certPEMs[l] <= i
      BY <1>2, <2>1, <2>3, <2>4, <3>1
    <3> QED
      BY <1>5, <2>2, <3>2, <3>3
  <2>6. CASE EndEntities(certs) # {}
    <3>1. l \in EndEntities(certs) /\ \A k \in EndEntities(certs) : l <= k
      BY <1>6, <2>6, MinInSet DEF LeafIndex
    <3>2. certs[l] \notin CA
      BY <3>1 DEF EndEntities
    <3>3. i < certPEMs[l] => m < l
      BY <1>2, <2>1, <2>3, <2>4
    <3>4. m < l => certs[m] \in CA
      BY <1>2, <3>1 DEF EndEntities
    <3> QED
      BY <1>5, <2>2, <3>2, <3>3, <3>4
  <2> QED
    BY <2>5, <2>6
<1> QED
  BY <1>3, <1>4, <1>5, <1>7 DEF LeafLeads

LEMMA LeafStep == IInv /\ LeafLeads /\ [Next]_vars => LeafLeads'
<1> SUFFICES ASSUME IInv, LeafLeads, [Next]_vars
             PROVE  LeafLeads'
  OBVIOUS
<1>1. CASE ReadCertificate
  BY <1>1 DEF ReadCertificate, Scanning, LeafLeads, Parsed
<1>2. CASE ReadPrivateKey
  <2>1. \/ result' = Pending
        \/ \E e \in {"wrong_passphrase", "unrecognized"} : result' = Fail(e)
    <3>1. data[pos] \in Block
      BY <1>2, ScanningFacts DEF ReadPrivateKey
    <3> QED
      BY <1>2, <3>1, DecodeType DEF ReadPrivateKey, Scanning
  <2>2. ~Parsed'
    BY <2>1 DEF Parsed, Fail
  <2> QED
    BY <2>2 DEF LeafLeads
<1>3. CASE SkipBlock
  BY <1>3 DEF SkipBlock, Scanning, LeafLeads, Parsed
<1>4. CASE Assemble
  <2>1. CASE CertPositions(data) # {}
    BY <1>4, <2>1, AssembleLeaf
  <2>2. CASE CertPositions(data) = {}
    BY <1>4, <2>2 DEF Assemble, LeafLeads
  <2> QED
    BY <2>1, <2>2
<1>5. CASE UNCHANGED vars
  BY <1>5 DEF vars, LeafLeads, Parsed
<1> QED
  BY <1>1, <1>2, <1>3, <1>4, <1>5 DEF Next

(* The leaf of a parsed bundle, and its Meta, are those of the first       *)
(* end-entity certificate of the file, or of the first one if all are CAs. *)
THEOREM LeafRule == Spec => []LeafLeads
<1>1. Init => LeafLeads
  BY DEF Init, LeafLeads, Parsed
<1> QED
  BY <1>1, InvariantHolds, LeafStep, PTL DEF Spec

-----------------------------------------------------------------------------
(* The loop implements its contract.                                       *)

(* The code after the loop returns what ParsePEM says of the stream.       *)
LEMMA AssembleAnswers ==
    ASSUME IInv, Assemble
    PROVE  result' = ParsePEM(data, pass)
<1> DEFINE S == CertPositions(data)
           k == IF KeyPositions(data) = {} THEN Nil
                ELSE DecodePrivateKeyBlock(data[Max(KeyPositions(data))], pass).der
           cs == DersAt(data, InOrder(CertPositions(data)))
<1>1. S \in SUBSET Nat /\ certPEMs \in Seq(S)
  <2>1. DOMAIN data \subseteq Nat
    BY LenProperties DEF IInv, TypeOK
  <2>2. S \in SUBSET Nat
    BY <2>1 DEF CertPositions
  <2>3. certPEMs \in [1..Len(certPEMs) -> S] /\ Len(certPEMs) \in Nat
    BY EndOfStream, LenProperties
  <2> QED
    BY <2>2, <2>3, SeqDef
<1>2. InOrder(S) = certPEMs
  <2> HIDE DEF S
  <2>1. /\ \A x \in S : \E i \in DOMAIN certPEMs : certPEMs[i] = x
        /\ \A i, j \in DOMAIN certPEMs : i < j => certPEMs[i] < certPEMs[j]
    BY EndOfStream DEF S
  <2> QED
    BY <1>1, <2>1, ListingIsInOrder
<1>3. cs = certs
  BY <1>2, AssembledIsClassified DEF IInv, ScanInv
<1>4. keyPEM = k /\ BadKeyPositions(data, pass) = {}
  BY EndOfStream
<1>5. certs # <<>> => AssembledBundle = ClassifiedBundle(certs, keyPEM)
  BY AssembledIsClassified DEF IInv, ScanInv
<1> HIDE DEF k, cs
<1>6. ParsePEM(data, pass) = IF cs # <<>> THEN Ok(ClassifiedBundle(cs, k))
                             ELSE IF k # Nil THEN Ok(KeyBundle(k))
                             ELSE Fail("unrecognized")
  BY <1>4 DEF ParsePEM, k, cs
<1> QED
  BY <1>3, <1>4, <1>5, <1>6 DEF Assemble

(* A key block that does not decode ends the call with the error ParsePEM  *)
(* gives the stream: no earlier key block failed.                          *)
LEMMA BadKeyAnswers ==
    ASSUME IInv, ReadPrivateKey, result' # Pending
    PROVE  result' = ParsePEM(data, pass)
<1> DEFINE bad == BadKeyPositions(data, pass)
<1>1. /\ DOMAIN data = 1..Len(data) /\ Len(data) \in Nat /\ pos \in 1..Len(data)
      /\ bad \cap 1..pos - 1 = {}
  BY ScanningFacts DEF ReadPrivateKey, LastKeyKept
<1>2. /\ DecodePrivateKeyBlock(data[pos], pass).err # "none"
      /\ result' = Fail(DecodePrivateKeyBlock(data[pos], pass).err)
  BY DEF ReadPrivateKey, Scanning
<1>3. pos \in bad
  BY <1>1, <1>2 DEF ReadPrivateKey, BadKeyPositions, KeyPositions
<1>4. bad \in SUBSET Nat /\ \A x \in bad : pos <= x
  BY <1>1 DEF BadKeyPositions, KeyPositions
<1> HIDE DEF bad
<1>5. Min(bad) = pos
  BY <1>3, <1>4, MinIs
<1> QED
  BY <1>2, <1>3, <1>5 DEF ParsePEM, bad

LEMMA RefinementStep == IInv /\ [Next]_vars => [Call!Next]_(Call!vars)
<1> SUFFICES ASSUME IInv, [Next]_vars
             PROVE  Call!Next \/ UNCHANGED Call!vars
  BY DEF Call!vars
<1>1. CASE ReadCertificate
  BY <1>1 DEF ReadCertificate, Call!vars
<1>2. CASE ReadPrivateKey
  <2>1. CASE result' = Pending
    BY <1>2, <2>1 DEF ReadPrivateKey, Scanning, Call!vars
  <2>2. CASE result' # Pending
    BY <1>2, <2>2, BadKeyAnswers DEF ReadPrivateKey, Scanning, Call!Next, Call!Return
  <2> QED
    BY <2>1, <2>2
<1>3. CASE SkipBlock
  BY <1>3 DEF SkipBlock, Call!vars
<1>4. CASE Assemble
  BY <1>4, AssembleAnswers DEF Assemble, Call!Next, Call!Return
<1>5. CASE UNCHANGED vars
  BY <1>5 DEF vars, Call!vars
<1> QED
  BY <1>1, <1>2, <1>3, <1>4, <1>5 DEF Next

(* Block by block, what parsePEM returns is exactly what the contract      *)
(* ParsePEM says of the whole stream.  (That it returns at all is          *)
(* liveness, which the run pem_stream checks.)                             *)
THEOREM LoopImplementsContract == Spec => ImplementsParseCall
<1>1. Init => Call!Init
  BY DEF Init, Call!Init
<1> QED
  BY <1>1, InvariantHolds, RefinementStep, PTL DEF Spec, Call!Spec, ImplementsParseCall

-----------------------------------------------------------------------------
(* What the answer says of the file.                                       *)

(* Once there is a result, it is ParsePEM's answer for the whole stream.   *)
Answered == result # Pending => result = ParsePEM(data, pass)

LEMMA AnswerStep == IInv /\ Answered /\ [Next]_vars => Answered'
<1> SUFFICES ASSUME IInv, Answered, [Next]_vars
             PROVE  Answered'
  OBVIOUS
<1>1. CASE ReadCertificate
  BY <1>1 DEF ReadCertificate, Answered
<1>2. CASE ReadPrivateKey
  BY <1>2, BadKeyAnswers DEF ReadPrivateKey, Answered
<1>3. CASE SkipBlock
  BY <1>3 DEF SkipBlock, Answered
<1>4. CASE Assemble
  BY <1>4, AssembleAnswers DEF Assemble, Answered
<1>5. CASE UNCHANGED vars
  BY <1>5 DEF vars, Answered
<1> QED
  BY <1>1, <1>2, <1>3, <1>4, <1>5 DEF Next

LEMMA AnswerInvariant == Spec => [](data \in Seq(Block) /\ Answered)
<1>1. Init => Answered
  BY DEF Init, Answered
<1>2. IInv => data \in Seq(Block)
  BY DEF IInv, TypeOK
<1> QED
  BY <1>1, <1>2, InvariantHolds, AnswerStep, PTL DEF Spec

(* Leaf and chain of a parsed bundle are the certificates of the file, in  *)
(* file order but for the leaf, none lost and none repeated: the two       *)
(* slices of the chain (parse.go:206-215) and the leaf cover the list.     *)
THEOREM CertificatesAreConserved == Spec => []CertificatesConserved
<1>1. ASSUME data \in Seq(Block), Answered
      PROVE  CertificatesConserved
  <2> SUFFICES ASSUME Parsed, CertPositions(data) # {}
               PROVE  \E i \in 1..Len(result.bundle.chain) + 1 :
                         InsertAt(result.bundle.chain, i, result.bundle.leaf) = CertsOf(data)
    BY DEF CertificatesConserved, CertsOf
  <2> DEFINE cs == CertsOf(data)
             k == KeyOf(data, pass)
  <2>1. cs \in Seq(Cert) /\ cs # <<>>
    BY <1>1, CertsListing
  <2>2. result = ParsePEM(data, pass) /\ result.err = "none"
    BY <1>1 DEF Answered, Parsed
  <2>3. BadKeyPositions(data, pass) = {}
    BY <1>1, <2>2, ParsePEMCases DEF Fail
  <2>4. result = Ok(ClassifiedBundle(cs, k))
    BY <1>1, <2>1, <2>2, <2>3, ParsePEMCases
  <2>5. result.bundle = ClassifiedBundle(cs, k)
    BY <2>4 DEF Ok
  <2> HIDE DEF cs, k
  <2>6. /\ LeafIndex(cs) \in 1..Len(result.bundle.chain) + 1
        /\ InsertAt(result.bundle.chain, LeafIndex(cs), result.bundle.leaf) = cs
    BY <2>1, <2>5, ClassifiedConserves
  <2> QED
    BY <2>6 DEF cs
<1> QED
  BY <1>1, AnswerInvariant, PTL

(* Blocks of other types and certificates that do not parse are skipped    *)
(* (parse.go's two continue statements): the answer is the one the file    *)
(* without them gets.                                                      *)
THEOREM IgnoredBlocksAreInert == Spec => []IgnoredBlocksInert
<1>1. ASSUME data \in Seq(Block), Answered
      PROVE  IgnoredBlocksInert
  <2> DEFINE used == {b \in Range(data) : IsPrivateKeyBlock(b)
                                             \/ (IsCertificateBlock(b) /\ b.der \in Cert)}
  <2>1. \A i \in DOMAIN data : data[i] \in Range(data)
    BY DEF Range
  <2>2. \A i \in DOMAIN data : data[i] \in used <=>
           IsPrivateKeyBlock(data[i]) \/ (IsCertificateBlock(data[i]) /\ data[i].der \in Cert)
    BY <2>1
  <2> HIDE DEF used
  <2>3. ParsePEM(Filter(data, used), pass) = ParsePEM(data, pass)
    BY <1>1, <2>2, IgnoredBlocks
  <2> QED
    BY <1>1, <2>3 DEF IgnoredBlocksInert, Answered, used
<1> QED
  BY <1>1, AnswerInvariant, PTL

(* What is parsed fits the format DetectFormat announces for the file,     *)
(* although the one matches substrings and the other whole types           *)
(* (format.go's detectPEM, parse.go's parsePEM).                           *)
THEOREM DetectionCoversWhatIsParsed == Spec => []DetectionCoversContent
<1>1. ASSUME data \in Seq(Block), Answered
      PROVE  DetectionCoversContent
  <2> SUFFICES ASSUME Parsed
               PROVE  DetectionCoversContent
    BY DEF DetectionCoversContent
  <2>1. result = ParsePEM(data, pass) /\ ParsePEM(data, pass).err = "none"
    BY <1>1 DEF Answered, Parsed
  <2> QED
    BY <1>1, <2>1, DetectionCovers DEF DetectionCoversContent
<1> QED
  BY <1>1, AnswerInvariant, PTL

(* The error of one key block blames the passphrase only if the block is   *)
(* encrypted, and not under this passphrase in a scheme that is read.      *)
LEMMA BlameIsJust ==
    ASSUME NEW b, NEW p, IsPrivateKeyBlock(b), DecodePrivateKeyBlock(b, p).err = "wrong_passphrase"
    PROVE  EncryptedKey(b) /\ (WellEncrypted(b) => b.der.pass # p)
<1>1. \A der : NormalizeToPKCS8(der).err \in {"none", "unrecognized"}
               /\ (der \in KeyDER => NormalizeToPKCS8(der).err = "none")
  BY DEF NormalizeToPKCS8, Bytes, NoBytes
<1>2. \A der : Bytes(der).err = "none" /\ Bytes(der).der = der
  BY DEF Bytes
<1>3. EncryptedKey(b)
  <2>1. CASE b.type # "ENCRYPTED PRIVATE KEY" /\ ~b.legacy
    BY <1>1, <1>2, <2>1 DEF DecodePrivateKeyBlock
  <2> QED
    BY <2>1 DEF EncryptedKey
<1>4. ASSUME WellEncrypted(b), b.der.pass = p
      PROVE  FALSE
  <2> DEFINE s == IF b.type = "ENCRYPTED PRIVATE KEY" THEN "pbes2" ELSE "rfc1423"
  <2>1. Decrypt(b.der, s, p) = Bytes(b.der.inner)
    BY <1>4 DEF Decrypt, WellEncrypted
  <2>2. DecodePrivateKeyBlock(b, p) = NormalizeToPKCS8(b.der.inner)
    BY <1>2, <1>3, <2>1 DEF DecodePrivateKeyBlock, EncryptedKey
  <2> QED
    BY <1>1, <1>4, <2>2 DEF WellEncrypted
<1> QED
  BY <1>3, <1>4

(* ErrWrongPassphrase is never the answer for a file whose keys this       *)
(* passphrase opens, nor for one without an encrypted key (decryptPKCS8    *)
(* and x509.DecryptPEMBlock, parse.go and pkcs8crypt.go).                  *)
THEOREM BlamedPassphraseIsWrong == Spec => []RightPassphraseNotBlamed
<1>1. ASSUME data \in Seq(Block), Answered
      PROVE  RightPassphraseNotBlamed
  <2> SUFFICES ASSUME result # Pending, result.err = "wrong_passphrase"
               PROVE  \E i \in KeyPositions(data) :
                         EncryptedKey(data[i]) /\ (WellEncrypted(data[i]) => data[i].der.pass # pass)
    BY DEF RightPassphraseNotBlamed
  <2>1. ParsePEM(data, pass).err = "wrong_passphrase"
    BY <1>1 DEF Answered
  <2>2. \A e, b : Fail(e).err = e /\ Ok(b).err = "none"
    BY DEF Fail, Ok
  <2>3. BadKeyPositions(data, pass) # {}
    <3> DEFINE cs == CertsOf(data)
               k == KeyOf(data, pass)
    <3>1. BadKeyPositions(data, pass) = {} =>
             ParsePEM(data, pass) = IF cs # <<>> THEN Ok(ClassifiedBundle(cs, k))
                                    ELSE IF k # Nil THEN Ok(KeyBundle(k))
                                    ELSE Fail("unrecognized")
      BY <1>1, ParsePEMCases
    <3> HIDE DEF cs, k
    <3> QED
      BY <2>1, <2>2, <3>1
  <2>4. PICK i \in KeyPositions(data) :
           ParsePEM(data, pass) = Fail(DecodePrivateKeyBlock(data[i], pass).err)
    BY <1>1, <2>3, ParsePEMCases
  <2>5. DecodePrivateKeyBlock(data[i], pass).err = "wrong_passphrase"
    BY <2>1, <2>2, <2>4
  <2>6. IsPrivateKeyBlock(data[i])
    BY DEF KeyPositions
  <2> QED
    BY <2>5, <2>6, BlameIsJust
<1> QED
  BY <1>1, AnswerInvariant, PTL

=============================================================================
