-------------------------- MODULE Pkcs8CryptProofs --------------------------
(***************************************************************************)
(* Proofs about Pkcs8Crypt: unpadding inverts padding and accepts nothing  *)
(* else, for every block size a byte can count and data of every length,   *)
(* and decryptPKCS8 implements the operator Decrypt of Parsers.            *)
(***************************************************************************)
EXTENDS Pkcs8Crypt, TLAPS

-----------------------------------------------------------------------------
(* Arithmetic of the block boundary.                                       *)

(* Padding fills the last block.                                           *)
LEMMA PaddedIsWhole ==
    ASSUME NEW n \in Nat, NEW b \in Nat \ {0}
    PROVE  b - (n % b) \in 1..b /\ (n + (b - (n % b))) % b = 0
<1>1. n % b \in 0..(b - 1)
  OBVIOUS
<1>2. (n + (b - (n % b))) % b = 0
  OBVIOUS
<1> QED
  BY <1>1, <1>2

(* A number between a multiple of b and the next has the rest it seems to. *)
LEMMA RestIs ==
    ASSUME NEW b \in Nat \ {0}, NEW q \in Int, NEW r \in 0..(b - 1)
    PROVE  (b * q + r) % b = r
OBVIOUS

(* A number whose rest is zero is a multiple.                              *)
LEMMA WholeIsMultiple ==
    ASSUME NEW n \in Nat, NEW b \in Nat \ {0}, n % b = 0
    PROVE  \E q \in Nat : n = b * q
OBVIOUS

(* Only one padding of at most a block fills it.                           *)
LEMMA PadLenUnique ==
    ASSUME NEW m \in Nat, NEW b \in Nat \ {0}, NEW k \in 1..b, (m + k) % b = 0
    PROVE  b - (m % b) = k
<1>1. PICK q \in Nat : m + k = b * q
  BY WholeIsMultiple
<1>2. b * (q - 1) = b * q - b
  OBVIOUS
<1>3. m = b * (q - 1) + (b - k)
  BY <1>1, <1>2
<1>4. b - k \in 0..(b - 1) /\ q - 1 \in Int
  OBVIOUS
<1>5. m % b = b - k
  BY <1>3, <1>4, RestIs
<1> QED
  BY <1>5

(* The fields of what the decoders return.                                 *)
LEMMA BytesFields ==
    ASSUME NEW d
    PROVE  Bytes(d).err = "none" /\ Bytes(d).der = d
BY DEF Bytes

(* What padding adds, byte by byte.                                        *)
LEMMA PadShape ==
    ASSUME NEW data \in Seq(Byte)
    PROVE  /\ PadLen(data) \in 1..BlockSize
           /\ Pad(data) \in Seq(Byte)
           /\ Len(Pad(data)) = Len(data) + PadLen(data)
           /\ Len(Pad(data)) % BlockSize = 0
           /\ \A i \in 1..Len(data) : Pad(data)[i] = data[i]
           /\ \A i \in (Len(data) + 1)..(Len(data) + PadLen(data)) : Pad(data)[i] = PadLen(data)
<1> DEFINE k == PadLen(data)
           tail == [i \in 1..k |-> k % 256]
<1>1. BlockSize \in Nat \ {0} /\ BlockSize <= 255 /\ Len(data) \in Nat
  BY BlockSizeAssumption
<1>2. k \in 1..BlockSize /\ (Len(data) + k) % BlockSize = 0
  BY <1>1, PaddedIsWhole DEF PadLen
<1> HIDE DEF k
<1>3a. k \in Nat /\ k <= 255
  BY <1>1, <1>2
<1>3b. k % 256 = k
  BY <1>3a
<1>3. k % 256 = k /\ k \in Byte /\ k \in Nat
  BY <1>3a, <1>3b DEF Byte
<1>4. tail \in Seq(Byte) /\ Len(tail) = k /\ \A i \in 1..k : tail[i] = k
  BY <1>3
<1> HIDE DEF tail
<1>5. Pad(data) = data \o tail
  BY DEF Pad, tail, k
<1>6. /\ data \o tail \in Seq(Byte)
      /\ Len(data \o tail) = Len(data) + k
      /\ \A i \in 1..Len(data) : (data \o tail)[i] = data[i]
  BY <1>1, <1>3, <1>4
<1>7. \A i \in (Len(data) + 1)..(Len(data) + k) : (data \o tail)[i] = k
  <2> TAKE i \in (Len(data) + 1)..(Len(data) + k)
  <2>1. i - Len(data) \in 1..k
    BY <1>1, <1>3
  <2>2. (data \o tail)[i] = tail[i - Len(data)]
    BY <1>1, <1>3, <1>4
  <2> QED
    BY <2>1, <2>2, <1>4
<1> QED
  BY <1>2, <1>5, <1>6, <1>7 DEF k

-----------------------------------------------------------------------------
(* Padding.                                                                *)

(* Whatever the length of a key, a whole number of blocks included,        *)
(* pkcs7Unpad returns what pkcs7Pad was given (pkcs8crypt.go:209-233).     *)
THEOREM UnpadUndoesPad ==
    ASSUME NEW data \in Seq(Byte)
    PROVE  Unpad(Pad(data)) = Bytes(data)
<1> DEFINE k == PadLen(data)
           padded == Pad(data)
           size == Len(padded)
<1>1. /\ k \in 1..BlockSize
      /\ padded \in Seq(Byte)
      /\ size = Len(data) + k
      /\ size % BlockSize = 0
      /\ \A i \in 1..Len(data) : padded[i] = data[i]
      /\ \A i \in (Len(data) + 1)..(Len(data) + k) : padded[i] = k
  BY PadShape
<1>2. BlockSize \in Nat \ {0} /\ Len(data) \in Nat
  BY BlockSizeAssumption
<1> HIDE DEF k, padded
<1>3. size \in Nat /\ size # 0 /\ size - k = Len(data) /\ k <= size /\ k # 0 /\ k <= BlockSize
  BY <1>1, <1>2
<1>4. padded[size] = k
  BY <1>1, <1>2, <1>3
<1>5. ~ \E i \in (size - k + 1)..size : padded[i] # k
  BY <1>1, <1>2, <1>3
<1>6. SubSeq(padded, 1, size - k) = data
  <2>1. SubSeq(padded, 1, Len(data)) \in Seq(Byte) /\ Len(SubSeq(padded, 1, Len(data))) = Len(data)
    BY <1>1, <1>2, <1>3
  <2>2. \A i \in 1..Len(data) : SubSeq(padded, 1, Len(data))[i] = data[i]
    BY <1>1, <1>2, <1>3
  <2> QED
    BY <2>1, <2>2, <1>3
<1>7. Unpad(padded) = Bytes(SubSeq(padded, 1, size - k))
  <2>1. ~(size = 0 \/ size % BlockSize # 0)
    BY <1>1, <1>3
  <2>2. ~(\/ padded[size] = 0 \/ padded[size] > BlockSize \/ padded[size] > size
          \/ \E i \in (size - padded[size] + 1)..size : padded[i] # padded[size])
    BY <1>1, <1>2, <1>3, <1>4, <1>5
  <2>3. Unpad(padded) = Bytes(SubSeq(padded, 1, size - padded[size]))
    BY <2>1, <2>2, Zenon DEF Unpad
  <2> QED
    BY <2>3, <1>4
<1> QED
  BY <1>6, <1>7 DEF padded

(* Bytes pkcs7Unpad accepts are the padding of what it returns: it accepts *)
(* one padding of each key, and cuts nothing else off.                     *)
THEOREM UnpadAcceptsOnlyPadding ==
    ASSUME NEW data \in Seq(Byte), Unpad(data).err = "none"
    PROVE  /\ Unpad(data).der \in Seq(Byte)
           /\ Unpad(data) = Bytes(Unpad(data).der)
           /\ Pad(Unpad(data).der) = data
<1> DEFINE size == Len(data)
           k == data[size]
           cut == SubSeq(data, 1, size - k)
<1>1. BlockSize \in Nat \ {0} /\ size \in Nat
  BY BlockSizeAssumption
<1>2. NoBytes("wrong_passphrase").err # "none"
  BY DEF NoBytes
<1>3. /\ size # 0
      /\ size % BlockSize = 0
      /\ ~(k = 0 \/ k > BlockSize \/ k > size)
      /\ \A i \in (size - k + 1)..size : data[i] = k
      /\ Unpad(data) = Bytes(cut)
  BY <1>2, Zenon DEF Unpad
<1>4. k \in Byte /\ k \in Nat
  <2>1. size \in 1..Len(data)
    BY <1>1, <1>3
  <2>2. data[size] \in Byte
    BY <2>1
  <2>3. Byte \subseteq Nat
    BY DEF Byte
  <2> QED
    BY <2>2, <2>3
<1>5. k \in 1..BlockSize /\ k <= size
  BY <1>1, <1>3, <1>4
<1>6. cut \in Seq(Byte) /\ Len(cut) = size - k /\ \A i \in 1..(size - k) : cut[i] = data[i]
  BY <1>1, <1>4, <1>5
<1>7. Unpad(data).der = cut
  <2>1. Unpad(data) = Bytes(cut)
    BY <1>3
  <2> QED
    BY <2>1, BytesFields, Zenon
<1> HIDE DEF k, cut, size
<1>8. (Len(cut) + k) % BlockSize = 0 /\ Len(cut) \in Nat
  BY <1>1, <1>3, <1>4, <1>5, <1>6
<1>9. PadLen(cut) = k
  BY <1>1, <1>5, <1>8, PadLenUnique DEF PadLen
<1>10. /\ Pad(cut) \in Seq(Byte)
       /\ Len(Pad(cut)) = size
       /\ \A i \in 1..(size - k) : Pad(cut)[i] = cut[i]
       /\ \A i \in (size - k + 1)..size : Pad(cut)[i] = k
  <2>1. /\ Pad(cut) \in Seq(Byte)
        /\ Len(Pad(cut)) = Len(cut) + k
        /\ \A i \in 1..Len(cut) : Pad(cut)[i] = cut[i]
        /\ \A i \in (Len(cut) + 1)..(Len(cut) + k) : Pad(cut)[i] = k
    BY <1>6, <1>9, PadShape
  <2>2. Len(cut) + k = size
    BY <1>1, <1>4, <1>6
  <2> QED
    BY <2>1, <2>2, <1>6
<1>11. \A i \in 1..size : Pad(cut)[i] = data[i]
  BY <1>1, <1>3, <1>4, <1>5, <1>6, <1>10
<1>12. Pad(cut) = data
  BY <1>10, <1>11 DEF size
<1> QED
  BY <1>3, <1>6, <1>7, <1>12

-----------------------------------------------------------------------------
(* decryptPKCS8.                                                           *)

(* What decryptPKCS8 returns, its guards taken together.                   *)
Outcome(f, p) == IF Opens(f) THEN Unpad(f.yields[p]) ELSE NoBytes("wrong_passphrase")

(* Unpad returns bytes or blames the passphrase, nothing else.             *)
LEMMA UnpadCases ==
    ASSUME NEW data
    PROVE  /\ NoBytes("wrong_passphrase").err = "wrong_passphrase"
           /\ Unpad(data).err # "none" => Unpad(data) = NoBytes("wrong_passphrase")
           /\ Len(data) = 0 \/ Len(data) % BlockSize # 0 =>
                  Unpad(data) = NoBytes("wrong_passphrase")
<1>1. NoBytes("wrong_passphrase").err = "wrong_passphrase"
  BY DEF NoBytes
<1>2. \/ Unpad(data) = NoBytes("wrong_passphrase")
      \/ \E d : Unpad(data) = Bytes(d)
  BY Zenon DEF Unpad
<1>3. Len(data) = 0 \/ Len(data) % BlockSize # 0 => Unpad(data) = NoBytes("wrong_passphrase")
  BY Zenon DEF Unpad
<1>4. Unpad(data).err # "none" => Unpad(data) = NoBytes("wrong_passphrase")
  BY <1>2, BytesFields, Zenon
<1> QED
  BY <1>1, <1>3, <1>4

(* The outcome is bytes or a wrong passphrase, and never Pending.          *)
LEMMA OutcomeType ==
    ASSUME NEW f \in Files, NEW p \in Pass
    PROVE  /\ \/ Outcome(f, p) = NoBytes("wrong_passphrase")
              \/ /\ Opens(f)
                 /\ Outcome(f, p) = Unpad(f.yields[p])
                 /\ Outcome(f, p) = Bytes(Outcome(f, p).der)
                 /\ Outcome(f, p).err = "none"
                 /\ Outcome(f, p).der \in Seq(Byte)
                 /\ Pad(Outcome(f, p).der) = f.yields[p]
           /\ Outcome(f, p) # Pending
<1>1. f.yields[p] \in Seq(Byte)
  BY FilesAssumption DEF File
<1>2. \A d \in Seq(Byte) : Bytes(d) # Pending
  BY PendingAssumption DEF Bytes, Error
<1>3. NoBytes("wrong_passphrase") # Pending
  BY PendingAssumption DEF NoBytes, Error
<1>4. CASE Opens(f) /\ Unpad(f.yields[p]).err = "none"
  <2>1. Outcome(f, p) = Unpad(f.yields[p])
    BY <1>4 DEF Outcome
  <2> QED
    BY <1>1, <1>2, <1>4, <2>1, UnpadAcceptsOnlyPadding
<1>5. CASE ~(Opens(f) /\ Unpad(f.yields[p]).err = "none")
  <2>1. Outcome(f, p) = NoBytes("wrong_passphrase")
    BY <1>5, UnpadCases DEF Outcome
  <2> QED
    BY <1>3, <2>1
<1> QED
  BY <1>4, <1>5

(* AsDER of a result, as a function of the file and the result.            *)
DERResult(f, r) ==
    IF r = Pending \/ r.err # "none" THEN r
    ELSE Bytes(IF r.der = f.plain THEN f.inner ELSE Noise)

(* The ciphertext a file stands for is one of the parsers' model.          *)
LEMMA CipherType ==
    ASSUME NEW f \in Files
    PROVE  /\ AsCipher(f) \in Cipher
           /\ AsCipher(f).pass = f.pass
           /\ AsCipher(f).inner = f.inner
           /\ AsCipher(f).scheme = "pbes2" <=> Readable(f)
           /\ \A q \in Pass : q \in AsCipher(f).flukes <=>
                  /\ Opens(f)
                  /\ Unpad(f.yields[q]).err = "none"
                  /\ Readable(f) => q # f.pass
<1>1. f \in File
  BY FilesAssumption
<1> QED
  BY <1>1 DEF File, AsCipher, Cipher

(* What decryptPKCS8 returns is what Decrypt says of the ciphertext.       *)
LEMMA OutcomeIsDecrypt ==
    ASSUME NEW f \in Files, NEW p \in Pass
    PROVE  DERResult(f, Outcome(f, p)) = DecryptAnswer(f, p)
<1> DEFINE c == AsCipher(f)
<1>1. f.plain \in Seq(Byte)
  BY FilesAssumption DEF File
<1>2. c \in Cipher
  BY CipherType
<1>3. CASE Readable(f) /\ p = f.pass
  <2>1. Outcome(f, p) = Bytes(f.plain)
    BY <1>1, <1>3, UnpadUndoesPad DEF Outcome, Readable
  <2>2. DERResult(f, Outcome(f, p)) = Bytes(f.inner)
    BY <2>1, BytesFields, OutcomeType DEF DERResult
  <2>3. Decrypt(c, "pbes2", p) = Bytes(f.inner)
    BY <1>2, <1>3, CipherType DEF Decrypt
  <2> QED
    BY <2>2, <2>3 DEF DecryptAnswer
<1>4. CASE ~(Readable(f) /\ p = f.pass)
  <2>1. ~(c.scheme = "pbes2" /\ p = c.pass)
    BY <1>4, CipherType
  <2>2. CASE Opens(f) /\ Unpad(f.yields[p]).err = "none"
    <3>1. p \in c.flukes
      BY <1>4, <2>2, CipherType
    <3>2. Decrypt(c, "pbes2", p) = Bytes(Noise)
      BY <1>2, <2>1, <3>1 DEF Decrypt
    <3>3. Outcome(f, p) = Unpad(f.yields[p])
      BY <2>2 DEF Outcome
    <3>4. Outcome(f, p).err = "none" /\ Pad(Outcome(f, p).der) = f.yields[p]
      BY <2>2, <3>3, FilesAssumption, UnpadAcceptsOnlyPadding DEF File
    <3>5. Outcome(f, p).der # f.plain
      BY <1>4, <2>2, <3>4, FilesAssumption DEF Readable
    <3>6. DERResult(f, Outcome(f, p)) = Bytes(Noise)
      BY <3>4, <3>5, OutcomeType DEF DERResult
    <3> QED
      BY <3>2, <3>6 DEF DecryptAnswer
  <2>3. CASE ~(Opens(f) /\ Unpad(f.yields[p]).err = "none")
    <3>1. p \notin c.flukes
      BY <2>3, CipherType
    <3>2. Decrypt(c, "pbes2", p) = NoBytes("wrong_passphrase")
      BY <1>2, <2>1, <3>1 DEF Decrypt
    <3>3. Outcome(f, p) = NoBytes("wrong_passphrase")
      BY <2>3, UnpadCases DEF Outcome
    <3>4. DERResult(f, Outcome(f, p)) = NoBytes("wrong_passphrase")
      BY <3>3, UnpadCases DEF DERResult
    <3> QED
      BY <3>2, <3>4 DEF DecryptAnswer
  <2> QED
    BY <2>2, <2>3
<1> QED
  BY <1>3, <1>4

-----------------------------------------------------------------------------
(* The inductive invariant: pc tells which guards the file has passed, and *)
(* what is returned is the outcome.                                        *)
CallInv ==
    /\ file \in Files
    /\ pass \in Pass
    /\ pc \in {"parse", "key", "decrypt", "returned"}
    /\ pc \in {"key", "decrypt"} => file.form = "pbes2" /\ file.keyLength # Omitted
    /\ pc = "decrypt" => file.keyLength \in UsableKeyLength
    /\ pc # "returned" => result = Pending
    /\ pc = "returned" => result = Outcome(file, pass)

LEMMA InitCall == Init => CallInv
  BY DEF Init, CallInv

(* A step goes on to the next guard or returns the outcome.                *)
LEMMA StepCall ==
    ASSUME CallInv, Next
    PROVE  /\ CallInv'
           /\ UNCHANGED <<file, pass>>
           /\ result' = result \/ (result = Pending /\ result' = Outcome(file, pass))
<1> USE DEF CallInv, Refuse, Return, Continue
<1>1. CASE ParsePBES2
  <2>1. pc = "parse" /\ result = Pending /\ UNCHANGED <<file, pass>>
    BY <1>1 DEF ParsePBES2
  <2>2. CASE file.form = "pbes2" /\ file.keyLength # Omitted
    <3>1. pc' = "key" /\ result' = result
      BY <1>1, <2>2 DEF ParsePBES2
    <3> QED
      BY <2>1, <2>2, <3>1
  <2>3. CASE ~(file.form = "pbes2" /\ file.keyLength # Omitted)
    <3>1. pc' = "returned" /\ result' = NoBytes("wrong_passphrase")
      BY <1>1, <2>3 DEF ParsePBES2
    <3>2. ~Opens(file)
      BY <2>3, OmittedAssumption DEF Opens, UsableKeyLength, AESKeyLength
    <3> QED
      BY <2>1, <3>1, <3>2 DEF Outcome
  <2> QED
    BY <2>2, <2>3
<1>2. CASE DeriveKey
  <2>1. pc = "key" /\ result = Pending /\ UNCHANGED <<file, pass>>
    BY <1>2 DEF DeriveKey
  <2>2. (IF file.keyLength = 0 THEN 32 ELSE file.keyLength) \in AESKeyLength
            <=> file.keyLength \in UsableKeyLength
    BY DEF UsableKeyLength, AESKeyLength
  <2>3. CASE file.keyLength \in UsableKeyLength
    <3>1. pc' = "decrypt" /\ result' = result
      BY <1>2, <2>2, <2>3 DEF DeriveKey
    <3> QED
      BY <2>1, <2>3, <3>1
  <2>4. CASE file.keyLength \notin UsableKeyLength
    <3>1. pc' = "returned" /\ result' = NoBytes("wrong_passphrase")
      BY <1>2, <2>2, <2>4 DEF DeriveKey
    <3>2. ~Opens(file)
      BY <2>4 DEF Opens
    <3> QED
      BY <2>1, <3>1, <3>2 DEF Outcome
  <2> QED
    BY <2>3, <2>4
<1>3. CASE DecryptBlocks
  <2> DEFINE padded == file.yields[pass]
  <2>1. pc = "decrypt" /\ result = Pending /\ UNCHANGED <<file, pass>> /\ pc' = "returned"
    BY <1>3 DEF DecryptBlocks
  <2>2. CASE file.iv # BlockSize
    <3>1. result' = NoBytes("wrong_passphrase")
      BY <1>3, <2>2 DEF DecryptBlocks
    <3> QED
      BY <2>1, <2>2, <3>1 DEF Outcome, Opens
  <2>3. CASE file.iv = BlockSize
    <3>1. Outcome(file, pass) = Unpad(padded)
      BY <2>1, <2>3 DEF Outcome, Opens
    <3>2. CASE Len(padded) = 0 \/ Len(padded) % BlockSize # 0
      <4>1. result' = NoBytes("wrong_passphrase")
        BY <1>3, <3>2 DEF DecryptBlocks
      <4> QED
        BY <2>1, <3>1, <3>2, <4>1, UnpadCases
    <3>3. CASE ~(Len(padded) = 0 \/ Len(padded) % BlockSize # 0)
      <4>1. result' = Unpad(padded)
        BY <1>3, <2>3, <3>3 DEF DecryptBlocks
      <4> QED
        BY <2>1, <3>1, <4>1
    <3> QED
      BY <3>2, <3>3
  <2> QED
    BY <2>2, <2>3
<1> QED
  BY <1>1, <1>2, <1>3 DEF Next

LEMMA CallInvariant == Spec => []CallInv
<1>1. ASSUME CallInv, [Next]_vars PROVE CallInv'
  <2>1. CASE Next
    BY <1>1, <2>1, StepCall
  <2>2. CASE UNCHANGED vars
    BY <1>1, <2>2 DEF vars, CallInv
  <2> QED
    BY <1>1, <2>1, <2>2
<1> QED
  BY InitCall, <1>1, PTL DEF Spec

(* decryptPKCS8 returns bytes or ErrWrongPassphrase, nothing else          *)
(* (pkcs8crypt.go:135-139).                                                *)
THEOREM TypeCorrect == Spec => []TypeOK
<1>1. CallInv => TypeOK
  <2> SUFFICES ASSUME CallInv PROVE TypeOK
    OBVIOUS
  <2>1. file \in File /\ pass \in Pass /\ pc \in {"parse", "key", "decrypt", "returned"}
    BY FilesAssumption DEF CallInv
  <2>2. \/ result \in {Pending, NoBytes("wrong_passphrase")}
        \/ result.err = "none" /\ result.der \in Seq(Byte)
    BY OutcomeType DEF CallInv
  <2>3. Returned <=> result # Pending
    BY OutcomeType DEF CallInv, Returned
  <2> QED
    BY <2>1, <2>2, <2>3 DEF TypeOK
<1> QED
  BY CallInvariant, <1>1, PTL

(* What encryptPKCS8 wrote is read under its passphrase, for keys of every *)
(* length (pkcs8crypt.go:70-73, :135).                                     *)
THEOREM OwnKeysAreRead == Spec => []OwnKeysRead
<1>1. CallInv => OwnKeysRead
  <2> SUFFICES ASSUME CallInv, Returned, IsOwn(file), pass = file.pass
               PROVE  result = Bytes(file.plain)
    BY DEF OwnKeysRead
  <2>1. file \in File
    BY FilesAssumption DEF CallInv
  <2>2. file.plain \in Seq(Byte) /\ file.yields \in [Pass -> Seq(Byte)] /\ file.pass \in Pass
    BY <2>1 DEF File
  <2>3. file = EncryptPKCS8(file.plain, file.inner, file.pass, file.yields)
    BY DEF IsOwn
  <2>4. /\ file.form = "pbes2"
        /\ file.keyLength = 32
        /\ file.iv = BlockSize
        /\ file.yields = [file.yields EXCEPT ![file.pass] = Pad(file.plain)]
    BY <2>3 DEF EncryptPKCS8
  <2>5. Opens(file)
    BY <2>4 DEF Opens, UsableKeyLength, AESKeyLength
  <2>6. file.yields[file.pass] = Pad(file.plain)
    BY <2>2, <2>4
  <2>7. result = Unpad(Pad(file.plain))
    BY <2>5, <2>6 DEF CallInv, Returned, Outcome
  <2> QED
    BY <2>2, <2>7, UnpadUndoesPad
<1> QED
  BY CallInvariant, <1>1, PTL

(* What is returned, padded, is what was decrypted (pkcs8crypt.go:219-233).*)
THEOREM NoPaddingForged == Spec => []NoForgedPadding
<1>1. CallInv => NoForgedPadding
  <2> SUFFICES ASSUME CallInv, Returned, result.err = "none"
               PROVE  Pad(result.der) = file.yields[pass]
    BY DEF NoForgedPadding
  <2>1. result = Outcome(file, pass) /\ file \in Files /\ pass \in Pass
    BY DEF CallInv, Returned
  <2> QED
    BY <2>1, OutcomeType, UnpadCases
<1> QED
  BY CallInvariant, <1>1, PTL

(* decryptPKCS8 returns once, and returns what the parsers' model says of  *)
(* its ciphertext (pkcs8crypt.go:140-172).                                 *)
THEOREM DecryptImplementsContract == Spec => ImplementsParseCall
<1>1. Init => Call!Init
  BY DEF Init, Call!Init, AsDER
<1>2. ASSUME CallInv, [Next]_vars PROVE [Call!Next]_(Call!vars)
  <2>1. CASE Next /\ result' = result
    <3>1. UNCHANGED <<file, pass, result>>
      BY <1>2, <2>1, StepCall
    <3> QED
      BY <3>1 DEF Call!vars, AsDER
  <2>2. CASE Next /\ result' # result
    <3>1. result = Pending /\ result' = Outcome(file, pass) /\ UNCHANGED <<file, pass>>
      BY <1>2, <2>2, StepCall
    <3>2. AsDER = Pending
      BY <3>1 DEF AsDER
    <3>3. AsDER' = DERResult(file, Outcome(file, pass))
      BY <3>1 DEF AsDER, DERResult
    <3>4. AsDER' = DecryptAnswer(file, pass)
      BY <1>2, <3>3, OutcomeIsDecrypt DEF CallInv
    <3> QED
      BY <3>1, <3>2, <3>4 DEF Call!Next, Call!Return
  <2>3. CASE UNCHANGED vars
    BY <2>3 DEF vars, Call!vars, AsDER
  <2> QED
    BY <1>2, <2>1, <2>2, <2>3
<1> QED
  BY CallInvariant, <1>1, <1>2, PTL DEF Spec, ImplementsParseCall, Call!Spec

=============================================================================
