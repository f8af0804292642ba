----------------------------- MODULE Pkcs8Crypt -----------------------------
(***************************************************************************)
(* pkcs8crypt.go: an encrypted key is written by encryptPKCS8 or by        *)
(* another program and read by decryptPKCS8, one step per function it      *)
(* calls.  The padding is modelled byte by byte.  AES-CBC and PBKDF2 are   *)
(* not: a file says what decryption yields under each passphrase.  Parsers *)
(* knows all this as the operator Decrypt, which this module implements.   *)
(***************************************************************************)
EXTENDS Parsers

CONSTANTS
    BlockSize,  \* aes.BlockSize
    Files,      \* the files a call may be given
    Omitted,    \* a KeyLength left out, as RFC 8018 allows
    Pending     \* the value of result before the call returns

ASSUME BlockSizeAssumption == BlockSize \in 1..255

ASSUME OmittedAssumption == Omitted \notin Nat

Byte == 0..255

AESKeyLength == {16, 24, 32}

(* form is "pbes2" if the structure and its three algorithms are the ones  *)
(* parsePBES2 expects; iv is a length; inner is what plain decodes to, and *)
(* yields the padded bytes the key derived from each passphrase decrypts   *)
(* to, all as long as the ciphertext.  Negative lengths act as 1 does.     *)
File == [form : {"pbes2", "other"}, keyLength : Nat \cup {Omitted}, iv : Nat,
         pass : Pass, plain : Seq(Byte), inner : KeyDER \cup {Noise},
         yields : [Pass -> Seq(Byte)]]

-----------------------------------------------------------------------------
(* Mutant: no padding is added to a whole number of blocks.                *)
PadLenUnlessWhole(data) == (BlockSize - (Len(data) % BlockSize)) % BlockSize

PadLen(data) == BlockSize - (Len(data) % BlockSize)

Pad(data) == data \o [i \in 1..PadLen(data) |-> PadLen(data) % 256]

(* Mutant: only the last byte of the padding is looked at.                 *)
UnpadByLastByte(data) ==
    LET size   == Len(data)
        padLen == data[size]
    IN IF size = 0 \/ size % BlockSize # 0 THEN NoBytes("wrong_passphrase")
       ELSE IF padLen = 0 \/ padLen > BlockSize \/ padLen > size THEN NoBytes("wrong_passphrase")
       ELSE Bytes(SubSeq(data, 1, size - padLen))

(* Its errors reach the caller of decryptPKCS8 as a wrong passphrase.      *)
Unpad(data) ==
    LET size   == Len(data)
        padLen == data[size]
    IN IF size = 0 \/ size % BlockSize # 0 THEN NoBytes("wrong_passphrase")
       ELSE IF \/ padLen = 0 \/ padLen > BlockSize \/ padLen > size
               \/ \E i \in (size - padLen + 1)..size : data[i] # padLen
            THEN NoBytes("wrong_passphrase")
       ELSE Bytes(SubSeq(data, 1, size - padLen))

(* scrambled: what a random salt and iv make of the other passphrases.     *)
EncryptPKCS8(plain, inner, p, scrambled) ==
    [form |-> "pbes2", keyLength |-> 32, iv |-> BlockSize, pass |-> p,
     plain |-> plain, inner |-> inner, yields |-> [scrambled EXCEPT ![p] = Pad(plain)]]

(* Another key than the writer's does not decrypt to the writer's bytes.   *)
ASSUME FilesAssumption ==
    /\ Files \subseteq File
    /\ \A f \in Files, q \in Pass :
          /\ Len(f.yields[q]) = Len(f.yields[f.pass])
          /\ q # f.pass => f.yields[q] # Pad(f.plain)

ASSUME PendingAssumption ==
    Pending \notin [err : Error, der : Seq(Byte) \cup DERBlob \cup {Nil}]

-----------------------------------------------------------------------------
VARIABLES
    file,    \* data
    pass,    \* the passphrase of the call
    pc,      \* what the call does next
    result   \* what it returned, or Pending

vars == <<file, pass, pc, result>>

Init ==
    /\ file \in Files
    /\ pass \in Pass
    /\ pc = "parse"
    /\ result = Pending

Return(r) == result' = r /\ pc' = "returned" /\ UNCHANGED <<file, pass>>

Refuse == Return(NoBytes("wrong_passphrase"))

Continue(next) == pc' = next /\ UNCHANGED <<file, pass, result>>

(* KeyLength has no optional tag: the decoder refuses a file without it.   *)
ParsePBES2 ==
    /\ pc = "parse"
    /\ IF file.form = "pbes2" /\ file.keyLength # Omitted THEN Continue("key") ELSE Refuse

(* Mutant: the default key length is forgotten.                            *)
DeriveKeyAsStated ==
    /\ pc = "key"
    /\ IF file.keyLength \in AESKeyLength THEN Continue("decrypt") ELSE Refuse

(* Mutant: an unusable key length is called an unrecognized format.        *)
DeriveKeyOrDisown ==
    LET keyLen == IF file.keyLength = 0 THEN 32 ELSE file.keyLength
    IN /\ pc = "key"
       /\ IF keyLen \in AESKeyLength
          THEN Continue("decrypt") ELSE Return(NoBytes("unrecognized"))

(* pbkdf2.Key and aes.NewCipher.                                           *)
DeriveKey ==
    LET keyLen == IF file.keyLength = 0 THEN 32 ELSE file.keyLength
    IN /\ pc = "key"
       /\ IF keyLen \in AESKeyLength THEN Continue("decrypt") ELSE Refuse

DecryptBlocks ==
    LET padded == file.yields[pass]
    IN /\ pc = "decrypt"
       /\ IF Len(padded) = 0 \/ Len(padded) % BlockSize # 0 \/ file.iv # BlockSize
          THEN Refuse
          ELSE Return(Unpad(padded))

Next == ParsePBES2 \/ DeriveKey \/ DecryptBlocks

Spec == Init /\ [][Next]_vars

-----------------------------------------------------------------------------
Returned == pc = "returned"

TypeOK ==
    /\ file \in File
    /\ pass \in Pass
    /\ pc \in {"parse", "key", "decrypt", "returned"}
    /\ \/ result \in {Pending, NoBytes("wrong_passphrase")}
       \/ result.err = "none" /\ result.der \in Seq(Byte)
    /\ Returned <=> result # Pending

IsOwn(f) == f = EncryptPKCS8(f.plain, f.inner, f.pass, f.yields)

(* What encryptPKCS8 wrote, decryptPKCS8 returns under the same            *)
(* passphrase, whatever its length is and whatever its last bytes are.     *)
OwnKeysRead == Returned /\ IsOwn(file) /\ pass = file.pass => result = Bytes(file.plain)

(* Only bytes that pkcs7Pad could have written are accepted: what is       *)
(* returned, padded again, is what was decrypted, so no two paddings of    *)
(* the same bytes are both valid and nothing is cut off a key.             *)
NoForgedPadding == Returned /\ result.err = "none" => Pad(result.der) = file.yields[pass]

UsableKeyLength == {0} \cup AESKeyLength

Opens(f) == f.form = "pbes2" /\ f.keyLength \in UsableKeyLength /\ f.iv = BlockSize

Readable(f) == Opens(f) /\ f.yields[f.pass] = Pad(f.plain)

(* The ciphertext the parsers' model takes a file for.                     *)
AsCipher(f) ==
    [scheme |-> IF Readable(f) THEN "pbes2" ELSE "foreign",
     pass   |-> f.pass,
     inner  |-> f.inner,
     flukes |-> {q \in Pass : /\ Opens(f)
                              /\ Unpad(f.yields[q]).err = "none"
                              /\ Readable(f) => q # f.pass}]

DecryptAnswer(f, p) == Decrypt(AsCipher(f), "pbes2", p)

AsDER ==
    IF result = Pending \/ result.err # "none" THEN result
    ELSE Bytes(IF result.der = file.plain THEN file.inner ELSE Noise)

(* Step by step, decryptPKCS8 returns what Decrypt says and nothing after  *)
(* it, the operator parsePEM is modelled with: the key for the right       *)
(* passphrase, noise if the padding is valid by chance, else an error.     *)
Call == INSTANCE ParseCall WITH data <- file, Answer <- DecryptAnswer, result <- AsDER

ImplementsParseCall == Call!Spec

(* pkcs8crypt.go:26-27 announces PBES2 (RFC 8018) with PBKDF2-HMAC-SHA256  *)
(* and AES-256-CBC, errors.go:34 blames a passphrase that fails to         *)
(* decrypt: a file of that scheme is read also without its optional        *)
(* KeyLength, for which decryptPKCS8 has a default.                        *)
KeyLengthOptional ==
    /\ Returned
    /\ file.form = "pbes2" /\ file.keyLength \in {Omitted, 32} /\ file.iv = BlockSize
    /\ file.yields[file.pass] = Pad(file.plain)
    /\ pass = file.pass
    => result = Bytes(file.plain)

=============================================================================
