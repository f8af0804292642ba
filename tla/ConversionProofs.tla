-------------------------- MODULE ConversionProofs --------------------------
(***************************************************************************)
(* Proofs about Conversion, for every set of foreign files: what Export    *)
(* writes for a bundle, what the parsers make of it, and what a chain of   *)
(* conversions therefore keeps.                                            *)
(***************************************************************************)
EXTENDS Conversion, ParsersProofs

-----------------------------------------------------------------------------
(* What Export writes.                                                     *)

(* A bundle the parsers give: its key is normalized, and it has no chain   *)
(* without a leaf.                                                         *)
IsSource(b) ==
    /\ b \in Bundle
    /\ b.key \in NormalKey \cup {Nil}
    /\ b.leaf = Nil => b.chain = <<>>

LEMMA AnswerIsSource == \A r : IsAnswer(r) => IsSource(r.bundle)
BY DEF IsAnswer, IsSource, Result

Writes(b, f, p, flukes, d) ==
    /\ IsSource(b)
    /\ f \in Format
    /\ p \in Pass
    /\ flukes \in SUBSET (Pass \ {p})
    /\ Export(b, f, p, flukes) = Written(d)

LEMMA WrittenOnce ==
    /\ \A x, d : Written(x) = Written(d) => x = d
    /\ \A e, d : e # "none" => NotWritten(e) # Written(d)
<1>1. ASSUME NEW x, NEW d, Written(x) = Written(d)
      PROVE  x = d
  <2>1. Written(x).data = x /\ Written(d).data = d
    BY DEF Written
  <2> QED
    BY <1>1, <2>1
<1>2. ASSUME NEW e, NEW d, e # "none"
      PROVE  NotWritten(e) # Written(d)
  <2>1. NotWritten(e).err = e /\ Written(d).err = "none"
    BY DEF Written, NotWritten
  <2> QED
    BY <1>2, <2>1
<1> QED
  BY <1>1, <1>2

(* The file of each format, for a key block kb.                            *)
FileOf(b, f, p, kb) ==
    CASE f = "pem"           -> PEMData(LeafBlocks(b) \o <<kb>> \o ChainBlocks(b))
      [] f = "pem-key"       -> PEMData(<<kb>>)
      [] f = "pem-cert"      -> PEMData(LeafBlocks(b))
      [] f = "pem-fullchain" -> PEMData(LeafBlocks(b) \o ChainBlocks(b))
      [] f = "der"           -> DERData(b.leaf)
      [] f = "pkcs7"         -> PKCS7Data(WrittenCerts(b))
      [] f = "pkcs12"        -> PKCS12Data(p, b.key.key, WrittenCerts(b), TRUE)
      [] f = "jks"           -> JKSData(p, [a \in {"certkit"} |-> KeyEntry(p, b.key, WrittenCerts(b))])

LEMMA ExportCases ==
    ASSUME NEW b, NEW f, NEW p, NEW flukes, NEW d, Writes(b, f, p, flukes, d)
    PROVE  /\ d = FileOf(b, f, p, EncodeKeyPEM(b.key, p, flukes))
           /\ f \in KeyBearing => b.key \in NormalKey
           /\ f \in {"der", "pkcs7", "pkcs12", "jks"} => b.leaf \in Cert
<1> USE DEF Writes
<1>1. b.key \in NormalKey \cup {Nil}
  BY DEF IsSource
<1>2. CASE f = "pem"
  BY <1>1, <1>2, WrittenOnce DEF Export, ExportPEMBundle, KeyBearing, FileOf
<1>3. CASE f = "pem-key"
  BY <1>1, <1>3, WrittenOnce DEF Export, ExportPEMKeyOnly, KeyBearing, FileOf
<1>4. CASE f = "pem-cert"
  BY <1>4, WrittenOnce DEF Export, KeyBearing, FileOf
<1>5. CASE f = "pem-fullchain"
  BY <1>5, WrittenOnce DEF Export, KeyBearing, FileOf
<1>6. CASE f = "der"
  BY <1>6, WrittenOnce DEF Export, ExportDER, LeafError, KeyBearing, FileOf
<1>7. CASE f = "pkcs7"
  BY <1>7, WrittenOnce DEF Export, ExportPKCS7, LeafError, KeyBearing, WrittenCerts, FileOf
<1>8. LeafAndKeyError(b) = "none" => b.leaf \in Cert /\ b.key \in NormalKey
  BY <1>1 DEF LeafAndKeyError, LeafError, KeyError, NormalKey
<1>9. CASE f = "pkcs12"
  <2>1. ExportPKCS12(b, p) = Written(d)
    BY <1>9 DEF Export
  <2>2. LeafAndKeyError(b) = "none"
    BY <2>1, WrittenOnce DEF ExportPKCS12
  <2>3. Written(PKCS12Data(p, b.key.key, WrittenCerts(b), TRUE)) = Written(d)
    BY <2>1, <2>2 DEF ExportPKCS12, WrittenCerts
  <2> QED
    BY <1>8, <1>9, <2>2, <2>3, WrittenOnce DEF KeyBearing, FileOf
<1>10. CASE f = "jks"
  <2>1. ExportJKS(b, p) = Written(d)
    BY <1>10 DEF Export
  <2>2. LeafAndKeyError(b) = "none"
    BY <2>1, WrittenOnce DEF ExportJKS
  <2>3. Written(JKSData(p, [a \in {"certkit"} |-> KeyEntry(p, b.key, WrittenCerts(b))])) = Written(d)
    BY <2>1, <2>2 DEF ExportJKS, WrittenCerts
  <2> QED
    BY <1>8, <1>10, <2>2, <2>3, WrittenOnce DEF KeyBearing, FileOf
<1> QED
  BY <1>2, <1>3, <1>4, <1>5, <1>6, <1>7, <1>9, <1>10 DEF Format

(* What is written of a chain.                                             *)
LEMMA ChainType ==
    ASSUME NEW b, IsSource(b)
    PROVE  /\ b.leaf \in Cert \cup {Nil} /\ b.chain \in Seq(Cert \cup {Noise})
           /\ ParsedChain(b) \in Seq(Cert)
           /\ b.leaf \in Cert => WrittenCerts(b) \in Seq(Cert) /\ Joined(WrittenCerts(b), <<b.leaf>>, ParsedChain(b))
<1>1. b.leaf \in Cert \cup {Nil} /\ b.chain \in Seq(Cert \cup {Noise})
  BY DEF IsSource, Bundle
<1>2. ParsedChain(b) \in Seq((Cert \cup {Noise}) \cap Cert)
  BY <1>1, FilterLists DEF ParsedChain
<1>3. (Cert \cup {Noise}) \cap Cert = Cert
  OBVIOUS
<1>4. ParsedChain(b) \in Seq(Cert)
  BY <1>2, <1>3
<1>5. ASSUME b.leaf \in Cert
      PROVE  WrittenCerts(b) \in Seq(Cert) /\ Joined(WrittenCerts(b), <<b.leaf>>, ParsedChain(b))
  <2>1. <<b.leaf>> \in Seq(Cert)
    BY <1>5
  <2> QED
    BY <1>4, <2>1, ConcatJoins DEF WrittenCerts
<1> QED
  BY <1>1, <1>4, <1>5

LEMMA PEMBlock ==
    ASSUME NEW type \in CertBlockType \cup KeyBlockType, NEW der \in DERBlob
    PROVE  LET b == PEM(type, der)
           IN b \in Block /\ b.type = type /\ ~b.legacy /\ b.der = der
<1>1. PEM(type, der) \in Block
  BY DEF PEM, Block
<1>2. PEM(type, der).type = type /\ PEM(type, der).der = der
  BY DEF PEM
<1>3. ~PEM(type, der).legacy
  BY DEF PEM
<1> QED
  BY <1>1, <1>2, <1>3

(* The key block that is written, and who can open it.                     *)
LEMMA KeyBlockReadsBack ==
    ASSUME NEW key \in NormalKey, NEW p \in Pass, NEW flukes \in SUBSET (Pass \ {p}), NEW q
    PROVE  LET kb == EncodeKeyPEM(key, p, flukes)
               r  == DecodePrivateKeyBlock(kb, q)
           IN /\ kb \in Block /\ IsPrivateKeyBlock(kb) /\ ~IsCertificateBlock(kb)
              /\ p = NoPass \/ q = p => r.err = "none" /\ r.der = key
              /\ p # NoPass /\ q # p => r.err # "none"
<1> DEFINE c  == [scheme |-> "pbes2", pass |-> p, inner |-> key, flukes |-> flukes]
           kb == EncodeKeyPEM(key, p, flukes)
<1>1. PICK k \in Key : key = PKCS8(k)
  BY DEF NormalKey
<1>2. key \in KeyDER /\ key.key = k
  BY <1>1, NormalKeyType DEF PKCS8
<1>3. NormalizeToPKCS8(key) = Bytes(key)
  BY <1>1, <1>2 DEF NormalizeToPKCS8
<1>4. c \in Cipher
  BY <1>2 DEF Cipher
<1>5. \A x : Bytes(x).err = "none" /\ Bytes(x).der = x
  BY DEF Bytes
<1>6. CASE p = NoPass
  <2>1. kb = PEM("PRIVATE KEY", key)
    BY <1>6 DEF EncodeKeyPEM
  <2> HIDE DEF kb
  <2>2. kb.type = "PRIVATE KEY" /\ ~kb.legacy /\ kb.der = key /\ kb \in Block
    BY <1>2, <2>1, PEMBlock DEF DERBlob, KeyBlockType
  <2>3. DecodePrivateKeyBlock(kb, q) = Bytes(key)
    BY <1>3, <1>5, <2>2 DEF DecodePrivateKeyBlock
  <2> QED
    BY <1>5, <1>6, <2>2, <2>3 DEF kb, IsPrivateKeyBlock, IsCertificateBlock, KeyBlockType, CertBlockType
<1>7. CASE p # NoPass
  <2>1. kb = PEM("ENCRYPTED PRIVATE KEY", c)
    BY <1>7 DEF EncodeKeyPEM
  <2>3. c.scheme = "pbes2" /\ c.pass = p /\ c.inner = key
    BY DEF c
  <2> HIDE DEF c, kb
  <2>2. kb.type = "ENCRYPTED PRIVATE KEY" /\ kb.der = c /\ kb \in Block
    BY <1>4, <2>1, PEMBlock DEF DERBlob, KeyBlockType
  <2>4. CASE q = p
    <3>1. Decrypt(kb.der, "pbes2", q) = Bytes(key)
      BY <1>4, <2>2, <2>3, <2>4 DEF Decrypt
    <3>2. DecodePrivateKeyBlock(kb, q) = Bytes(key)
      BY <1>3, <1>5, <2>2, <3>1 DEF DecodePrivateKeyBlock
    <3> QED
      BY <1>5, <1>7, <2>2, <2>4, <3>2
         DEF kb, IsPrivateKeyBlock, IsCertificateBlock, KeyBlockType, CertBlockType
  <2>5. CASE q # p
    <3>1. Decrypt(kb.der, "pbes2", q) \in {Bytes(Noise), NoBytes("wrong_passphrase")}
      BY <1>4, <2>2, <2>3, <2>5 DEF Decrypt
    <3>2. NormalizeToPKCS8(Noise) = NoBytes("unrecognized")
      BY MaterialAssumption DEF NormalizeToPKCS8
    <3>3. \A e : NoBytes(e).err = e
      BY DEF NoBytes
    <3>4. DecodePrivateKeyBlock(kb, q).err # "none"
      <4> DEFINE plain == Decrypt(kb.der, "pbes2", q)
      <4>1. DecodePrivateKeyBlock(kb, q)
               = IF plain.err = "none" THEN NormalizeToPKCS8(plain.der) ELSE plain
        BY <2>2 DEF DecodePrivateKeyBlock
      <4> HIDE DEF plain
      <4>2. CASE plain = Bytes(Noise)
        BY <1>5, <3>2, <3>3, <4>1, <4>2
      <4>3. CASE plain = NoBytes("wrong_passphrase")
        BY <3>3, <4>1, <4>3
      <4> QED
        BY <3>1, <4>2, <4>3 DEF plain
    <3> QED
      BY <1>7, <2>2, <2>5, <3>4
         DEF kb, IsPrivateKeyBlock, IsCertificateBlock, KeyBlockType, CertBlockType
  <2> QED
    BY <2>4, <2>5
<1> QED
  BY <1>6, <1>7

-----------------------------------------------------------------------------
(* What parsePEM makes of a written PEM file.                              *)

(* s is a leaf, a key block if off is 2, and a chain.                      *)
Laid(s, leaf, off, chain) ==
    /\ s \in Seq(Block)
    /\ off \in {1, 2}
    /\ Len(s) = off + Len(chain)
    /\ s[1] = PEM("CERTIFICATE", leaf)
    /\ off = 2 => IsPrivateKeyBlock(s[2]) /\ ~IsCertificateBlock(s[2])
    /\ \A i \in 1..Len(chain) : s[off + i] = PEM("CERTIFICATE", chain[i])

LEMMA LaidCerts ==
    ASSUME NEW leaf \in Cert, NEW chain \in Seq(Cert \cup {Noise}), NEW s, NEW off,
           Laid(s, leaf, off, chain)
    PROVE  /\ CertsOf(s) = <<leaf>> \o Filter(chain, Cert)
           /\ KeyPositions(s) = IF off = 2 THEN {2} ELSE {}
<1> DEFINE P == {i \in DOMAIN chain : chain[i] \in Cert}
           at == InOrder(P)
           S == CertPositions(s)
           n == Len(chain)
           o == [j \in 1..Len(at) + 1 |-> IF j = 1 THEN 1 ELSE at[j - 1] + off]
<1>1. /\ n \in Nat /\ DOMAIN chain = 1..n /\ DOMAIN s = 1..off + n /\ off \in {1, 2}
      /\ off \in Nat /\ 1 \in 1..off + n
  BY LenProperties DEF Laid
<1>2. \A i \in 1..n : chain[i] \in Cert \cup {Noise}
  BY <1>1, ElementOfSeq
<1>3. ASSUME NEW c \in Cert \cup {Noise}
      PROVE  LET b == PEM("CERTIFICATE", c)
             IN IsCertificateBlock(b) /\ ~IsPrivateKeyBlock(b) /\ b.der = c
  <2>1. PEM("CERTIFICATE", c).type = "CERTIFICATE" /\ PEM("CERTIFICATE", c).der = c
    BY DEF PEM
  <2> QED
    BY <2>1 DEF CertBlockType, KeyBlockType, IsCertificateBlock, IsPrivateKeyBlock
<1>4. /\ IsCertificateBlock(s[1]) /\ ~IsPrivateKeyBlock(s[1]) /\ s[1].der = leaf
      /\ \A i \in 1..n : /\ IsCertificateBlock(s[off + i]) /\ ~IsPrivateKeyBlock(s[off + i])
                         /\ s[off + i].der = chain[i]
  BY <1>2, <1>3 DEF Laid
<1>5. \A x \in 1..off + n : x = 1 \/ (off = 2 /\ x = 2) \/ (x - off \in 1..n /\ off + (x - off) = x)
  BY <1>1
<1>6. KeyPositions(s) = IF off = 2 THEN {2} ELSE {}
  <2>1. \A x \in 1..off + n : IsPrivateKeyBlock(s[x]) => off = 2 /\ x = 2
    BY <1>4, <1>5
  <2>2. off = 2 => 2 \in 1..off + n /\ IsPrivateKeyBlock(s[2])
    BY <1>1 DEF Laid
  <2> QED
    BY <1>1, <2>1, <2>2 DEF KeyPositions
<1>7. /\ S \in SUBSET Nat /\ 1 \in S
      /\ \A i \in P : off + i \in S
      /\ \A x \in S : x = 1 \/ (x - off \in P /\ off + (x - off) = x)
  <2>1. S \in SUBSET Nat
    BY <1>1 DEF CertPositions
  <2>2. 1 \in S
    BY <1>1, <1>4 DEF CertPositions
  <2>3. ASSUME NEW i \in P PROVE off + i \in S
    <3>1. i \in 1..n /\ off + i \in 1..off + n
      BY <1>1
    <3> QED
      BY <1>1, <1>4, <3>1 DEF CertPositions
  <2>4. ASSUME NEW x \in S PROVE x = 1 \/ (x - off \in P /\ off + (x - off) = x)
    <3>1. x \in 1..off + n /\ IsCertificateBlock(s[x]) /\ s[x].der \in Cert
      BY <1>1 DEF CertPositions
    <3>2. ~(off = 2 /\ x = 2)
      BY <3>1 DEF Laid
    <3>3. CASE x - off \in 1..n /\ off + (x - off) = x
      <4>1. s[x].der = chain[x - off]
        BY <1>4, <3>3
      <4> QED
        BY <1>1, <3>1, <3>3, <4>1
    <3> QED
      BY <1>5, <3>1, <3>2, <3>3
  <2> QED
    BY <2>1, <2>2, <2>3, <2>4
<1>8. Lists(at, P) /\ P \in SUBSET (1..n)
  <2>1. P \in SUBSET (1..n)
    BY <1>1
  <2> HIDE DEF P
  <2> QED
    BY <1>1, <2>1, InOrderLists
<1>9. at \in Seq(P) /\ Len(at) \in Nat /\ DOMAIN at = 1..Len(at)
  BY <1>8, LenProperties DEF Lists
<1> HIDE DEF at, S
<1>10. \A j \in 1..Len(at) : at[j] \in P /\ at[j] \in 1..n /\ chain[at[j]] \in Cert
  BY <1>1, <1>9, ElementOfSeq
<1> HIDE DEF P
<1>11. Len(at) + 1 \in Nat /\ DOMAIN o = 1..Len(at) + 1 /\ o[1] = 1
       /\ \A j \in 1..Len(at) : o[j + 1] = at[j] + off
  <2>1. 1 \in 1..Len(at) + 1
    BY <1>9
  <2>2. \A j \in 1..Len(at) : j + 1 \in 1..Len(at) + 1 /\ j + 1 # 1 /\ j + 1 - 1 = j
    BY <1>9
  <2> QED
    BY <1>9, <2>1, <2>2
<1> HIDE DEF o
<1>12. \A j \in 1..Len(at) + 1 : j = 1 \/ (j - 1 \in 1..Len(at) /\ j - 1 + 1 = j)
  BY <1>9
<1>13. Lists(o, S)
  <2>1. ASSUME NEW j \in 1..Len(at) + 1 PROVE o[j] \in S
    <3>1. CASE j = 1
      BY <1>7, <1>11, <3>1
    <3>2. CASE j - 1 \in 1..Len(at) /\ j - 1 + 1 = j
      <4>1. o[j] = at[j - 1] + off /\ at[j - 1] \in P /\ at[j - 1] + off = off + at[j - 1]
        BY <1>1, <1>10, <1>11, <3>2
      <4> QED
        BY <1>7, <4>1
    <3> QED
      BY <1>12, <3>1, <3>2
  <2>2. o \in Seq(S)
    <3>1. o \in [1..Len(at) + 1 -> S]
      BY <1>11, <2>1 DEF o
    <3> QED
      BY <1>11, <3>1, SeqDef
  <2>3. ASSUME NEW x \in S PROVE \E j \in DOMAIN o : o[j] = x
    <3>1. CASE x = 1
      <4>1. 1 \in 1..Len(at) + 1
        BY <1>9
      <4> QED
        BY <1>11, <3>1, <4>1
    <3>2. CASE x - off \in P /\ off + (x - off) = x
      <4>1. PICK j \in 1..Len(at) : at[j] = x - off
        BY <1>8, <1>9, <3>2 DEF Lists
      <4>2. j + 1 \in 1..Len(at) + 1
        BY <1>9
      <4>3. at[j] + off = x
        BY <1>1, <1>10, <3>2, <4>1
      <4> QED
        BY <1>11, <4>2, <4>3
    <3> QED
      BY <1>7, <3>1, <3>2
  <2>4. ASSUME NEW i \in DOMAIN o, NEW j \in DOMAIN o, i < j PROVE o[i] < o[j]
    <3>1. i \in 1..Len(at) + 1 /\ j \in 1..Len(at) + 1
      BY <1>11
    <3>2. j - 1 \in 1..Len(at) /\ j - 1 + 1 = j
      BY <1>9, <2>4, <3>1
    <3>3. o[j] = at[j - 1] + off /\ at[j - 1] \in 1..n
      BY <1>10, <1>11, <3>2
    <3>4. CASE i = 1
      BY <1>1, <1>11, <3>3, <3>4
    <3>5. CASE i - 1 \in 1..Len(at) /\ i - 1 + 1 = i
      <4>1. o[i] = at[i - 1] + off /\ at[i - 1] \in 1..n
        BY <1>10, <1>11, <3>5
      <4>2. i - 1 < j - 1
        BY <2>4, <3>1
      <4>3. at[i - 1] < at[j - 1]
        BY <1>8, <1>9, <3>2, <3>5, <4>2 DEF Lists
      <4> QED
        BY <1>1, <3>3, <4>1, <4>3
    <3> QED
      BY <1>12, <3>1, <3>4, <3>5
  <2> QED
    BY <2>2, <2>3, <2>4 DEF Lists
<1>14. InOrder(S) = o
  BY <1>7, <1>13, ListingIsUnique
<1> DEFINE q == Pick(chain, at)
           t == <<leaf>> \o q
           cs == DersAt(s, o)
<1>15. Filter(chain, Cert) = q
  BY DEF Filter, at, P
<1>16. q \in Seq(Cert) /\ Len(q) = Len(at) /\ \A j \in 1..Len(at) : q[j] = chain[at[j]]
  <2>1. at \in Seq(DOMAIN chain)
    BY <1>1, <1>8, <1>9, SeqMonotonic
  <2>2. \A i \in DOMAIN at : chain[at[i]] \in Cert
    BY <1>9, <1>10
  <2>3. q \in Seq(Cert) /\ Len(q) = Len(at)
    BY <2>1, <2>2, PickType
  <2>4. \A i \in DOMAIN at : q[i] = chain[at[i]]
    BY DEF Pick
  <2> HIDE DEF q
  <2> QED
    BY <1>9, <2>3, <2>4
<1> HIDE DEF q
<1> DEFINE l == <<leaf>>
<1>17. l \in Seq(Cert) /\ Len(l) = 1 /\ l[1] = leaf
  OBVIOUS
<1>18. t \in Seq(Cert) /\ Joined(t, l, q)
  <2>1. t = l \o q
    OBVIOUS
  <2> HIDE DEF l, t
  <2> QED
    BY <1>16, <1>17, <2>1, ConcatJoins
<1> HIDE DEF l, t
<1>19. Len(t) = Len(at) + 1 /\ t[1] = leaf /\ \A j \in 1..Len(at) : t[j + 1] = q[j]
  <2>1. 1 + Len(at) = Len(at) + 1 /\ 1 \in 1..1
    BY <1>9
  <2>2. \A j \in 1..Len(at) : 1 + j = j + 1
    BY <1>9
  <2> QED
    BY <1>16, <1>17, <1>18, <2>1, <2>2 DEF Joined
<1>20. cs = [j \in 1..Len(at) + 1 |-> s[o[j]].der]
  BY <1>11 DEF DersAt
<1> HIDE DEF cs
<1>21. ASSUME NEW j \in 1..Len(at) + 1 PROVE cs[j] = t[j]
  <2>1. cs[j] = s[o[j]].der
    BY <1>20
  <2>2. CASE j = 1
    BY <1>4, <1>11, <1>19, <2>1, <2>2
  <2>3. CASE j - 1 \in 1..Len(at) /\ j - 1 + 1 = j
    <3>1. t[j] = chain[at[j - 1]]
      BY <1>16, <1>19, <2>3
    <3>2. o[j] = off + at[j - 1] /\ at[j - 1] \in 1..n
      BY <1>1, <1>10, <1>11, <2>3
    <3> QED
      BY <1>4, <2>1, <3>1, <3>2
  <2> QED
    BY <1>12, <2>2, <2>3
<1>22. cs \in Seq(Cert) /\ Len(cs) = Len(at) + 1
  <2>1. \A j \in 1..Len(at) + 1 : t[j] \in Cert
    BY <1>18, <1>19, ElementOfSeq
  <2>2. cs \in [1..Len(at) + 1 -> Cert]
    BY <1>20, <1>21, <2>1
  <2>3. cs \in Seq(Cert)
    BY <1>11, <2>2, SeqDef
  <2>4. DOMAIN cs = 1..Len(at) + 1 /\ DOMAIN cs = 1..Len(cs) /\ Len(cs) \in Nat
    BY <1>20, <2>3, LenProperties
  <2> QED
    BY <1>11, <2>3, LenProperties, <2>4
<1>23. cs = t
  BY <1>18, <1>19, <1>21, <1>22, SeqEqual
<1> QED
  BY <1>6, <1>14, <1>15, <1>23 DEF CertsOf, cs, t, l, S

(* The layouts Export writes.                                              *)
LEMMA FilesLaid ==
    ASSUME NEW b, IsSource(b), b.leaf \in Cert,
           NEW kb \in Block, IsPrivateKeyBlock(kb), ~IsCertificateBlock(kb)
    PROVE  /\ Laid(LeafBlocks(b) \o <<kb>> \o ChainBlocks(b), b.leaf, 2, b.chain)
           /\ (LeafBlocks(b) \o <<kb>> \o ChainBlocks(b))[2] = kb
           /\ Laid(LeafBlocks(b) \o ChainBlocks(b), b.leaf, 1, b.chain)
           /\ Laid(LeafBlocks(b), b.leaf, 1, <<>>)
<1> DEFINE l == LeafBlocks(b)
           c == ChainBlocks(b)
           k == <<kb>>
           lk == l \o k
           lkc == lk \o c
           lc == l \o c
           n == Len(b.chain)
<1>1. b.chain \in Seq(Cert \cup {Noise}) /\ n \in Nat /\ DOMAIN b.chain = 1..n
  BY ChainType, LenProperties
<1>2. \A i \in 1..n : b.chain[i] \in Cert \cup {Noise}
  BY <1>1, ElementOfSeq
<1>3. \A x \in Cert \cup {Noise} : PEM("CERTIFICATE", x) \in Block
  BY PEMBlock DEF DERBlob, CertBlockType
<1>4. l \in Seq(Block) /\ Len(l) = 1 /\ l[1] = PEM("CERTIFICATE", b.leaf)
  <2>1. b.leaf # Nil /\ PEM("CERTIFICATE", b.leaf) \in Block
    BY <1>3, MaterialAssumption DEF DERBlob
  <2> QED
    BY <2>1 DEF LeafBlocks
<1>5. c \in Seq(Block) /\ Len(c) = n /\ \A i \in 1..n : c[i] = PEM("CERTIFICATE", b.chain[i])
  <2>1. c = [i \in 1..n |-> PEM("CERTIFICATE", b.chain[i])]
    BY <1>1 DEF ChainBlocks
  <2>2. c \in [1..n -> Block]
    BY <1>2, <1>3, <2>1
  <2>3. c \in Seq(Block)
    BY <1>1, <2>2, SeqDef
  <2>4. DOMAIN c = 1..n /\ DOMAIN c = 1..Len(c) /\ Len(c) \in Nat
    BY <2>1, <2>3, LenProperties
  <2> QED
    BY <1>1, <2>1, <2>3, LenProperties
<1>6. k \in Seq(Block) /\ Len(k) = 1 /\ k[1] = kb
  OBVIOUS
<1>7. Laid(l, b.leaf, 1, <<>>)
  <2>1. Len(<<>>) = 0 /\ 1..0 = {} /\ 1 + 0 = 1
    BY EmptySeq
  <2> HIDE DEF l
  <2> QED
    BY <1>4, <2>1 DEF Laid
<1> HIDE DEF l, c, k, n
<1>8. lk \in Seq(Block) /\ Len(lk) = 2 /\ lk[1] = PEM("CERTIFICATE", b.leaf) /\ lk[2] = kb
  <2>1. lk \in Seq(Block) /\ Joined(lk, l, k)
    BY <1>4, <1>6, ConcatJoins
  <2> HIDE DEF lk
  <2>2. 1 \in 1..1 /\ 1 + 1 = 2
    OBVIOUS
  <2> QED
    BY <1>4, <1>6, <2>1, <2>2 DEF Joined
<1> HIDE DEF lk
<1>9. Laid(lkc, b.leaf, 2, b.chain) /\ lkc[2] = kb
  <2>1. lkc \in Seq(Block) /\ Joined(lkc, lk, c)
    BY <1>5, <1>8, ConcatJoins
  <2> HIDE DEF lkc
  <2>2. 1 \in 1..2 /\ 2 \in 1..2
    OBVIOUS
  <2>3. /\ Len(lkc) = 2 + n /\ lkc[1] = PEM("CERTIFICATE", b.leaf) /\ lkc[2] = kb
        /\ \A i \in 1..n : lkc[2 + i] = PEM("CERTIFICATE", b.chain[i])
    BY <1>5, <1>8, <2>1, <2>2 DEF Joined
  <2> QED
    BY <2>1, <2>3 DEF Laid, n
<1>10. Laid(lc, b.leaf, 1, b.chain)
  <2>1. lc \in Seq(Block) /\ Joined(lc, l, c)
    BY <1>4, <1>5, ConcatJoins
  <2> HIDE DEF lc
  <2>2. 1 \in 1..1
    OBVIOUS
  <2>3. /\ Len(lc) = 1 + n /\ lc[1] = PEM("CERTIFICATE", b.leaf)
        /\ \A i \in 1..n : lc[1 + i] = PEM("CERTIFICATE", b.chain[i])
    BY <1>4, <1>5, <2>1, <2>2 DEF Joined
  <2> QED
    BY <2>1, <2>3 DEF Laid, n
<1> QED
  BY <1>7, <1>9, <1>10 DEF l, c, k, lk, lkc, lc

(* Without a leaf a file holds its key, or nothing.                        *)
LEMMA LeaflessLaid ==
    ASSUME NEW b, IsSource(b), b.leaf = Nil, NEW kb \in Block
    PROVE  /\ LeafBlocks(b) \o <<kb>> \o ChainBlocks(b) = <<kb>>
           /\ LeafBlocks(b) \o ChainBlocks(b) = <<>>
           /\ LeafBlocks(b) = <<>>
<1>1. LeafBlocks(b) = <<>>
  BY DEF LeafBlocks
<1>2. ChainBlocks(b) = <<>>
  <2>1. b.chain = <<>> /\ DOMAIN <<>> = {}
    BY DEF IsSource
  <2> QED
    BY <2>1 DEF ChainBlocks
<1>3. <<kb>> \in Seq(Block) /\ <<>> \in Seq(Block)
  OBVIOUS
<1>4. <<>> \o <<kb>> = <<kb>> /\ <<kb>> \o <<>> = <<kb>> /\ <<>> \o <<>> = <<>>
  BY <1>3, ConcatEmptySeq
<1> QED
  BY <1>1, <1>2, <1>4

(* Its certificates are classified, with the key of its key block, if any. *)
LaidResult(s, off, q, cs) ==
    LET r == DecodePrivateKeyBlock(s[2], q)
    IN /\ off = 1 => ParsePEM(s, q) = Ok(ClassifiedBundle(cs, Nil))
       /\ off = 2 /\ r.err = "none" => ParsePEM(s, q) = Ok(ClassifiedBundle(cs, r.der))
       /\ off = 2 /\ r.err # "none" => ParsePEM(s, q).err # "none"

LEMMA LaidParse ==
    ASSUME NEW leaf \in Cert, NEW chain \in Seq(Cert \cup {Noise}), NEW s, NEW off,
           Laid(s, leaf, off, chain), NEW q, NEW cs, cs = <<leaf>> \o Filter(chain, Cert)
    PROVE  LaidResult(s, off, q, cs)
<1> DEFINE key == KeyOf(s, q)
           bad == BadKeyPositions(s, q)
           r == DecodePrivateKeyBlock(s[2], q)
<1>1. s \in Seq(Block) /\ off \in {1, 2}
  BY DEF Laid
<1>2. CertsOf(s) = cs /\ KeyPositions(s) = IF off = 2 THEN {2} ELSE {}
  BY LaidCerts
<1>3. cs # <<>>
  <2>1. Filter(chain, Cert) \in Seq((Cert \cup {Noise}) \cap Cert)
    BY FilterLists
  <2>2. (Cert \cup {Noise}) \cap Cert = Cert
    OBVIOUS
  <2>3. Filter(chain, Cert) \in Seq(Cert) /\ <<leaf>> \in Seq(Cert) /\ <<leaf>> # <<>>
    BY <2>1, <2>2
  <2> QED
    BY <2>3, ConcatEmptySeq
<1>4. bad = {i \in KeyPositions(s) : DecodePrivateKeyBlock(s[i], q).err # "none"}
  BY DEF BadKeyPositions
<1>5. bad = {} => ParsePEM(s, q) = Ok(ClassifiedBundle(cs, key))
  BY <1>1, <1>2, <1>3, ParsePEMCases
<1>6. ASSUME bad # {}
      PROVE  ParsePEM(s, q).err # "none"
  <2>1. PICK i \in KeyPositions(s) :
             /\ DecodePrivateKeyBlock(s[i], q).err \in {"wrong_passphrase", "unrecognized"}
             /\ ParsePEM(s, q) = Fail(DecodePrivateKeyBlock(s[i], q).err)
    BY <1>1, <1>6, ParsePEMCases
  <2>2. \A e : Fail(e).err = e
    BY DEF Fail
  <2> QED
    BY <2>1, <2>2
<1>7. off = 1 => bad = {} /\ key = Nil
  BY <1>2, <1>4 DEF KeyOf
<1>8. off = 2 => key = r.der /\ (bad = {} <=> r.err = "none")
  <2>1. {2} \in SUBSET Nat /\ 2 \in {2} /\ \A x \in {2} : x <= 2
    OBVIOUS
  <2>2. Max({2}) = 2
    BY <2>1, MaxIs
  <2> QED
    BY <1>2, <1>4, <2>2 DEF KeyOf
<1> HIDE DEF bad, key, r
<1>9. /\ off = 1 => ParsePEM(s, q) = Ok(ClassifiedBundle(cs, Nil))
      /\ off = 2 /\ r.err = "none" => ParsePEM(s, q) = Ok(ClassifiedBundle(cs, r.der))
      /\ off = 2 /\ r.err # "none" => ParsePEM(s, q).err # "none"
  BY <1>5, <1>6, <1>7, <1>8
<1> QED
  BY <1>9 DEF r, LaidResult

(* A file that holds nothing but a key.                                    *)
LEMMA KeyFileParse ==
    ASSUME NEW kb \in Block, IsPrivateKeyBlock(kb), ~IsCertificateBlock(kb), NEW q
    PROVE  LET r == DecodePrivateKeyBlock(kb, q)
           IN /\ r.err = "none" => ParsePEM(<<kb>>, q) = Ok(KeyBundle(r.der))
              /\ r.err # "none" => ParsePEM(<<kb>>, q).err # "none"
<1> DEFINE s == <<kb>>
           key == KeyOf(s, q)
           bad == BadKeyPositions(s, q)
           r == DecodePrivateKeyBlock(kb, q)
<1>1. s \in Seq(Block) /\ Len(s) = 1 /\ DOMAIN s = {1} /\ s[1] = kb
  OBVIOUS
<1> HIDE DEF s
<1>2. CertPositions(s) = {} /\ KeyPositions(s) = {1}
  BY <1>1 DEF CertPositions, KeyPositions
<1>3. bad = {i \in KeyPositions(s) : DecodePrivateKeyBlock(s[i], q).err # "none"}
  BY DEF BadKeyPositions
<1>4. Max({1}) = 1
  <2>1. {1} \in SUBSET Nat /\ 1 \in {1} /\ \A x \in {1} : x <= 1
    OBVIOUS
  <2> QED
    BY <2>1, MaxIs
<1>5. key = r.der /\ (bad = {} <=> r.err = "none")
  BY <1>1, <1>2, <1>3, <1>4 DEF KeyOf
<1>6. CertsOf(s) = <<>>
  BY <1>1, <1>2, CertsListing
<1>7. bad = {} => key # Nil
  BY <1>1, <1>2, ParsePEMCases
<1>8. bad = {} => ParsePEM(s, q) = Ok(KeyBundle(key))
  BY <1>1, <1>6, <1>7, ParsePEMCases
<1>9. bad # {} => ParsePEM(s, q).err # "none"
  BY <1>1, ParsePEMCases DEF Fail
<1> HIDE DEF bad, key, r
<1>10. /\ r.err = "none" => ParsePEM(s, q) = Ok(KeyBundle(r.der))
       /\ r.err # "none" => ParsePEM(s, q).err # "none"
  BY <1>5, <1>8, <1>9
<1> QED
  BY <1>10 DEF s, r

-----------------------------------------------------------------------------
(* What the parser of its own format makes of a written file.              *)

(* A leaf the classification chooses again gives the same leaf and chain.  *)
LEMMA ClassifiedFirst ==
    ASSUME NEW c \in Cert, NEW cs \in Seq(Cert), NEW k, NEW t \in Seq(Cert), Joined(t, <<c>>, cs),
           c \notin CA \/ EndEntities(t) = {}
    PROVE  ClassifiedBundle(t, k) = LeafBundle(c, k, cs)
<1>1. Len(cs) \in Nat /\ Len(t) = 1 + Len(cs) /\ DOMAIN t = 1..1 + Len(cs) /\ Len(<<c>>) = 1 /\ <<c>>[1] = c
  BY DEF Joined
<1>2. t[1] = c /\ (\A j \in 1..Len(cs) : t[1 + j] = cs[j]) /\ 1 \in 1..Len(t)
  BY <1>1 DEF Joined
<1>3. LeafIndex(t) = 1
  <2>1. CASE EndEntities(t) = {}
    BY <2>1 DEF LeafIndex
  <2>2. CASE EndEntities(t) # {}
    <3>1. 1 \in EndEntities(t)
      BY <1>1, <1>2, <2>2 DEF EndEntities
    <3>2. EndEntities(t) \in SUBSET Nat /\ \A x \in EndEntities(t) : 1 <= x
      BY <1>1 DEF EndEntities
    <3>3. Min(EndEntities(t)) = 1
      BY <3>1, <3>2, MinIs
    <3> QED
      BY <2>2, <3>3 DEF LeafIndex
  <2> QED
    BY <2>1, <2>2
<1> DEFINE r == RemoveAt(t, 1)
<1>4. r \in Seq(Cert) /\ Len(r) = Len(t) - 1 /\ \A j \in 1..Len(t) - 1 : r[j] = IF j < 1 THEN t[j] ELSE t[j + 1]
  BY <1>2, RemoveAtProperties
<1> HIDE DEF r
<1>5. Len(r) = Len(cs) /\ \A j \in 1..Len(cs) : r[j] = cs[j]
  <2>1. Len(t) - 1 = Len(cs)
    BY <1>1
  <2>2. \A j \in 1..Len(cs) : ~(j < 1) /\ j + 1 = 1 + j
    BY <1>1
  <2> QED
    BY <1>2, <1>4, <2>1, <2>2
<1>6. r = cs
  BY <1>4, <1>5, SeqEqual
<1> QED
  BY <1>2, <1>3, <1>6 DEF ClassifiedBundle, r

(* PKCS#12 and JKS keep the leaf first and the chain after it.             *)
LEMMA WrittenCertsFacts ==
    ASSUME NEW b, IsSource(b), b.leaf \in Cert
    PROVE  LET t == WrittenCerts(b)
           IN /\ t \in Seq(Cert) /\ t # <<>>
              /\ Head(t) = b.leaf /\ Tail(t) = ParsedChain(b)
<1> DEFINE t == WrittenCerts(b)
           pc == ParsedChain(b)
<1>1. t \in Seq(Cert) /\ Joined(t, <<b.leaf>>, pc) /\ pc \in Seq(Cert)
  BY ChainType
<1> HIDE DEF t, pc
<1>2. Len(<<b.leaf>>) = 1 /\ <<b.leaf>>[1] = b.leaf
  OBVIOUS
<1>3. Len(pc) \in Nat /\ Len(t) = 1 + Len(pc) /\ t[1] = b.leaf /\ \A j \in 1..Len(pc) : t[1 + j] = pc[j]
  <2>1. 1 \in 1..1
    OBVIOUS
  <2> QED
    BY <1>1, <1>2, <2>1 DEF Joined
<1>4. t # <<>>
  BY <1>1, <1>3, EmptySeq
<1>5. Head(t) = b.leaf
  BY <1>1, <1>3, <1>4
<1>6. Tail(t) \in Seq(Cert) /\ Len(Tail(t)) = Len(t) - 1 /\ \A i \in 1..Len(Tail(t)) : Tail(t)[i] = t[i + 1]
  BY <1>1, <1>4, HeadTailProperties
<1> DEFINE u == Tail(t)
<1> HIDE DEF u
<1>7. Len(u) = Len(pc) /\ \A i \in 1..Len(pc) : u[i] = pc[i]
  <2>1. Len(t) - 1 = Len(pc)
    BY <1>3
  <2>2. \A i \in 1..Len(pc) : i + 1 = 1 + i
    BY <1>3
  <2> QED
    BY <1>3, <1>6, <2>1, <2>2 DEF u
<1>8. u = pc
  BY <1>1, <1>6, <1>7, SeqEqual DEF u
<1> QED
  BY <1>1, <1>4, <1>5, <1>8 DEF t, pc, u

(* The passphrases a file opens with: a written PEM key is in clear if the *)
(* passphrase it was written with is empty.                                *)
Opens(f, p, q) ==
    \/ f \notin KeyBearing
    \/ q = p
    \/ p = NoPass /\ f \in {"pem", "pem-key"}

(* What a file of format f written for b holds.                            *)
ReadBack(b, f) ==
    CASE f = "pem"           -> IF b.leaf = Nil THEN Ok(KeyBundle(b.key))
                                ELSE Ok(ClassifiedBundle(WrittenCerts(b), b.key))
      [] f = "pem-cert"      -> IF b.leaf = Nil THEN Fail("unrecognized")
                                ELSE Ok(LeafBundle(b.leaf, Nil, <<>>))
      [] f = "pem-key"       -> Ok(KeyBundle(b.key))
      [] f = "pem-fullchain" -> IF b.leaf = Nil THEN Fail("unrecognized")
                                ELSE Ok(ClassifiedBundle(WrittenCerts(b), Nil))
      [] f = "der"           -> Ok(LeafBundle(b.leaf, Nil, <<>>))
      [] f = "pkcs7"         -> IF Cardinality(EndEntities(WrittenCerts(b))) > 1
                                THEN Multiple({WrittenCerts(b)[i] : i \in EndEntities(WrittenCerts(b))})
                                ELSE Ok(ClassifiedBundle(WrittenCerts(b), Nil))
      [] f = "pkcs12"        -> Ok(LeafBundle(b.leaf, b.key, ParsedChain(b)))
      [] f = "jks"           -> Ok(LeafBundle(b.leaf, b.key, ParsedChain(b)))

LEMMA PEMReadsBack ==
    ASSUME NEW b, NEW f, NEW p, NEW flukes, NEW d, Writes(b, f, p, flukes, d), NEW q,
           f \in {"pem", "pem-cert", "pem-key", "pem-fullchain"}
    PROVE  /\ d.kind = "pem"
           /\ Opens(f, p, q) => NativeParse(d, q) = ReadBack(b, f)
           /\ ~Opens(f, p, q) => NativeParse(d, q).err # "none"
<1> DEFINE kb == EncodeKeyPEM(b.key, p, flukes)
           r == DecodePrivateKeyBlock(kb, q)
<1>0. d = FileOf(b, f, p, kb)
  BY ExportCases
<1>1. IsSource(b) /\ p \in Pass /\ flukes \in SUBSET (Pass \ {p})
  BY DEF Writes
<1>2. b.leaf \in Cert \cup {Nil} /\ b.chain \in Seq(Cert \cup {Noise})
  BY <1>1, ChainType
<1>3. ASSUME NEW s
      PROVE  PEMData(s).kind = "pem" /\ NativeParse(PEMData(s), q) = ParsePEM(s, q)
  BY DEF PEMData, NativeParse
<1>4. ASSUME f \in {"pem", "pem-key"}
      PROVE  /\ kb \in Block /\ IsPrivateKeyBlock(kb) /\ ~IsCertificateBlock(kb)
             /\ Opens(f, p, q) => r.err = "none" /\ r.der = b.key
             /\ ~Opens(f, p, q) => r.err # "none"
  <2>1. f \in KeyBearing
    BY <1>4 DEF KeyBearing
  <2>2. b.key \in NormalKey
    BY <2>1, ExportCases
  <2>3. Opens(f, p, q) <=> q = p \/ p = NoPass
    BY <1>4, <2>1 DEF Opens
  <2> QED
    BY <1>1, <2>2, <2>3, KeyBlockReadsBack
<1>5. b.leaf # Nil => WrittenCerts(b) = <<b.leaf>> \o Filter(b.chain, Cert)
  BY DEF WrittenCerts, ParsedChain
<1>6. CASE f = "pem"
  <2> DEFINE s == LeafBlocks(b) \o <<kb>> \o ChainBlocks(b)
  <2>1. d = PEMData(s)
    BY <1>0, <1>6 DEF FileOf
  <2>2. d.kind = "pem" /\ NativeParse(d, q) = ParsePEM(s, q)
    BY <1>3, <2>1
  <2>3. CASE b.leaf = Nil
    <3>1. s = <<kb>>
      BY <1>1, <1>4, <1>6, <2>3, LeaflessLaid
    <3>2. ReadBack(b, f) = Ok(KeyBundle(b.key))
      BY <1>6, <2>3 DEF ReadBack
    <3> HIDE DEF s, kb
    <3>3. /\ r.err = "none" => ParsePEM(s, q) = Ok(KeyBundle(r.der))
          /\ r.err # "none" => ParsePEM(s, q).err # "none"
      BY <1>4, <1>6, <3>1, KeyFileParse
    <3> QED
      BY <1>4, <1>6, <2>2, <3>2, <3>3
  <2>4. CASE b.leaf \in Cert
    <3>1. b.leaf # Nil
      BY <2>4, MaterialAssumption DEF DERBlob
    <3>2. Laid(s, b.leaf, 2, b.chain) /\ s[2] = kb
      BY <1>1, <1>4, <1>6, <2>4, FilesLaid
    <3>3. ReadBack(b, f) = Ok(ClassifiedBundle(WrittenCerts(b), b.key))
      BY <1>6, <3>1 DEF ReadBack
    <3> HIDE DEF s, kb
    <3> DEFINE rs == DecodePrivateKeyBlock(s[2], q)
    <3>4. LaidResult(s, 2, q, WrittenCerts(b))
      BY <1>2, <1>5, <2>4, <3>1, <3>2, LaidParse
    <3>5. /\ rs.err = "none" => ParsePEM(s, q) = Ok(ClassifiedBundle(WrittenCerts(b), rs.der))
          /\ rs.err # "none" => ParsePEM(s, q).err # "none"
      BY <3>4 DEF LaidResult
    <3>6. rs = r
      BY <3>2
    <3> HIDE DEF rs, r
    <3> QED
      BY <1>4, <1>6, <2>2, <3>3, <3>5, <3>6
  <2> QED
    BY <1>2, <2>3, <2>4
<1>7. CASE f = "pem-key"
  <2>1. d = PEMData(<<kb>>)
    BY <1>0, <1>7 DEF FileOf
  <2>2. d.kind = "pem" /\ NativeParse(d, q) = ParsePEM(<<kb>>, q)
    BY <1>3, <2>1
  <2>3. ReadBack(b, f) = Ok(KeyBundle(b.key))
    BY <1>7 DEF ReadBack
  <2> HIDE DEF kb
  <2>4. /\ r.err = "none" => ParsePEM(<<kb>>, q) = Ok(KeyBundle(r.der))
        /\ r.err # "none" => ParsePEM(<<kb>>, q).err # "none"
    BY <1>4, <1>7, KeyFileParse
  <2> QED
    BY <1>4, <1>7, <2>2, <2>3, <2>4
<1>8. PICK x \in Block : IsPrivateKeyBlock(x) /\ ~IsCertificateBlock(x)
  <2> DEFINE x == PEM("PRIVATE KEY", Noise)
  <2>1. x \in Block /\ x.type = "PRIVATE KEY"
    BY PEMBlock DEF DERBlob, KeyBlockType
  <2> HIDE DEF x
  <2> QED
    BY <2>1 DEF IsPrivateKeyBlock, IsCertificateBlock, KeyBlockType, CertBlockType
<1>9. ASSUME f \in {"pem-cert", "pem-fullchain"}
      PROVE  Opens(f, p, q)
  BY <1>9 DEF Opens, KeyBearing
<1>10. CASE f = "pem-cert"
  <2>1. d = PEMData(LeafBlocks(b))
    BY <1>0, <1>10 DEF FileOf
  <2>2. d.kind = "pem" /\ NativeParse(d, q) = ParsePEM(LeafBlocks(b), q)
    BY <1>3, <2>1
  <2>3. CASE b.leaf = Nil
    <3>1. LeafBlocks(b) = <<>>
      BY <1>1, <1>8, <2>3, LeaflessLaid
    <3>2. ReadBack(b, f) = Fail("unrecognized")
      BY <1>10, <2>3 DEF ReadBack
    <3> QED
      BY <1>9, <1>10, <2>2, <3>1, <3>2, NoBlocks
  <2>4. CASE b.leaf \in Cert
    <3>1. b.leaf # Nil
      BY <2>4, MaterialAssumption DEF DERBlob
    <3> DEFINE l == <<b.leaf>>
               e == <<>>
               t == l \o Filter(e, Cert)
    <3>a. Laid(LeafBlocks(b), b.leaf, 1, e)
      BY <1>1, <1>8, <2>4, FilesLaid
    <3>2. e \in Seq(Cert \cup {Noise})
      OBVIOUS
    <3>3. ParsePEM(LeafBlocks(b), q) = Ok(ClassifiedBundle(t, Nil))
      <4> HIDE DEF e
      <4>1. LaidResult(LeafBlocks(b), 1, q, t)
        BY <2>4, <3>a, <3>2, LaidParse
      <4> QED
        BY <4>1 DEF LaidResult
    <3>4. e \in Seq(Cert) /\ l \in Seq(Cert) /\ Len(l) = 1 /\ l[1] = b.leaf /\ Len(e) = 0
      BY <2>4
    <3>5. Filter(e, Cert) = e
      BY <3>4, FilterAll
    <3>6. t \in Seq(Cert) /\ Joined(t, l, e)
      BY <3>4, <3>5, ConcatJoins
    <3>7. b.leaf \notin CA \/ EndEntities(t) = {}
      <4> HIDE DEF t, l, e
      <4>1. DOMAIN t = 1..1 /\ 1 \in 1..1 /\ 1 + 0 = 1
        BY <3>4, <3>6 DEF Joined
      <4>2. t[1] = b.leaf
        BY <3>4, <3>6, <4>1 DEF Joined
      <4>3. \A i \in 1..1 : i = 1
        OBVIOUS
      <4> QED
        BY <4>1, <4>2, <4>3 DEF EndEntities
    <3> HIDE DEF t, e
    <3>8. ClassifiedBundle(t, Nil) = LeafBundle(b.leaf, Nil, e)
      BY <2>4, <3>4, <3>6, <3>7, ClassifiedFirst DEF l
    <3>9. ReadBack(b, f) = Ok(LeafBundle(b.leaf, Nil, <<>>))
      BY <1>10, <3>1 DEF ReadBack
    <3> QED
      BY <1>9, <1>10, <2>2, <3>3, <3>8, <3>9 DEF e
  <2> QED
    BY <1>2, <2>3, <2>4
<1>11. CASE f = "pem-fullchain"
  <2> DEFINE s == LeafBlocks(b) \o ChainBlocks(b)
  <2>1. d = PEMData(s)
    BY <1>0, <1>11 DEF FileOf
  <2>2. d.kind = "pem" /\ NativeParse(d, q) = ParsePEM(s, q)
    BY <1>3, <2>1
  <2>3. CASE b.leaf = Nil
    <3>1. s = <<>>
      BY <1>1, <1>8, <2>3, LeaflessLaid
    <3>2. ReadBack(b, f) = Fail("unrecognized")
      BY <1>11, <2>3 DEF ReadBack
    <3> QED
      BY <1>9, <1>11, <2>2, <3>1, <3>2, NoBlocks
  <2>4. CASE b.leaf \in Cert
    <3>1. b.leaf # Nil
      BY <2>4, MaterialAssumption DEF DERBlob
    <3>2. Laid(s, b.leaf, 1, b.chain)
      BY <1>1, <1>8, <2>4, FilesLaid
    <3>3. ReadBack(b, f) = Ok(ClassifiedBundle(WrittenCerts(b), Nil))
      BY <1>11, <3>1 DEF ReadBack
    <3> HIDE DEF s
    <3>4. LaidResult(s, 1, q, WrittenCerts(b))
      BY <1>2, <1>5, <2>4, <3>1, <3>2, LaidParse
    <3>5. ParsePEM(s, q) = Ok(ClassifiedBundle(WrittenCerts(b), Nil))
      BY <3>4 DEF LaidResult
    <3> QED
      BY <1>9, <1>11, <2>2, <3>3, <3>5
  <2> QED
    BY <1>2, <2>3, <2>4
<1> QED
  BY <1>6, <1>7, <1>10, <1>11

(* A normalized key is the PKCS#8 form of the key inside.                  *)
LEMMA NormalKeyFacts ==
    \A k \in NormalKey : k.key \in Key /\ k.key # Nil /\ PKCS8(k.key) = k /\ NormalizeToPKCS8(k) = Bytes(k)
<1>1. ASSUME NEW k \in NormalKey
      PROVE  k.key \in Key /\ k.key # Nil /\ PKCS8(k.key) = k /\ NormalizeToPKCS8(k) = Bytes(k)
  <2>1. PICK x \in Key : k = PKCS8(x)
    BY DEF NormalKey
  <2>2. k.key = x
    BY <2>1 DEF PKCS8
  <2>3. x # Nil
    BY MaterialAssumption
  <2>4. k \in KeyDER
    BY NormalKeyType
  <2>5. PKCS8(k.key) = k
    BY <2>1, <2>2
  <2> QED
    BY <2>2, <2>3, <2>4, <2>5 DEF NormalizeToPKCS8
<1> QED
  BY <1>1

(* The keystore Export writes has one entry, "certkit".                    *)
LEMMA KeystoreReadsBack ==
    ASSUME NEW b, IsSource(b), b.leaf \in Cert, b.key \in NormalKey, NEW p, NEW q, NEW entries,
           entries = [a \in {"certkit"} |-> KeyEntry(p, b.key, WrittenCerts(b))]
    PROVE  /\ DOMAIN entries = {"certkit"}
           /\ q = p => BundleFromKeystoreEntry(entries, "certkit", q)
                           = Ok(LeafBundle(b.leaf, b.key, ParsedChain(b)))
           /\ \A a : a # "certkit" => BundleFromKeystoreEntry(entries, a, q) = Fail("unrecognized")
<1> DEFINE t == WrittenCerts(b)
           e == KeyEntry(p, b.key, t)
<1>1. t \in Seq(Cert) /\ t # <<>> /\ Head(t) = b.leaf /\ Tail(t) = ParsedChain(b)
  BY WrittenCertsFacts
<1> HIDE DEF t
<1>2. e.tag = "key" /\ e.pass = p /\ e.key = b.key /\ e.chain = t
  BY DEF KeyEntry
<1>3. DOMAIN entries = {"certkit"} /\ entries["certkit"] = e
  BY DEF t
<1> HIDE DEF e
<1>4. BundleFromKeystoreEntry(entries, "certkit", q) = BundleFromKeyEntry(e, q)
  BY <1>2, <1>3 DEF BundleFromKeystoreEntry
<1>5. NormalizeToPKCS8(b.key) = Bytes(b.key) /\ Bytes(b.key).err = "none" /\ Bytes(b.key).der = b.key
  BY NormalKeyFacts DEF Bytes
<1>6. q = p => BundleFromKeyEntry(e, q) = Ok(LeafBundle(b.leaf, b.key, ParsedChain(b)))
  BY <1>1, <1>2, <1>5 DEF BundleFromKeyEntry
<1>7. \A a : a # "certkit" => BundleFromKeystoreEntry(entries, a, q) = Fail("unrecognized")
  BY <1>3 DEF BundleFromKeystoreEntry
<1> QED
  BY <1>3, <1>4, <1>6, <1>7

LEMMA BinaryReadsBack ==
    ASSUME NEW b, NEW f, NEW p, NEW flukes, NEW d, Writes(b, f, p, flukes, d), NEW q,
           f \in {"der", "pkcs7", "pkcs12", "jks"}
    PROVE  /\ d.kind = f
           /\ Opens(f, p, q) => NativeParse(d, q) = ReadBack(b, f)
           /\ ~Opens(f, p, q) => NativeParse(d, q).err # "none"
<1> DEFINE t == WrittenCerts(b)
<1>1. /\ d = FileOf(b, f, p, EncodeKeyPEM(b.key, p, flukes))
      /\ f \in KeyBearing => b.key \in NormalKey
      /\ b.leaf \in Cert
      /\ IsSource(b)
  BY ExportCases DEF Writes
<1>2. t \in Seq(Cert) /\ t # <<>> /\ Head(t) = b.leaf /\ Tail(t) = ParsedChain(b)
  BY <1>1, WrittenCertsFacts
<1> HIDE DEF t
<1>3. Fail("wrong_passphrase").err # "none"
  BY DEF Fail
<1>4. CASE f = "der"
  <2>1. d.kind = "der" /\ d.cert = b.leaf
    BY <1>1, <1>4 DEF FileOf, DERData
  <2>2. NativeParse(d, q) = Ok(LeafBundle(b.leaf, Nil, <<>>))
    BY <2>1 DEF NativeParse, ParseDER
  <2> QED
    BY <1>4, <2>1, <2>2 DEF ReadBack, Opens, KeyBearing
<1>5. CASE f = "pkcs7"
  <2>1. d.kind = "pkcs7" /\ d.certs = t
    BY <1>1, <1>5 DEF FileOf, PKCS7Data, t
  <2>2. NativeParse(d, q) = ParsePKCS7(d)
    BY <2>1 DEF NativeParse
  <2>3. ParsePKCS7(d) = IF Cardinality(EndEntities(t)) > 1
                        THEN Multiple({t[i] : i \in EndEntities(t)})
                        ELSE Ok(ClassifiedBundle(t, Nil))
    BY <1>2, <2>1 DEF ParsePKCS7
  <2>4. ReadBack(b, f) = ParsePKCS7(d)
    BY <1>5, <2>3 DEF ReadBack, t
  <2> QED
    BY <1>5, <2>1, <2>2, <2>4 DEF Opens, KeyBearing
<1>6. CASE f = "pkcs12"
  <2>1. d.kind = "pkcs12" /\ d.pass = p /\ d.key = b.key.key /\ d.certs = t
    BY <1>1, <1>6 DEF FileOf, PKCS12Data, t
  <2>2. d.key # Nil /\ PKCS8(d.key) = b.key
    BY <1>1, <1>6, <2>1, NormalKeyFacts DEF KeyBearing
  <2>3. NativeParse(d, q) = ParsePKCS12(d, q)
    BY <2>1 DEF NativeParse
  <2>4. Opens(f, p, q) <=> q = p
    BY <1>6 DEF Opens, KeyBearing
  <2>5. q = p => ParsePKCS12(d, q) = Ok(LeafBundle(b.leaf, b.key, ParsedChain(b)))
    BY <1>2, <2>1, <2>2 DEF ParsePKCS12
  <2>6. q # p => ParsePKCS12(d, q) = Fail("wrong_passphrase")
    BY <2>1 DEF ParsePKCS12
  <2>7. ReadBack(b, f) = Ok(LeafBundle(b.leaf, b.key, ParsedChain(b)))
    BY <1>6 DEF ReadBack
  <2> QED
    BY <1>3, <1>6, <2>1, <2>3, <2>4, <2>5, <2>6, <2>7
<1>7. CASE f = "jks"
  <2> DEFINE es == [a \in {"certkit"} |-> KeyEntry(p, b.key, WrittenCerts(b))]
  <2>1. d.kind = "jks" /\ d.pass = p /\ d.entries = es
    BY <1>1, <1>7 DEF FileOf, JKSData
  <2>2. b.key \in NormalKey
    BY <1>1, <1>7 DEF KeyBearing
  <2>3. /\ DOMAIN d.entries = {"certkit"}
        /\ q = p => BundleFromKeystoreEntry(d.entries, "certkit", q)
                        = Ok(LeafBundle(b.leaf, b.key, ParsedChain(b)))
    BY <1>1, <2>1, <2>2, KeystoreReadsBack
  <2> HIDE DEF es
  <2>4. Cardinality({"certkit"}) = 1 /\ {"certkit"} # {} /\ (CHOOSE a \in {"certkit"} : TRUE) = "certkit"
    BY FS_Singleton
  <2>5. NativeParse(d, q) = ParseJKS(d, q)
    BY <2>1 DEF NativeParse
  <2>6. q = p => ParseJKS(d, q) = BundleFromKeystoreEntry(d.entries, "certkit", q)
    BY <2>1, <2>3, <2>4 DEF ParseJKS, LoadKeystore
  <2>7. q # p => ParseJKS(d, q) = Fail("wrong_passphrase")
    BY <2>1 DEF ParseJKS, LoadKeystore
  <2>8. Opens(f, p, q) <=> q = p
    BY <1>7 DEF Opens, KeyBearing
  <2>9. ReadBack(b, f) = Ok(LeafBundle(b.leaf, b.key, ParsedChain(b)))
    BY <1>7 DEF ReadBack
  <2> QED
    BY <1>3, <1>7, <2>1, <2>3, <2>5, <2>6, <2>7, <2>8, <2>9
<1> QED
  BY <1>4, <1>5, <1>6, <1>7

(* A file of any format holds what was written and opens with nothing but  *)
(* its passphrase.                                                         *)
LEMMA NativeReadsBack ==
    ASSUME NEW b, NEW f, NEW p, NEW flukes, NEW d, Writes(b, f, p, flukes, d), NEW q
    PROVE  /\ d.kind = IF f \in {"der", "pkcs7", "pkcs12", "jks"} THEN f ELSE "pem"
           /\ Opens(f, p, q) => NativeParse(d, q) = ReadBack(b, f)
           /\ ~Opens(f, p, q) => NativeParse(d, q).err # "none"
<1>1. f \in {"der", "pkcs7", "pkcs12", "jks"} \/ f \in {"pem", "pem-cert", "pem-key", "pem-fullchain"}
  BY DEF Writes, Format
<1>2. CASE f \in {"der", "pkcs7", "pkcs12", "jks"}
  BY <1>2, BinaryReadsBack
<1>3. CASE f \in {"pem", "pem-cert", "pem-key", "pem-fullchain"}
  BY <1>3, PEMReadsBack
<1> QED
  BY <1>1, <1>2, <1>3

(* ParseEntry opens the entry of a written keystore and nothing else.      *)
LEMMA EntryReadsBack ==
    ASSUME NEW b, NEW f, NEW p, NEW flukes, NEW d, Writes(b, f, p, flukes, d), NEW q, NEW a
    PROVE  /\ f = "jks" /\ a = "certkit" => ParseEntry(d, q, a) = NativeParse(d, q)
           /\ ~(f = "jks" /\ a = "certkit") => ParseEntry(d, q, a).err # "none"
<1>1. d.kind = IF f \in {"der", "pkcs7", "pkcs12", "jks"} THEN f ELSE "pem"
  BY NativeReadsBack
<1>2. Fail("wrong_passphrase").err # "none" /\ Fail("unrecognized").err # "none"
  BY DEF Fail
<1>3. CASE f # "jks"
  <2>1. d.kind # "jks"
    BY <1>1, <1>3
  <2>2. ParseEntry(d, q, a) = Fail("unrecognized")
    BY <2>1 DEF ParseEntry, LoadKeystore
  <2> QED
    BY <1>2, <1>3, <2>2
<1>4. CASE f = "jks"
  <2>1. b.leaf \in Cert /\ b.key \in NormalKey /\ IsSource(b)
    BY <1>4, ExportCases DEF Writes, KeyBearing
  <2>2. d = FileOf(b, f, p, EncodeKeyPEM(b.key, p, flukes))
    BY ExportCases
  <2> DEFINE es == [x \in {"certkit"} |-> KeyEntry(p, b.key, WrittenCerts(b))]
  <2>3. d.kind = "jks" /\ d.pass = p /\ d.entries = es
    BY <1>4, <2>2 DEF FileOf, JKSData
  <2>4. /\ DOMAIN d.entries = {"certkit"}
        /\ a # "certkit" => BundleFromKeystoreEntry(d.entries, a, q) = Fail("unrecognized")
    BY <2>1, <2>3, KeystoreReadsBack
  <2> HIDE DEF es
  <2>5. Cardinality({"certkit"}) = 1 /\ {"certkit"} # {} /\ (CHOOSE x \in {"certkit"} : TRUE) = "certkit"
    BY FS_Singleton
  <2>6. NativeParse(d, q) = ParseJKS(d, q)
    BY <2>3 DEF NativeParse
  <2>7. CASE q # p
    <3>1. ParseEntry(d, q, a) = Fail("wrong_passphrase") /\ ParseJKS(d, q) = Fail("wrong_passphrase")
      BY <2>3, <2>7 DEF ParseEntry, ParseJKS, LoadKeystore
    <3> QED
      BY <1>2, <2>6, <3>1
  <2>8. CASE q = p
    <3>1. ParseEntry(d, q, a) = BundleFromKeystoreEntry(d.entries, a, q)
      BY <2>3, <2>8 DEF ParseEntry, LoadKeystore
    <3>2. ParseJKS(d, q) = BundleFromKeystoreEntry(d.entries, "certkit", q)
      BY <2>3, <2>4, <2>5, <2>8 DEF ParseJKS, LoadKeystore
    <3> QED
      BY <1>2, <1>4, <2>4, <2>6, <3>1, <3>2
  <2> QED
    BY <2>7, <2>8
<1> QED
  BY <1>3, <1>4

(* Whatever Export writes is a container again.                            *)
LEMMA WrittenIsContainer ==
    ASSUME NEW b, NEW f, NEW p, NEW flukes, NEW d, Writes(b, f, p, flukes, d)
    PROVE  IsContainer(d)
<1> DEFINE kb == EncodeKeyPEM(b.key, p, flukes)
           t == WrittenCerts(b)
<1>1. /\ d = FileOf(b, f, p, kb)
      /\ f \in KeyBearing => b.key \in NormalKey
      /\ f \in {"der", "pkcs7", "pkcs12", "jks"} => b.leaf \in Cert
      /\ IsSource(b) /\ f \in Format /\ p \in Pass /\ flukes \in SUBSET (Pass \ {p})
  BY ExportCases DEF Writes
<1>2. b.leaf \in Cert \cup {Nil}
  BY <1>1, ChainType
<1>3. b.leaf \in Cert => t \in Seq(Cert)
  BY <1>1, ChainType
<1>4. \A s \in Seq(Block) : IsContainer(PEMData(s))
  BY DEF IsContainer, PEMData
<1>5. PICK x \in Block : IsPrivateKeyBlock(x) /\ ~IsCertificateBlock(x)
  <2> DEFINE x == PEM("PRIVATE KEY", Noise)
  <2>1. x \in Block /\ x.type = "PRIVATE KEY"
    BY PEMBlock DEF DERBlob, KeyBlockType
  <2> HIDE DEF x
  <2> QED
    BY <2>1 DEF IsPrivateKeyBlock, IsCertificateBlock, KeyBlockType, CertBlockType
<1>6. ASSUME NEW y \in Block, IsPrivateKeyBlock(y), ~IsCertificateBlock(y)
      PROVE  /\ LeafBlocks(b) \o <<y>> \o ChainBlocks(b) \in Seq(Block)
             /\ LeafBlocks(b) \o ChainBlocks(b) \in Seq(Block)
             /\ LeafBlocks(b) \in Seq(Block)
  <2>1. CASE b.leaf \in Cert
    BY <1>1, <1>6, <2>1, FilesLaid DEF Laid
  <2>2. CASE b.leaf = Nil
    <3>1. <<y>> \in Seq(Block) /\ <<>> \in Seq(Block)
      OBVIOUS
    <3> QED
      BY <1>1, <2>2, <3>1, LeaflessLaid
  <2> QED
    BY <1>2, <2>1, <2>2
<1>7. f \in {"pem", "pem-key"} => kb \in Block /\ IsPrivateKeyBlock(kb) /\ ~IsCertificateBlock(kb)
  BY <1>1, KeyBlockReadsBack DEF KeyBearing
<1> HIDE DEF t
<1>8. CASE f = "pem"
  <2>1. d = PEMData(LeafBlocks(b) \o <<kb>> \o ChainBlocks(b))
    BY <1>1, <1>8 DEF FileOf
  <2> QED
    BY <1>4, <1>6, <1>7, <1>8, <2>1
<1>9. CASE f = "pem-key"
  <2>1. d = PEMData(<<kb>>)
    BY <1>1, <1>9 DEF FileOf
  <2> HIDE DEF kb
  <2>2. <<kb>> \in Seq(Block)
    BY <1>7, <1>9
  <2> QED
    BY <1>4, <2>1, <2>2
<1>10. CASE f = "pem-cert"
  <2>1. d = PEMData(LeafBlocks(b))
    BY <1>1, <1>10 DEF FileOf
  <2> QED
    BY <1>4, <1>5, <1>6, <2>1
<1>11. CASE f = "pem-fullchain"
  <2>1. d = PEMData(LeafBlocks(b) \o ChainBlocks(b))
    BY <1>1, <1>11 DEF FileOf
  <2> QED
    BY <1>4, <1>5, <1>6, <2>1
<1>12. CASE f = "der"
  BY <1>1, <1>12 DEF FileOf, DERData, IsContainer
<1>13. CASE f = "pkcs7"
  BY <1>1, <1>3, <1>13 DEF FileOf, PKCS7Data, IsContainer, t
<1>14. CASE f = "pkcs12"
  <2>1. b.key.key \in Key
    BY <1>1, <1>14, NormalKeyFacts DEF KeyBearing
  <2>2. d = PKCS12Data(p, b.key.key, t, TRUE)
    BY <1>1, <1>14 DEF FileOf, t
  <2>3. ASSUME NEW k \in Key \cup {Nil}, NEW cs \in Seq(Cert)
        PROVE  PKCS12Data(p, k, cs, TRUE) \in [kind : {"pkcs12"}, pass : Pass, key : Key \cup {Nil},
                                               certs : Seq(Cert), visible : BOOLEAN]
    BY <1>1 DEF PKCS12Data
  <2>4. t \in Seq(Cert)
    BY <1>1, <1>3, <1>14
  <2>5. d \in [kind : {"pkcs12"}, pass : Pass, key : Key \cup {Nil}, certs : Seq(Cert), visible : BOOLEAN]
    BY <2>1, <2>2, <2>3, <2>4
  <2> QED
    BY <2>5, Zenon DEF IsContainer
<1>15. CASE f = "jks"
  <2> DEFINE e == KeyEntry(p, b.key, t)
             es == [a \in {"certkit"} |-> e]
  <2>1. d = JKSData(p, es)
    BY <1>1, <1>15 DEF FileOf, t
  <2>2. b.key \in KeyDER
    BY <1>1, <1>15, NormalKeyType DEF KeyBearing
  <2>3. t \in Seq(Cert \cup {Noise})
    BY <1>1, <1>3, <1>15, SeqMonotonic
  <2>4. e \in KeystoreEntry
    BY <1>1, <2>2, <2>3 DEF KeyEntry, KeystoreEntry
  <2> HIDE DEF e
  <2>5. DOMAIN es = {"certkit"} /\ es["certkit"] = e
    OBVIOUS
  <2> HIDE DEF es
  <2>6. d.kind = "jks" /\ d.pass = p /\ d.entries = es
    BY <2>1 DEF JKSData
  <2>7. d = JKSData(d.pass, d.entries) /\ d.pass \in Pass
    BY <1>1, <2>1, <2>6
  <2>8. DOMAIN d.entries \subseteq Alias /\ IsFiniteSet(DOMAIN d.entries)
    BY <2>5, <2>6, FilesAssumption, FS_Singleton
  <2>9. \A a \in DOMAIN d.entries : d.entries[a] \in KeystoreEntry
    BY <2>4, <2>5, <2>6
  <2> QED
    BY <2>6, <2>7, <2>8, <2>9 DEF IsContainer
<1> QED
  BY <1>1, <1>8, <1>9, <1>10, <1>11, <1>12, <1>13, <1>14, <1>15 DEF Format

-----------------------------------------------------------------------------
(* What a conversion keeps.                                                *)

(* What is read back from a file b was written to has the leaf of b, none, *)
(* or an end entity; and an end entity is not replaced.                    *)
KeepsLeaf(b, r) ==
    /\ r.bundle.leaf = Nil \/ r.bundle.leaf = b.leaf \/ r.bundle.leaf \notin CA
    /\ b.leaf \notin CA => r.bundle.leaf = Nil \/ r.bundle.leaf = b.leaf

LEMMA ResultFields ==
    /\ \A b : Ok(b).bundle = b /\ Ok(b).err = "none"
    /\ \A e : Fail(e).bundle.leaf = Nil /\ Fail(e).err = e
    /\ \A as : Multiple(as).bundle.leaf = Nil /\ Multiple(as).err = "multiple"
    /\ \A k : KeyBundle(k).leaf = Nil
    /\ \A c, k, cs : LeafBundle(c, k, cs).leaf = c
<1>1. \A b : Ok(b).bundle = b /\ Ok(b).err = "none"
  BY DEF Ok
<1>2. EmptyBundle.leaf = Nil
  BY DEF EmptyBundle
<1>3. \A e : Fail(e).bundle = EmptyBundle /\ Fail(e).err = e
  BY DEF Fail
<1>4. \A as : Multiple(as).bundle.leaf = Nil /\ Multiple(as).err = "multiple"
  BY <1>2 DEF Multiple, Fail
<1>5. \A k : KeyBundle(k).leaf = Nil
  BY DEF KeyBundle, EmptyBundle
<1>6. \A c, k, cs : LeafBundle(c, k, cs).leaf = c
  BY DEF LeafBundle
<1> QED
  BY <1>1, <1>2, <1>3, <1>4, <1>5, <1>6

LEMMA ClassifiedKeepsLeaf ==
    ASSUME NEW b, IsSource(b), b.leaf \in Cert, NEW k
    PROVE  KeepsLeaf(b, Ok(ClassifiedBundle(WrittenCerts(b), k)))
<1> DEFINE t == WrittenCerts(b)
           r == Ok(ClassifiedBundle(t, k))
<1>1. t \in Seq(Cert) /\ Joined(t, <<b.leaf>>, ParsedChain(b)) /\ ParsedChain(b) \in Seq(Cert)
  BY ChainType
<1> HIDE DEF t
<1>2. Len(<<b.leaf>>) = 1 /\ <<b.leaf>>[1] = b.leaf /\ 1 \in 1..1
  OBVIOUS
<1>3. t[1] = b.leaf
  BY <1>1, <1>2 DEF Joined
<1>4. r.bundle.leaf = t[LeafIndex(t)]
  BY DEF ClassifiedBundle, LeafBundle, Ok
<1>5. CASE EndEntities(t) = {}
  <2>1. LeafIndex(t) = 1
    BY <1>5 DEF LeafIndex
  <2> QED
    BY <1>3, <1>4, <2>1 DEF KeepsLeaf, t
<1>6. CASE EndEntities(t) # {}
  <2>1. LeafIndex(t) = Min(EndEntities(t))
    BY <1>6 DEF LeafIndex
  <2>2. EndEntities(t) \in SUBSET Nat
    BY <1>1, LenProperties DEF EndEntities
  <2>3. LeafIndex(t) \in EndEntities(t)
    BY <1>6, <2>1, <2>2, MinInSet
  <2>4. r.bundle.leaf \notin CA
    BY <1>4, <2>3 DEF EndEntities
  <2>5. ASSUME b.leaf \notin CA
        PROVE  r.bundle.leaf = b.leaf
    <3>1. ClassifiedBundle(t, k) = LeafBundle(b.leaf, k, ParsedChain(b))
      BY <1>1, <2>5, ClassifiedFirst
    <3> QED
      BY <3>1, ResultFields
  <2> QED
    BY <2>4, <2>5 DEF KeepsLeaf, t
<1> QED
  BY <1>5, <1>6

LEMMA ReadBackKeepsLeaf ==
    ASSUME NEW b, NEW f, NEW p, NEW flukes, NEW d, Writes(b, f, p, flukes, d)
    PROVE  KeepsLeaf(b, ReadBack(b, f))
<1>1. IsSource(b) /\ f \in Format
  BY DEF Writes
<1>2. b.leaf \in Cert \cup {Nil} /\ (f \in {"pkcs7", "jks", "pkcs12", "der"} => b.leaf \in Cert)
  BY <1>1, ChainType, ExportCases
<1>3. \A r : r.bundle.leaf \in {Nil, b.leaf} => KeepsLeaf(b, r)
  BY DEF KeepsLeaf
<1>4. CASE f = "pem"
  BY <1>1, <1>2, <1>3, <1>4, ResultFields, ClassifiedKeepsLeaf DEF ReadBack
<1>5. CASE f = "pem-fullchain"
  BY <1>1, <1>2, <1>3, <1>5, ResultFields, ClassifiedKeepsLeaf DEF ReadBack
<1>6. CASE f = "pkcs7"
  BY <1>1, <1>2, <1>3, <1>6, ResultFields, ClassifiedKeepsLeaf DEF ReadBack
<1>7. CASE f \in {"pem-cert", "pem-key", "der", "pkcs12", "jks"}
  BY <1>3, <1>7, ResultFields DEF ReadBack
<1> QED
  BY <1>1, <1>4, <1>5, <1>6, <1>7 DEF Format

(* The bundle a file gives back is what the format has room for.           *)
LEMMA ReadBackIsProjection ==
    ASSUME NEW b, NEW f, NEW p, NEW flukes, NEW d, Writes(b, f, p, flukes, d),
           ~(b.leaf = Nil /\ f \in {"pem-cert", "pem-fullchain"}),
           ~(f = "pkcs7" /\ Cardinality(EndEntities(WrittenCerts(b))) > 1)
    PROVE  /\ ReadBack(b, f).err = "none"
           /\ Stable(b) \/ f \in {"pkcs12", "jks", "der", "pem-cert", "pem-key"}
                => ReadBack(b, f) = Ok(Project(f, b))
<1> DEFINE t == WrittenCerts(b)
           pc == ParsedChain(b)
<1>1. IsSource(b) /\ f \in Format
  BY DEF Writes
<1>2. b.leaf \in Cert \cup {Nil} /\ (f \in {"pkcs7", "jks", "pkcs12", "der"} => b.leaf \in Cert)
  BY <1>1, ChainType, ExportCases
<1>3. \A c \in Cert : c # Nil
  BY MaterialAssumption DEF DERBlob
<1>4. ASSUME NEW k, b.leaf \in Cert, Stable(b)
      PROVE  ClassifiedBundle(t, k) = LeafBundle(b.leaf, k, pc)
  BY <1>1, <1>4, ChainType, ClassifiedFirst DEF Stable
<1> HIDE DEF t, pc
<1>5. CASE f = "pem"
  <2>1. Project(f, b) = IF b.leaf = Nil THEN KeyBundle(b.key) ELSE LeafBundle(b.leaf, b.key, pc)
    BY <1>5 DEF Project, KeyBearing, pc
  <2>2. ReadBack(b, f) = IF b.leaf = Nil THEN Ok(KeyBundle(b.key)) ELSE Ok(ClassifiedBundle(t, b.key))
    BY <1>5 DEF ReadBack, t
  <2> QED
    BY <1>2, <1>4, <1>5, <2>1, <2>2, ResultFields
<1>6. CASE f = "pem-fullchain"
  <2>1. Project(f, b) = LeafBundle(b.leaf, Nil, pc)
    BY <1>6 DEF Project, KeyBearing, pc
  <2>2. ReadBack(b, f) = Ok(ClassifiedBundle(t, Nil))
    BY <1>6 DEF ReadBack, t
  <2> QED
    BY <1>2, <1>4, <1>6, <2>1, <2>2, ResultFields
<1>7. CASE f = "pkcs7"
  <2>1. Project(f, b) = LeafBundle(b.leaf, Nil, pc)
    BY <1>2, <1>3, <1>7 DEF Project, KeyBearing, pc
  <2>2. ReadBack(b, f) = Ok(ClassifiedBundle(t, Nil))
    BY <1>7 DEF ReadBack, t
  <2> QED
    BY <1>2, <1>4, <1>7, <2>1, <2>2, ResultFields
<1>8. CASE f \in {"pem-cert", "der"}
  <2>1. Project(f, b) = LeafBundle(b.leaf, Nil, <<>>)
    BY <1>2, <1>3, <1>8 DEF Project, KeyBearing
  <2>2. ReadBack(b, f) = Ok(LeafBundle(b.leaf, Nil, <<>>))
    BY <1>8 DEF ReadBack
  <2> QED
    BY <2>1, <2>2, ResultFields
<1>9. CASE f \in {"pkcs12", "jks"}
  <2>1. Project(f, b) = LeafBundle(b.leaf, b.key, pc)
    BY <1>2, <1>3, <1>9 DEF Project, KeyBearing, pc
  <2>2. ReadBack(b, f) = Ok(LeafBundle(b.leaf, b.key, pc))
    BY <1>9 DEF ReadBack, pc
  <2> QED
    BY <2>1, <2>2, ResultFields
<1>10. CASE f = "pem-key"
  <2>1. Project(f, b) = KeyBundle(b.key)
    BY <1>10 DEF Project, KeyBearing
  <2>2. ReadBack(b, f) = Ok(KeyBundle(b.key))
    BY <1>10 DEF ReadBack
  <2> QED
    BY <2>1, <2>2, ResultFields
<1> QED
  BY <1>1, <1>5, <1>6, <1>7, <1>8, <1>9, <1>10 DEF Format

-----------------------------------------------------------------------------
(* The inductive invariant.  A file not foreign is what Export wrote for   *)
(* the bundle, format and passphrase remembered as its origin, and that    *)
(* bundle came out of a parser; the result at hand is what the last call   *)
(* makes of the file; and once the leaf has drifted, the leaf at hand is   *)
(* an end entity, which no further conversion replaces.                    *)

WrittenFrom(o, d) == \E flukes : Writes(o.bundle, o.format, o.pass, flukes, d)

ReadOf(d, how) ==
    IF how.alias = Nil THEN Parse(d, how.pass) ELSE ParseEntry(d, how.pass, how.alias)

FileInv ==
    /\ IsContainer(file)
    /\ origin \in Origin \cup {Foreign}
    /\ origin # Foreign => WrittenFrom(origin, file)

ResultInv ==
    /\ res = Pending \/ IsAnswer(res)
    /\ opened \in Reading \cup {Unopened}
    /\ opened # Unopened => res = ReadOf(file, opened)

DriftInv ==
    /\ drifts \in {0, 1}
    /\ drifts = 1 =>
          /\ origin # Foreign
          /\ opened # Unopened => res.bundle.leaf \notin CA
          /\ MayRead => origin.bundle.leaf \notin CA

IInv == FileInv /\ ResultInv /\ DriftInv

LEMMA ExportWrites ==
    ASSUME NEW b, NEW f, NEW p, NEW flukes, Export(b, f, p, flukes).err = "none"
    PROVE  Export(b, f, p, flukes) = Written(Export(b, f, p, flukes).data)
<1>1. ASSUME NEW d
      PROVE  Written(d) = Written(Written(d).data)
  <2>1. Written(d).data = d
    BY DEF Written
  <2> QED
    BY <2>1
<1>2. \A e : NotWritten(e).err = e
  BY DEF NotWritten
<1>3. f \in Format
  <2>1. f \notin Format => Export(b, f, p, flukes) = NotWritten("unrecognized")
    BY DEF Export, Format
  <2> QED
    BY <1>2, <2>1
<1>4. CASE f \in {"pem-cert", "pem-fullchain"}
  BY <1>1, <1>4 DEF Export
<1>5. CASE f = "pem"
  BY <1>1, <1>2, <1>5 DEF Export, ExportPEMBundle
<1>6. CASE f = "pem-key"
  BY <1>1, <1>2, <1>6 DEF Export, ExportPEMKeyOnly
<1>7. CASE f = "der"
  BY <1>1, <1>2, <1>7 DEF Export, ExportDER
<1>8. CASE f = "pkcs7"
  BY <1>1, <1>2, <1>8 DEF Export, ExportPKCS7
<1>9. CASE f = "pkcs12"
  BY <1>1, <1>2, <1>9 DEF Export, ExportPKCS12
<1>10. CASE f = "jks"
  BY <1>1, <1>2, <1>10 DEF Export, ExportJKS
<1> QED
  BY <1>3, <1>4, <1>5, <1>6, <1>7, <1>8, <1>9, <1>10 DEF Format

(* Every reading of a container is an answer.                              *)
LEMMA ReadAnswers ==
    ASSUME NEW d, IsContainer(d), NEW how
    PROVE  IsAnswer(ReadOf(d, how))
BY ParseAnswers, JKSAnswers DEF ReadOf

(* Of a written file it is what the file holds, or an error.               *)
LEMMA ReadCases ==
    ASSUME NEW o, NEW d, WrittenFrom(o, d), NEW how
    PROVE  /\ ReadOf(d, how) = ReadBack(o.bundle, o.format) \/ ReadOf(d, how).err # "none"
           /\ ~Opens(o.format, o.pass, how.pass) => ReadOf(d, how).err # "none"
<1> DEFINE b == o.bundle
           f == o.format
           p == o.pass
           q == how.pass
<1>1. PICK flukes : Writes(b, f, p, flukes, d)
  BY DEF WrittenFrom
<1> HIDE DEF b, f, p, q
<1>2. /\ Opens(f, p, q) => NativeParse(d, q) = ReadBack(b, f)
      /\ ~Opens(f, p, q) => NativeParse(d, q).err # "none"
  BY <1>1, NativeReadsBack
<1>3. ReadOf(d, how) = NativeParse(d, q) \/ ReadOf(d, how).err # "none"
  <2>1. d.kind \in Kind
    BY <1>1, WrittenIsContainer, KindOfContainer
  <2>2. Parse(d, q) = NativeParse(d, q) \/ Parse(d, q).err # "none"
    <3>1. Fail("unrecognized").err # "none"
      BY ResultFields
    <3> QED
      BY <2>1, <3>1, NativeOrNothing
  <2>3. \A a : ParseEntry(d, q, a) = NativeParse(d, q) \/ ParseEntry(d, q, a).err # "none"
    BY <1>1, EntryReadsBack
  <2> QED
    BY <2>2, <2>3 DEF ReadOf, q
<1> QED
  BY <1>2, <1>3 DEF b, f, p, q

LEMMA ReadKeepsLeaf ==
    ASSUME NEW o, NEW d, WrittenFrom(o, d), NEW how
    PROVE  KeepsLeaf(o.bundle, ReadOf(d, how))
<1>1. PICK flukes : Writes(o.bundle, o.format, o.pass, flukes, d)
  BY DEF WrittenFrom
<1>2. IsAnswer(ReadOf(d, how))
  BY <1>1, WrittenIsContainer, ReadAnswers
<1>3. CASE ReadOf(d, how) = ReadBack(o.bundle, o.format)
  BY <1>1, <1>3, ReadBackKeepsLeaf
<1>4. CASE ReadOf(d, how).err # "none"
  <2>1. ReadOf(d, how).bundle.leaf = Nil
    BY <1>2, <1>4 DEF IsAnswer, EmptyBundle
  <2> QED
    BY <2>1 DEF KeepsLeaf
<1> QED
  BY <1>3, <1>4, ReadCases

LEMMA InitHolds == Init => IInv
BY FilesAssumption DEF Init, IInv, FileInv, ResultInv, DriftInv

(* Open and OpenEntry.                                                     *)
LEMMA ReadingKeepsInv ==
    ASSUME IInv, MayRead, NEW how \in Reading, Read(ReadOf(file, how), how)
    PROVE  IInv'
<1> DEFINE r == ReadOf(file, how)
<1>1. IsAnswer(r)
  BY ReadAnswers DEF IInv, FileInv
<1>2. /\ res' = r /\ opened' = how /\ file' = file /\ origin' = origin
      /\ drifts' = IF Drifted(r) /\ drifts < MaxDrifts THEN drifts + 1 ELSE drifts
  BY DEF Read
<1>3. FileInv'
  BY <1>2 DEF IInv, FileInv, IsContainer, WrittenFrom, Writes, IsSource
<1>4. how # Unopened
  BY SentinelAssumption
<1>5. ResultInv'
  <2>1. ReadOf(file, how)' = ReadOf(file, how)
    BY <1>2
  <2> QED
    BY <1>1, <1>2 DEF ResultInv
<1>6. r.err # "none" => r.bundle.leaf = Nil
  BY <1>1 DEF IsAnswer, EmptyBundle
<1>7. Nil \notin CA
  BY MaterialAssumption DEF DERBlob
<1>8. origin # Foreign => KeepsLeaf(origin.bundle, r)
  BY ReadKeepsLeaf DEF IInv, FileInv
<1> HIDE DEF r
<1>9. DriftInv'
  <2>1. CASE drifts = 0 /\ ~Drifted(r)
    BY <1>2, <2>1 DEF DriftInv
  <2>2. CASE drifts = 0 /\ Drifted(r)
    <3>1. drifts' = 1
      BY <1>2, <2>2 DEF MaxDrifts
    <3>2. origin # Foreign /\ r.bundle.leaf # Nil /\ r.bundle.leaf \notin CA
      BY <1>8, <2>2 DEF Drifted, KeepsLeaf
    <3>3. ~MayRead'
      BY <1>2, <1>4, <1>6, <3>2 DEF MayRead
    <3> QED
      BY <1>2, <3>1, <3>2, <3>3 DEF DriftInv
  <2>3. CASE drifts = 1
    <3>1. origin # Foreign /\ origin.bundle.leaf \notin CA
      BY <2>3 DEF IInv, DriftInv
    <3>2. r.bundle.leaf = Nil \/ r.bundle.leaf = origin.bundle.leaf
      BY <1>8, <3>1 DEF KeepsLeaf
    <3>3. drifts' = 1
      BY <1>2, <2>3, <3>2 DEF Drifted
    <3> QED
      BY <1>2, <1>7, <3>1, <3>2, <3>3 DEF DriftInv
  <2> QED
    BY <2>1, <2>2, <2>3 DEF IInv, DriftInv
<1> QED
  BY <1>3, <1>5, <1>9 DEF IInv

LEMMA SavingKeepsInv ==
    ASSUME IInv, NEW f \in Format, NEW p \in Pass, NEW flukes \in SUBSET (Pass \ {p}),
           Save(f, p, flukes)
    PROVE  IInv'
<1> DEFINE out == Export(res.bundle, f, p, flukes)
           o == [bundle |-> res.bundle, format |-> f, pass |-> p]
<1>1. /\ opened # Unopened /\ out.err = "none"
      /\ file' = out.data /\ origin' = o /\ opened' = Unopened /\ res' = res /\ drifts' = drifts
  BY DEF Save
<1>2. IsAnswer(res)
  BY <1>1, ReadAnswers DEF IInv, FileInv, ResultInv
<1>3. IsSource(res.bundle) /\ res.bundle \in Bundle
  BY <1>2, AnswerIsSource DEF IsSource
<1>4. Writes(res.bundle, f, p, flukes, out.data)
  BY <1>1, <1>3, ExportWrites DEF Writes
<1>5. WrittenFrom(o, out.data)
  <2>1. o.bundle = res.bundle /\ o.format = f /\ o.pass = p
    OBVIOUS
  <2> HIDE DEF o
  <2> QED
    BY <1>4, <2>1 DEF WrittenFrom
<1>6. o \in Origin /\ o # Foreign
  BY <1>3, SentinelAssumption DEF Origin
<1>7. IsContainer(out.data)
  BY <1>4, WrittenIsContainer
<1> HIDE DEF out
<1>8. FileInv'
  <2> HIDE DEF o
  <2>1. IsContainer(file') /\ WrittenFrom(origin', file')
    BY <1>1, <1>5, <1>7
  <2> QED
    BY <1>1, <1>6, <2>1 DEF FileInv
<1>9. ResultInv'
  BY <1>1, <1>2 DEF ResultInv
<1>10. DriftInv'
  <2>1. o.bundle = res.bundle
    OBVIOUS
  <2> HIDE DEF o
  <2> QED
    BY <1>1, <1>6, <2>1 DEF IInv, DriftInv, MayRead
<1> QED
  BY <1>8, <1>9, <1>10 DEF IInv

LEMMA NextKeepsInv == IInv /\ [Next]_vars => IInv'
<1> SUFFICES ASSUME IInv, [Next]_vars PROVE IInv'
  OBVIOUS
<1>1. ASSUME NEW p \in Pass, Open(p) PROVE IInv'
  <2> DEFINE how == [pass |-> p, alias |-> Nil]
  <2>1. how \in Reading /\ ReadOf(file, how) = Parse(file, p)
    BY DEF Reading, ReadOf
  <2>2. MayRead /\ Read(Parse(file, p), how)
    BY <1>1 DEF Open
  <2> HIDE DEF how
  <2> QED
    BY <2>1, <2>2, ReadingKeepsInv
<1>2. ASSUME NEW p \in Pass, NEW alias \in Alias, OpenEntry(p, alias) PROVE IInv'
  <2> DEFINE how == [pass |-> p, alias |-> alias]
  <2>1. how \in Reading /\ ReadOf(file, how) = ParseEntry(file, p, alias)
    BY FilesAssumption DEF Reading, ReadOf
  <2>2. MayRead /\ Read(ParseEntry(file, p, alias), how)
    BY <1>2 DEF OpenEntry
  <2> HIDE DEF how
  <2> QED
    BY <2>1, <2>2, ReadingKeepsInv
<1>3. ASSUME NEW f \in Format, NEW p \in Pass, NEW flukes \in SUBSET (Pass \ {p}), Save(f, p, flukes)
      PROVE  IInv'
  BY <1>3, SavingKeepsInv
<1>4. CASE UNCHANGED vars
  BY <1>4 DEF vars, IInv, FileInv, ResultInv, DriftInv, MayRead
<1> QED
  BY <1>1, <1>2, <1>3, <1>4 DEF Next

LEMMA ConversionInvariant == Spec => []IInv
BY InitHolds, NextKeepsInv, PTL DEF Spec

-----------------------------------------------------------------------------
(* The theorems.                                                           *)

(* Whatever files a caller starts from and however it converts them, the   *)
(* state keeps its type; the key of every bundle Parse returns is PKCS#8.  *)
THEOREM TypeCorrect == Spec => []TypeOK
<1>1. IInv => TypeOK
  <2> SUFFICES ASSUME IInv PROVE TypeOK
    OBVIOUS
  <2>1. NormalKey \cup {Nil} = PlainKey
    BY DEF NormalKey, PlainKey
  <2>2. res = Pending \/ (res \in Result /\ res.bundle.key \in PlainKey)
    BY <2>1 DEF IInv, ResultInv, IsAnswer
  <2>3. drifts \in 0..MaxDrifts
    BY DEF IInv, DriftInv, MaxDrifts
  <2> QED
    BY <2>2, <2>3 DEF IInv, FileInv, ResultInv, TypeOK
<1> QED
  BY <1>1, ConversionInvariant, PTL

(* Read with another passphrase than it was written with, a file gives an  *)
(* error and an empty bundle: decodePrivateKeyBlock, ParsePKCS12, ParseJKS *)
(* and ParseEntry never return the rest of the file without its key.       *)
THEOREM KeyIsGuarded == Spec => []KeyGuarded
<1>1. IInv => KeyGuarded
  <2> SUFFICES ASSUME IInv, origin # Foreign, opened # Unopened, origin.format \in KeyBearing,
                      origin.pass # NoPass, opened.pass # origin.pass
               PROVE  res.err # "none" /\ res.bundle = EmptyBundle
    BY DEF KeyGuarded
  <2>1. ~Opens(origin.format, origin.pass, opened.pass)
    BY DEF Opens
  <2>2. res = ReadOf(file, opened) /\ WrittenFrom(origin, file) /\ IsContainer(file)
    BY DEF IInv, FileInv, ResultInv
  <2>3. res.err # "none"
    BY <2>1, <2>2, ReadCases
  <2> QED
    BY <2>2, <2>3, ReadAnswers DEF IsAnswer
<1> QED
  BY <1>1, ConversionInvariant, PTL

(* However many conversions are chained, the leaf changes at most once.    *)
THEOREM LeafDriftsOnce == Spec => []LeafDriftsAtMostOnce
<1>1. IInv => LeafDriftsAtMostOnce
  BY DEF IInv, DriftInv, LeafDriftsAtMostOnce
<1> QED
  BY <1>1, ConversionInvariant, PTL

(* No certificate of a PKCS#12 archive is in sight.                        *)
LEMMA ArchiveHidesMarks == \A d : d.kind = "pkcs12" => "begin" \notin Marks(d)
<1> SUFFICES ASSUME NEW d, d.kind = "pkcs12" PROVE "begin" \notin Marks(d)
  OBVIOUS
<1>1. VisibleCerts(d) = {}
  BY DEF VisibleCerts
<1>2. Marks(d) \subseteq {"pkcs12OID"}
  BY <1>1 DEF Marks
<1> QED
  BY <1>2

(* A file opened again with its own passphrase gives back what it holds.   *)
LEMMA Recovered ==
    ASSUME IInv, Reopened, ~Unreadable(origin.bundle, origin.format)
    PROVE  LET b == origin.bundle
               f == origin.format
           IN /\ res = ReadBack(b, f)
              /\ res.err = "none"
              /\ Stable(b) \/ f \in {"pkcs12", "jks", "der", "pem-cert", "pem-key"}
                    => res = Ok(Project(f, b))
<1> DEFINE b == origin.bundle
           f == origin.format
           p == origin.pass
           q == opened.pass
<1>1. /\ origin # Foreign /\ opened # Unopened
      /\ opened.alias = Nil \/ (opened.alias = "certkit" /\ f = "jks")
      /\ q = p \/ f \notin KeyBearing
  BY DEF Reopened
<1>2. /\ ~(b.leaf = Nil /\ f \in {"pem-cert", "pem-fullchain"})
      /\ ~(f \in {"der", "pkcs7", "jks"} /\ opened.alias = Nil /\ "begin" \in Marks(file))
      /\ ~(f = "pkcs7" /\ Cardinality(EndEntities(WrittenCerts(b))) > 1)
  BY DEF Unreadable
<1>3. IsContainer(file) /\ WrittenFrom(origin, file) /\ res = ReadOf(file, opened)
  BY <1>1 DEF IInv, FileInv, ResultInv
<1>4. PICK flukes : Writes(b, f, p, flukes, file)
  BY <1>3 DEF WrittenFrom
<1> HIDE DEF b, f, p, q
<1>5. Opens(f, p, q)
  BY <1>1 DEF Opens
<1>6. /\ ReadBack(b, f).err = "none"
      /\ Stable(b) \/ f \in {"pkcs12", "jks", "der", "pem-cert", "pem-key"}
            => ReadBack(b, f) = Ok(Project(f, b))
  BY <1>2, <1>4, ReadBackIsProjection
<1>7. /\ file.kind = IF f \in {"der", "pkcs7", "pkcs12", "jks"} THEN f ELSE "pem"
      /\ NativeParse(file, q) = ReadBack(b, f)
  BY <1>4, <1>5, NativeReadsBack
<1>8. CASE opened.alias = Nil
  <2>1. file.kind \in Kind
    BY <1>3, KindOfContainer
  <2>2. "begin" \in Marks(file) => file.kind = "pem"
    BY <1>2, <1>7, <1>8, ArchiveHidesMarks
  <2>3. Parse(file, q) = NativeParse(file, q)
    BY <1>6, <1>7, <2>1, <2>2, ReadableIsRead
  <2>4. res = ReadBack(b, f)
    BY <1>3, <1>7, <1>8, <2>3 DEF ReadOf, q
  <2> QED
    BY <1>6, <2>4 DEF b, f
<1>9. CASE opened.alias = "certkit" /\ f = "jks"
  <2>1. opened.alias # Nil
    BY <1>9, FilesAssumption
  <2>2. ParseEntry(file, q, opened.alias) = NativeParse(file, q)
    BY <1>4, <1>9, EntryReadsBack
  <2>3. res = ReadBack(b, f)
    BY <1>3, <1>7, <2>1, <2>2 DEF ReadOf, q
  <2> QED
    BY <1>6, <2>3 DEF b, f
<1> QED
  BY <1>1, <1>8, <1>9

(* Whatever Export writes without an error, certkit reads back with the    *)
(* passphrase it was written with, but for the cases Unreadable names.     *)
THEOREM OwnFilesAreReadable == Spec => []OwnFilesReadable
<1>1. IInv => OwnFilesReadable
  BY Recovered DEF OwnFilesReadable
<1> QED
  BY <1>1, ConversionInvariant, PTL

(* Export, then Parse or ParseEntry: the bundle that comes back is the one *)
(* that was written, less what the format has no room for.                 *)
THEOREM RoundTrips == Spec => []RoundTrip
<1>1. IInv => RoundTrip
  BY Recovered DEF RoundTrip
<1> QED
  BY <1>1, ConversionInvariant, PTL

=============================================================================
