------------------------------ MODULE Parsers ------------------------------
(***************************************************************************)
(* parse.go, format.go and the reading half of pkcs8crypt.go as functions: *)
(* what each parser returns for each input.  ParsePEM is the contract of   *)
(* the loop PEMStream models block by block; Parse is the contract of the  *)
(* dispatch ParseDispatch models attempt by attempt.                       *)
(***************************************************************************)
EXTENDS CertKit, Listing, FiniteSetsExt, SequencesExt

CONSTANT Quirk  \* the markers DetectFormat looks for that occur inside a certificate's DER

Marker == {"begin", "jksmagic", "pkcs12OID", "pkcs7OID"}

(* An ASN.1 SEQUENCE cannot start with the keystore magic.                 *)
ASSUME QuirkAssumption == Quirk \in [Cert -> SUBSET (Marker \ {"jksmagic"})]

-----------------------------------------------------------------------------
(* Private keys.                                                           *)

IsCertificateBlock(b) == b.type \in CertBlockType

IsPrivateKeyBlock(b) == b.type \in KeyBlockType

(* Mutant: a PKCS#1 key is kept as it is instead of being re-encoded.      *)
NormalizeKeepsPKCS1(der) ==
    IF der \in KeyDER
    THEN Bytes(IF der.form = "pkcs1" THEN der ELSE PKCS8(der.key))
    ELSE NoBytes("unrecognized")

NormalizeToPKCS8(der) ==
    IF der \in KeyDER THEN Bytes(PKCS8(der.key)) ELSE NoBytes("unrecognized")

(* decryptPKCS8 for "pbes2", x509.DecryptPEMBlock for "rfc1423": whatever  *)
(* does not come out with valid padding is reported as a wrong passphrase. *)
Decrypt(der, scheme, p) ==
    IF der \notin Cipher THEN NoBytes("wrong_passphrase")
    ELSE IF der.scheme = scheme /\ p = der.pass THEN Bytes(der.inner)
    ELSE IF p \in der.flukes THEN Bytes(Noise)
    ELSE NoBytes("wrong_passphrase")

(* Mutant: the legacy header is looked at before the block type.           *)
DecodeLegacyFirst(b, p) ==
    LET plain == IF b.legacy THEN Decrypt(b.der, "rfc1423", p)
                 ELSE IF b.type = "ENCRYPTED PRIVATE KEY" THEN Decrypt(b.der, "pbes2", p)
                 ELSE Bytes(b.der)
    IN IF plain.err = "none" THEN NormalizeToPKCS8(plain.der) ELSE plain

DecodePrivateKeyBlock(b, p) ==
    LET plain == IF b.type = "ENCRYPTED PRIVATE KEY" THEN Decrypt(b.der, "pbes2", p)
                 ELSE IF b.legacy THEN Decrypt(b.der, "rfc1423", p)
                 ELSE Bytes(b.der)
    IN IF plain.err = "none" THEN NormalizeToPKCS8(plain.der) ELSE plain

-----------------------------------------------------------------------------
(* Leaf and chain.  The first certificate that is not a CA is the leaf, or *)
(* the first one if all are; the rest, in order, is the chain.             *)

EndEntities(certs) == {i \in DOMAIN certs : certs[i] \notin CA}

(* Mutant: every end entity is tried and the last one wins (no break).     *)
LeafIndexLast(certs) == IF EndEntities(certs) = {} THEN 1 ELSE Max(EndEntities(certs))

LeafIndex(certs) == IF EndEntities(certs) = {} THEN 1 ELSE Min(EndEntities(certs))

ClassifiedBundle(certs, key) ==
    LET l == LeafIndex(certs) IN LeafBundle(certs[l], key, RemoveAt(certs, l))

-----------------------------------------------------------------------------
(* PEM.                                                                    *)

CertPositions(s) == {i \in DOMAIN s : IsCertificateBlock(s[i]) /\ s[i].der \in Cert}

KeyPositions(s) == {i \in DOMAIN s : IsPrivateKeyBlock(s[i])}

BadKeyPositions(s, p) ==
    {i \in KeyPositions(s) : DecodePrivateKeyBlock(s[i], p).err # "none"}

DersAt(s, o) == [i \in DOMAIN o |-> s[o[i]].der]

(* The certificates of a PEM stream that parse, the key of its last key    *)
(* block, and the error of the first key block that does not decode.       *)
ParsePEM(s, p) ==
    LET keys  == KeyPositions(s)
        bad   == BadKeyPositions(s, p)
        certs == DersAt(s, InOrder(CertPositions(s)))
        key   == IF keys = {} THEN Nil ELSE DecodePrivateKeyBlock(s[Max(keys)], p).der
    IN IF bad # {} THEN Fail(DecodePrivateKeyBlock(s[Min(bad)], p).err)
       ELSE IF certs # <<>> THEN Ok(ClassifiedBundle(certs, key))
       ELSE IF key # Nil THEN Ok(KeyBundle(key))
       ELSE Fail("unrecognized")

-----------------------------------------------------------------------------
(* The inputs Parse meets.  PKCS#12 and PKCS#7 containers, keystores and   *)
(* single certificates are what the libraries certkit calls decode; junk   *)
(* is everything else, truncated or corrupted containers included.         *)

PEMData(blocks) == [kind |-> "pem", blocks |-> blocks]

DERData(c) == [kind |-> "der", cert |-> c]

(* visible: a pkcs-12 OID stands outside the encrypted parts.  key is Nil  *)
(* when the archive holds no private key.                                  *)
PKCS12Data(pass, key, certs, visible) ==
    [kind |-> "pkcs12", pass |-> pass, key |-> key, certs |-> certs, visible |-> visible]

PKCS7Data(certs) == [kind |-> "pkcs7", certs |-> certs]

(* entries maps each alias to a private-key or trusted-certificate entry.  *)
JKSData(pass, entries) == [kind |-> "jks", pass |-> pass, entries |-> entries]

KeyEntry(pass, key, chain) == [tag |-> "key", pass |-> pass, key |-> key, chain |-> chain]

TrustedEntry(c) == [tag |-> "trusted", cert |-> c]

JunkData(marks) == [kind |-> "junk", marks |-> marks]

(* The entries and containers there are, over the material at hand.        *)
KeystoreEntry ==
    [tag : {"key"}, pass : Pass, key : KeyDER \cup {Noise}, chain : Seq(Cert \cup {Noise})]
    \cup [tag : {"trusted"}, cert : Cert \cup {Noise}]

IsContainer(d) ==
    \/ d \in [kind : {"pem"}, blocks : Seq(Block)]
    \/ d \in [kind : {"der"}, cert : Cert]
    \/ d \in [kind : {"pkcs12"}, pass : Pass, key : Key \cup {Nil}, certs : Seq(Cert),
              visible : BOOLEAN]
    \/ d \in [kind : {"pkcs7"}, certs : Seq(Cert)]
    \/ d \in [kind : {"junk"}, marks : SUBSET Marker]
    \/ /\ d.kind = "jks"
       /\ d = JKSData(d.pass, d.entries)
       /\ d.pass \in Pass
       /\ DOMAIN d.entries \subseteq Alias /\ IsFiniteSet(DOMAIN d.entries)
       /\ \A a \in DOMAIN d.entries : d.entries[a] \in KeystoreEntry

Blocks(d) == IF d.kind = "pem" THEN d.blocks ELSE <<>>

EntryCerts(e) == IF e.tag = "key" THEN Range(e.chain) ELSE {e.cert}

VisibleCerts(d) ==
    CASE d.kind = "der"   -> {d.cert}
      [] d.kind = "pkcs7" -> Range(d.certs)
      [] d.kind = "jks"   -> UNION {EntryCerts(d.entries[a]) : a \in DOMAIN d.entries}
      [] OTHER            -> {}

(* The byte patterns DetectFormat finds.  PKCS#12 hides its certificates   *)
(* by encryption; the other binary formats show theirs.                    *)
Marks(d) ==
    (UNION {Quirk[c] : c \in VisibleCerts(d) \cap Cert}) \cup
    CASE d.kind = "pem"    -> IF d.blocks = <<>> THEN {} ELSE {"begin"}
      [] d.kind = "der"    -> {}
      [] d.kind = "pkcs12" -> IF d.visible THEN {"pkcs12OID"} ELSE {}
      [] d.kind = "pkcs7"  -> {"pkcs7OID"}
      [] d.kind = "jks"    -> {"jksmagic"}
      [] d.kind = "junk"   -> d.marks

-----------------------------------------------------------------------------
(* The parsers of the binary formats.                                      *)

ParseDER(d) ==
    IF d.kind = "der" THEN Ok(LeafBundle(d.cert, Nil, <<>>)) ELSE Fail("unrecognized")

(* Mutant: an archive without a private key is accepted.                   *)
ParsePKCS12WithoutKey(d, p) ==
    IF d.kind # "pkcs12" THEN Fail("unrecognized")
    ELSE IF p # d.pass THEN Fail("wrong_passphrase")
    ELSE IF d.certs = <<>> THEN Fail("unrecognized")
    ELSE Ok(LeafBundle(Head(d.certs), PKCS8(d.key), Tail(d.certs)))

ParsePKCS12(d, p) ==
    IF d.kind # "pkcs12" THEN Fail("unrecognized")
    ELSE IF p # d.pass THEN Fail("wrong_passphrase")
    ELSE IF d.key = Nil \/ d.certs = <<>> THEN Fail("unrecognized")
    ELSE Ok(LeafBundle(Head(d.certs), PKCS8(d.key), Tail(d.certs)))

ParsePKCS7(d) ==
    IF d.kind # "pkcs7" \/ d.certs = <<>> THEN Fail("unrecognized")
    ELSE IF Cardinality(EndEntities(d.certs)) > 1
         THEN Multiple({d.certs[i] : i \in EndEntities(d.certs)})
         ELSE Ok(ClassifiedBundle(d.certs, Nil))

(* loadKeystore: the error, or "none".                                     *)
LoadKeystore(d, p) ==
    IF d.kind # "jks" THEN "unrecognized"
    ELSE IF p # d.pass THEN "wrong_passphrase" ELSE "none"

BundleFromKeyEntry(e, p) ==
    IF p # e.pass THEN Fail("wrong_passphrase")
    ELSE IF e.chain = <<>> THEN Fail("unrecognized")
    ELSE LET key == NormalizeToPKCS8(e.key)
         IN IF key.err # "none" THEN Fail(key.err)
            ELSE IF Head(e.chain) \notin Cert THEN Fail("unrecognized")
            ELSE Ok(LeafBundle(Head(e.chain), key.der, Tail(e.chain)))

BundleFromTrustedEntry(e) ==
    IF e.cert \in Cert THEN Ok(LeafBundle(e.cert, Nil, <<>>)) ELSE Fail("unrecognized")

BundleFromKeystoreEntry(entries, alias, p) ==
    IF alias \notin DOMAIN entries THEN Fail("unrecognized")
    ELSE IF entries[alias].tag = "key" THEN BundleFromKeyEntry(entries[alias], p)
    ELSE BundleFromTrustedEntry(entries[alias])

ParseEntry(d, p, alias) ==
    IF LoadKeystore(d, p) # "none" THEN Fail(LoadKeystore(d, p))
    ELSE BundleFromKeystoreEntry(d.entries, alias, p)

(* Mutant: of several entries one is read.                                 *)
ParseJKSAny(d, p) ==
    IF LoadKeystore(d, p) # "none" THEN Fail(LoadKeystore(d, p))
    ELSE LET aliases == DOMAIN d.entries
         IN IF aliases = {} THEN Fail("unrecognized")
            ELSE BundleFromKeystoreEntry(d.entries, CHOOSE a \in aliases : TRUE, p)

ParseJKS(d, p) ==
    IF LoadKeystore(d, p) # "none" THEN Fail(LoadKeystore(d, p))
    ELSE LET aliases == DOMAIN d.entries
         IN IF aliases = {} THEN Fail("unrecognized")
            ELSE IF Cardinality(aliases) > 1 THEN Multiple(aliases)
            ELSE BundleFromKeystoreEntry(d.entries, CHOOSE a \in aliases : TRUE, p)

-----------------------------------------------------------------------------
(* Detection and dispatch.                                                 *)

Format == {"pkcs12", "pem", "pem-cert", "pem-key", "pem-fullchain", "der", "pkcs7", "jks"}

Unknown == "unknown"

(* Mutant: only the type CERTIFICATE itself counts.                        *)
DetectExactTypes(s) ==
    LET keys  == {i \in DOMAIN s : s[i].type \in KeyBlockType}
        certs == {i \in DOMAIN s : s[i].type = "CERTIFICATE"}
    IN CASE keys # {} /\ certs # {} -> "pem"
         [] keys # {} /\ certs = {} -> "pem-key"
         [] keys = {} /\ Cardinality(certs) > 1 -> "pem-fullchain"
         [] keys = {} /\ Cardinality(certs) = 1 -> "pem-cert"
         [] OTHER -> Unknown

(* detectPEM matches substrings of the type, parsePEM whole types.         *)
DetectPEM(s) ==
    LET keys  == {i \in DOMAIN s : s[i].type \in KeyBlockType \cup {"OPENSSH PRIVATE KEY"}}
        certs == {i \in DOMAIN s : s[i].type \in CertBlockType \cup {"CERTIFICATE REQUEST"}}
    IN CASE keys # {} /\ certs # {} -> "pem"
         [] keys # {} /\ certs = {} -> "pem-key"
         [] keys = {} /\ Cardinality(certs) > 1 -> "pem-fullchain"
         [] keys = {} /\ Cardinality(certs) = 1 -> "pem-cert"
         [] OTHER -> Unknown

DetectFormat(d) ==
    IF "begin" \in Marks(d) THEN DetectPEM(Blocks(d))
    ELSE IF "jksmagic" \in Marks(d) THEN "jks"
    ELSE IF "pkcs12OID" \in Marks(d) THEN "pkcs12"
    ELSE IF "pkcs7OID" \in Marks(d) THEN "pkcs7"
    ELSE IF d.kind = "der" THEN "der"
    ELSE Unknown

ParseByFormat(f, d, p) ==
    CASE f \in {"pem", "pem-cert", "pem-key", "pem-fullchain"} -> ParsePEM(Blocks(d), p)
      [] f = "der" -> ParseDER(d)
      [] f = "jks" -> ParseJKS(d, p)
      [] f = "pkcs12" -> ParsePKCS12(d, p)
      [] f = "pkcs7" -> ParsePKCS7(d)
      [] OTHER -> Fail("unrecognized")

(* parse(): the hinted parser's answer unless it disowns the data, then    *)
(* the PEM parser's if the marker is there, else the first parser that     *)
(* succeeds.                                                               *)
Parse(d, p) ==
    LET hinted   == ParseByFormat(DetectFormat(d), d, p)
        attempts == <<ParsePKCS12(d, p), ParsePKCS7(d), ParseDER(d), ParseJKS(d, p)>>
        first    == SelectInSeq(attempts, LAMBDA r : r.err = "none")
    IN IF hinted.err # "unrecognized" THEN hinted
       ELSE IF "begin" \in Marks(d) THEN ParsePEM(Blocks(d), p)
       ELSE IF first # 0 THEN attempts[first]
       ELSE Fail("unrecognized")

-----------------------------------------------------------------------------
(* What properties say of a parser's answer.                               *)

NormalKey == {PKCS8(k) : k \in Key}

(* A result with a normalized key or none, with no chain without a leaf,   *)
(* with nothing in its bundle if there is an error, and something if there *)
(* is none.                                                                *)
IsAnswer(r) ==
    /\ r \in Result
    /\ r.bundle.key \in NormalKey \cup {Nil}
    /\ r.bundle.leaf = Nil => r.bundle.chain = <<>>
    /\ r.err # "none" => r.bundle = EmptyBundle
    /\ r.err = "none" => r.bundle.leaf # Nil \/ r.bundle.key # Nil

(* What the parser of the container's own format returns.                  *)
NativeParse(d, p) ==
    CASE d.kind = "pem"    -> ParsePEM(d.blocks, p)
      [] d.kind = "der"    -> ParseDER(d)
      [] d.kind = "pkcs12" -> ParsePKCS12(d, p)
      [] d.kind = "pkcs7"  -> ParsePKCS7(d)
      [] d.kind = "jks"    -> ParseJKS(d, p)
      [] d.kind = "junk"   -> Fail("unrecognized")

=============================================================================
