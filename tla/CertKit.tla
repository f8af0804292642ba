------------------------------ MODULE CertKit ------------------------------
(***************************************************************************)
(* The vocabulary of go-certkit: key and certificate material, PEM blocks, *)
(* the Bundle every parser builds and every exporter reads, and the errors *)
(* they return.  No state: the other modules extend this one.              *)
(*                                                                         *)
(* A certificate is identified with its DER (x509 Raw); Noise stands for   *)
(* every DER blob that parses neither as a certificate nor as a key.       *)
(***************************************************************************)
EXTENDS Naturals, Sequences, FiniteSets

CONSTANTS
    Cert,    \* certificates x509.ParseCertificate accepts
    CA,      \* those with valid basic constraints that say "CA"
    Key,     \* private keys
    Pass,    \* passphrases
    Alias,   \* entry names of a keystore
    NoPass,  \* the empty passphrase ""
    Noise,   \* bytes that decode as nothing
    Nil      \* an empty []byte field

KeyForm == {"pkcs8", "pkcs1", "sec1"}

(* A private key in one of the three DER forms normalizeToPKCS8 tries.     *)
KeyDER == [form : KeyForm, key : Key]

PKCS8(k) == [form |-> "pkcs8", key |-> k]

(* An encrypted key.  "pbes2" is the scheme pkcs8crypt.go writes and reads *)
(* (PBES2, PBKDF2-HMAC-SHA256, AES-256-CBC), "rfc1423" the legacy PEM one, *)
(* "foreign" any other, a PBKDF2 with another hash, which the code does    *)
(* not look at, included.  None has an integrity tag: a passphrase is      *)
(* judged by the padding it yields, which for those in flukes happens to   *)
(* be valid although what is decrypted is noise.                           *)
Cipher == [scheme : {"pbes2", "rfc1423", "foreign"}, pass : Pass,
           inner : KeyDER \cup {Noise}, flukes : SUBSET Pass]

DERBlob == Cert \cup KeyDER \cup Cipher \cup {Noise}

CertBlockType == {"CERTIFICATE", "TRUSTED CERTIFICATE"}

KeyBlockType == {"PRIVATE KEY", "RSA PRIVATE KEY", "EC PRIVATE KEY", "ENCRYPTED PRIVATE KEY"}

(* Block types parsePEM skips; detectPEM counts the first two.             *)
OtherBlockType == {"OPENSSH PRIVATE KEY", "CERTIFICATE REQUEST", "X509 CRL"}

(* One block pem.Decode returns; legacy is its "DEK-Info" header.          *)
Block == [type : CertBlockType \cup KeyBlockType \cup OtherBlockType,
          legacy : BOOLEAN, der : DERBlob]

PEM(type, der) == [type |-> type, legacy |-> FALSE, der |-> der]

ASSUME MaterialAssumption ==
    /\ CA \subseteq Cert
    /\ NoPass \in Pass
    /\ Noise \notin Cert \cup KeyDER \cup Cipher
    /\ Nil \notin DERBlob \cup Key
    /\ Cert \cap (KeyDER \cup Cipher) = {}
    /\ KeyDER \cap Cipher = {}

-----------------------------------------------------------------------------
(* Bundle and Meta.  LeafPEM, KeyPEM and ChainPEM hold PEM blocks, written *)
(* here as the DER inside; the rest of Meta is a function of the leaf, for *)
(* which its fingerprint stands.                                           *)

Meta == [fingerprint : Cert \cup {Nil}, isCA : BOOLEAN]

Bundle == [leaf : Cert \cup {Nil}, key : KeyDER \cup {Nil},
           chain : Seq(Cert \cup {Noise}), meta : Meta]

NoMeta == [fingerprint |-> Nil, isCA |-> FALSE]

MetaFromLeaf(c) == [fingerprint |-> c, isCA |-> c \in CA]

EmptyBundle == [leaf |-> Nil, key |-> Nil, chain |-> <<>>, meta |-> NoMeta]

KeyBundle(k) == [EmptyBundle EXCEPT !.key = k]

LeafBundle(c, k, chain) == [leaf |-> c, key |-> k, chain |-> chain, meta |-> MetaFromLeaf(c)]

-----------------------------------------------------------------------------
(* What Parse, ParseEntry and their helpers return.                        *)

Error == {"none", "wrong_passphrase", "unrecognized", "no_key", "multiple"}

Result == [err : Error, bundle : Bundle, aliases : SUBSET (Alias \cup Cert)]

Ok(b) == [err |-> "none", bundle |-> b, aliases |-> {}]

Fail(e) == [err |-> e, bundle |-> EmptyBundle, aliases |-> {}]

(* *ErrMultipleEntries: the aliases (JKS) or subjects (PKCS#7) to choose   *)
(* from.  keystore-go lists aliases in map order, so they are a set.       *)
Multiple(as) == [Fail("multiple") EXCEPT !.aliases = as]

(* What the key decoders return: DER bytes, or an error.                   *)
Bytes(d) == [err |-> "none", der |-> d]

NoBytes(e) == [err |-> e, der |-> Nil]

=============================================================================
