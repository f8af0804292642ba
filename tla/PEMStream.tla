----------------------------- MODULE PEMStream -----------------------------
(***************************************************************************)
(* parsePEM (parse.go): one pass over the blocks pem.Decode finds, which   *)
(* keeps two parallel lists of certificates and the last private key, then *)
(* classifies leaf and chain.  One step is one iteration of the loop, or   *)
(* the code after it.                                                      *)
(***************************************************************************)
EXTENDS Parsers

CONSTANTS
    Streams,  \* the block sequences a call may be given
    Pending   \* the value of result while the loop runs

ASSUME StreamsAssumption == Streams \subseteq Seq(Block)

ASSUME PendingAssumption == Pending \notin Result

VARIABLES
    data,      \* the PEM blocks of the input
    pass,      \* the passphrase of the call
    pos,       \* the block pem.Decode returns next
    certs,     \* []*x509.Certificate
    certPEMs,  \* []*pem.Block, a block being named by its position
    keyPEM,    \* the last private key, normalized; Nil before the first
    result     \* what the call returned, or Pending

vars == <<data, pass, pos, certs, certPEMs, keyPEM, result>>

Init ==
    /\ data \in Streams
    /\ pass \in Pass
    /\ pos = 1
    /\ certs = <<>>
    /\ certPEMs = <<>>
    /\ keyPEM = Nil
    /\ result = Pending

Scanning == result = Pending /\ pos \in DOMAIN data

(* Mutant: the block is kept before the certificate is parsed.             *)
ReadCertificateKeepsBlock ==
    /\ Scanning
    /\ IsCertificateBlock(data[pos])
    /\ certPEMs' = Append(certPEMs, pos)
    /\ IF data[pos].der \in Cert
       THEN certs' = Append(certs, data[pos].der)
       ELSE UNCHANGED certs
    /\ pos' = pos + 1
    /\ UNCHANGED <<data, pass, keyPEM, result>>

(* Mutant: a certificate that does not parse ends the call.                *)
ReadCertificateOrFail ==
    /\ Scanning
    /\ IsCertificateBlock(data[pos])
    /\ IF data[pos].der \in Cert
       THEN /\ certs' = Append(certs, data[pos].der)
            /\ certPEMs' = Append(certPEMs, pos)
            /\ UNCHANGED result
       ELSE result' = Fail("unrecognized") /\ UNCHANGED <<certs, certPEMs>>
    /\ pos' = pos + 1
    /\ UNCHANGED <<data, pass, keyPEM>>

ReadCertificate ==
    /\ Scanning
    /\ IsCertificateBlock(data[pos])
    /\ IF data[pos].der \in Cert
       THEN /\ certs' = Append(certs, data[pos].der)
            /\ certPEMs' = Append(certPEMs, pos)
       ELSE UNCHANGED <<certs, certPEMs>>
    /\ pos' = pos + 1
    /\ UNCHANGED <<data, pass, keyPEM, result>>

(* Mutant: a key block that does not decode is skipped like a certificate. *)
ReadPrivateKeyOrSkip ==
    /\ Scanning
    /\ IsPrivateKeyBlock(data[pos])
    /\ LET key == DecodePrivateKeyBlock(data[pos], pass)
       IN IF key.err = "none" THEN keyPEM' = key.der ELSE UNCHANGED keyPEM
    /\ pos' = pos + 1
    /\ UNCHANGED <<data, pass, certs, certPEMs, result>>

ReadPrivateKey ==
    /\ Scanning
    /\ IsPrivateKeyBlock(data[pos])
    /\ LET key == DecodePrivateKeyBlock(data[pos], pass)
       IN IF key.err = "none"
          THEN keyPEM' = key.der /\ UNCHANGED result
          ELSE result' = Fail(key.err) /\ UNCHANGED keyPEM
    /\ pos' = pos + 1
    /\ UNCHANGED <<data, pass, certs, certPEMs>>

(* Mutant: the rest of the input is not moved forward.                     *)
SkipBlockInPlace ==
    /\ Scanning
    /\ ~IsCertificateBlock(data[pos]) /\ ~IsPrivateKeyBlock(data[pos])
    /\ UNCHANGED <<data, pass, pos, certs, certPEMs, keyPEM, result>>

SkipBlock ==
    /\ Scanning
    /\ ~IsCertificateBlock(data[pos]) /\ ~IsPrivateKeyBlock(data[pos])
    /\ pos' = pos + 1
    /\ UNCHANGED <<data, pass, certs, certPEMs, keyPEM, result>>

(* Mutant: the chain starts after the leaf.                                *)
AssembledAfterLeaf ==
    LET l == LeafIndex(certs)
        ders == DersAt(data, certPEMs)
    IN [leaf |-> ders[l], key |-> keyPEM, chain |-> SubSeq(ders, l + 1, Len(ders)),
        meta |-> MetaFromLeaf(certs[l])]

(* The leaf and its Meta come from certs, the PEM fields from certPEMs.    *)
AssembledBundle ==
    LET l == LeafIndex(certs)
        ders == DersAt(data, certPEMs)
    IN [leaf |-> ders[l], key |-> keyPEM, chain |-> RemoveAt(ders, l),
        meta |-> MetaFromLeaf(certs[l])]

Assemble ==
    /\ result = Pending
    /\ pos \notin DOMAIN data
    /\ result' = IF certs # <<>> THEN Ok(AssembledBundle)
                 ELSE IF keyPEM # Nil THEN Ok(KeyBundle(keyPEM))
                 ELSE Fail("unrecognized")
    /\ UNCHANGED <<data, pass, pos, certs, certPEMs, keyPEM>>

Next == ReadCertificate \/ ReadPrivateKey \/ SkipBlock \/ Assemble

Spec == Init /\ [][Next]_vars /\ WF_vars(Next)

-----------------------------------------------------------------------------
(* Every variable has its type: normalized keys only, as many certificates *)
(* as blocks kept, and a result that is a parse result.                    *)
TypeOK ==
    /\ data \in Seq(Block)
    /\ pass \in Pass
    /\ pos \in 1..Len(data) + 1
    /\ certs \in Seq(Cert)
    /\ certPEMs \in Seq(1..Len(data))
    /\ keyPEM \in {PKCS8(k) : k \in Key} \cup {Nil}
    /\ result \in Result \cup {Pending}

(* The two parallel lists describe the same certificates: entry by entry   *)
(* certs holds what block certPEMs points at parses to, so that the leaf   *)
(* chosen from certs is the block encoded into LeafPEM.                    *)
ListsAligned ==
    /\ DOMAIN certs = DOMAIN certPEMs
    /\ \A i \in DOMAIN certs : certs[i] = data[certPEMs[i]].der

(* While the call has not failed, certPEMs lists exactly the certificates  *)
(* seen so far, in file order, each once.                                  *)
CertsListed ==
    LET seen == CertPositions(data) \cap 1..pos - 1
    IN /\ \A x \in seen : \E i \in DOMAIN certPEMs : certPEMs[i] = x
       /\ \A i \in DOMAIN certPEMs : certPEMs[i] \in seen
       /\ \A i, j \in DOMAIN certPEMs : i < j => certPEMs[i] < certPEMs[j]

(* While the call has not failed, every key block seen so far decoded, and *)
(* the key kept is the last one's.                                         *)
LastKeyKept ==
    LET seen == KeyPositions(data) \cap 1..pos - 1
    IN /\ BadKeyPositions(data, pass) \cap 1..pos - 1 = {}
       /\ keyPEM = IF seen = {} THEN Nil ELSE DecodePrivateKeyBlock(data[Max(seen)], pass).der

Failed == result # Pending /\ result.err # "none"

Parsed == result # Pending /\ result.err = "none"

(* The loop invariant of parsePEM.                                         *)
ScanInv ==
    /\ ListsAligned
    /\ ~Failed => CertsListed
    /\ ~Failed => LastKeyKept

(* The leaf of a parsed bundle is the first end-entity certificate of the  *)
(* file, and only if the file has none is it the first certificate.        *)
LeafLeads ==
    Parsed /\ CertPositions(data) # {} =>
        \E l \in CertPositions(data) :
            /\ result.bundle.leaf = data[l].der
            /\ result.bundle.meta = MetaFromLeaf(data[l].der)
            /\ \A i \in CertPositions(data) :
                  IF data[l].der \in CA THEN l <= i /\ data[i].der \in CA
                  ELSE i < l => data[i].der \in CA

(* Leaf and chain together are the certificates of the file in file order: *)
(* classification loses none, repeats none and reorders none but the leaf. *)
CertificatesConserved ==
    Parsed /\ CertPositions(data) # {} =>
        LET b == result.bundle
        IN \E i \in 1..Len(b.chain) + 1 :
              InsertAt(b.chain, i, b.leaf) = DersAt(data, InOrder(CertPositions(data)))

(* Blocks parsePEM ignores (other types, certificates that do not parse)   *)
(* change nothing: the answer is that of the file without them.            *)
IgnoredBlocksInert ==
    LET used == {b \in Range(data) : IsPrivateKeyBlock(b)
                                         \/ (IsCertificateBlock(b) /\ b.der \in Cert)}
    IN result # Pending => result = ParsePEM(Filter(data, used), pass)

(* detectPEM counts blocks by substring, parsePEM by exact type.  What is  *)
(* parsed is never more than what DetectFormat announced: no key without a *)
(* key format, no chain without a multi-certificate format.                *)
DetectionCoversContent ==
    Parsed => LET f == DetectPEM(data)
                  b == result.bundle
              IN /\ b.key # Nil => f \in {"pem", "pem-key"}
                 /\ b.leaf # Nil => f \in {"pem", "pem-cert", "pem-fullchain"}
                 /\ b.chain # <<>> => f \in {"pem", "pem-fullchain"}

EncryptedKey(b) == b.type = "ENCRYPTED PRIVATE KEY" \/ (IsPrivateKeyBlock(b) /\ b.legacy)

(* The key in b was encrypted the way its block says, in a supported       *)
(* scheme.                                                                 *)
WellEncrypted(b) ==
    /\ b.der \in Cipher
    /\ b.der.inner \in KeyDER
    /\ b.der.scheme = IF b.type = "ENCRYPTED PRIVATE KEY" THEN "pbes2" ELSE "rfc1423"

(* The right passphrase is not blamed: ErrWrongPassphrase comes only from  *)
(* a file with an encrypted key this passphrase does not open, or whose    *)
(* encryption is damaged or unsupported.                                   *)
RightPassphraseNotBlamed ==
    result # Pending /\ result.err = "wrong_passphrase" =>
        \E i \in KeyPositions(data) :
            EncryptedKey(data[i]) /\ (WellEncrypted(data[i]) => data[i].der.pass # pass)

(* What errors.go:34 says of ErrWrongPassphrase: a file whose keys are all *)
(* properly encrypted, the first under another passphrase, is answered     *)
(* with it.  Padding is the only evidence the code has, and a wrong        *)
(* passphrase sometimes yields valid padding.                              *)
WrongPassphraseReported ==
    LET keys == KeyPositions(data)
    IN /\ result # Pending
       /\ keys # {}
       /\ \A i \in keys : EncryptedKey(data[i]) /\ WellEncrypted(data[i])
       /\ data[Min(keys)].der.pass # pass
       => result.err = "wrong_passphrase"

(* What the loop returns, and returns only once, is ParsePEM's answer for  *)
(* the whole stream: in particular the first key block that does not       *)
(* decode decides the error, and nothing read before it leaks.             *)
Call == INSTANCE ParseCall WITH Answer <- ParsePEM

ImplementsParseCall == Call!Spec

(* The loop ends: pem.Decode consumes input on every iteration.            *)
Returns == <>(result # Pending)

=============================================================================
