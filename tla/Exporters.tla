----------------------------- MODULE Exporters -----------------------------
(***************************************************************************)
(* export.go as a function: the container Export writes for a Bundle, or   *)
(* its error.                                                              *)
(***************************************************************************)
EXTENDS Parsers

Written(d) == [err |-> "none", data |-> d]

NotWritten(e) == [err |-> e, data |-> Nil]

KeyBearing == {"pkcs12", "jks", "pem", "pem-key"}

(* Mutant: a passphrase is encrypted under only when there is none.        *)
EncodeKeyPEMSwapped(key, p, flukes) ==
    IF p # NoPass THEN PEM("PRIVATE KEY", key)
    ELSE PEM("ENCRYPTED PRIVATE KEY",
             [scheme |-> "pbes2", pass |-> p, inner |-> key, flukes |-> flukes])

(* encodeKeyPEM and encryptPKCS8.  Which wrong passphrases will find valid *)
(* padding depends on the random salt and IV.                              *)
EncodeKeyPEM(key, p, flukes) ==
    IF p = NoPass THEN PEM("PRIVATE KEY", key)
    ELSE PEM("ENCRYPTED PRIVATE KEY",
             [scheme |-> "pbes2", pass |-> p, inner |-> key, flukes |-> flukes])

LeafBlocks(b) == IF b.leaf = Nil THEN <<>> ELSE <<PEM("CERTIFICATE", b.leaf)>>

ChainBlocks(b) == [i \in DOMAIN b.chain |-> PEM("CERTIFICATE", b.chain[i])]

(* leafAndChainCerts: chain entries that do not parse are dropped.         *)
ParsedChain(b) == Filter(b.chain, Cert)

LeafError(b) == IF b.leaf \in Cert THEN "none" ELSE "unrecognized"

KeyError(b) ==
    IF b.key = Nil THEN "no_key"
    ELSE IF \E k \in Key : b.key = PKCS8(k) THEN "none" ELSE "unrecognized"

(* The leaf is looked at first.                                            *)
LeafAndKeyError(b) == IF LeafError(b) # "none" THEN LeafError(b) ELSE KeyError(b)

ExportPEMBundle(b, p, flukes) ==
    IF b.key = Nil THEN NotWritten("no_key")
    ELSE Written(PEMData(LeafBlocks(b) \o <<EncodeKeyPEM(b.key, p, flukes)>> \o ChainBlocks(b)))

ExportPEMKeyOnly(b, p, flukes) ==
    IF b.key = Nil THEN NotWritten("no_key")
    ELSE Written(PEMData(<<EncodeKeyPEM(b.key, p, flukes)>>))

ExportDER(b) ==
    IF LeafError(b) # "none" THEN NotWritten(LeafError(b)) ELSE Written(DERData(b.leaf))

ExportPKCS7(b) ==
    IF LeafError(b) # "none" THEN NotWritten(LeafError(b))
    ELSE Written(PKCS7Data(<<b.leaf>> \o ParsedChain(b)))

(* Mutant: the chain is written before the leaf.                           *)
ExportPKCS12LeafLast(b, p) ==
    IF LeafAndKeyError(b) # "none" THEN NotWritten(LeafAndKeyError(b))
    ELSE Written(PKCS12Data(p, b.key.key, ParsedChain(b) \o <<b.leaf>>, TRUE))

ExportPKCS12(b, p) ==
    IF LeafAndKeyError(b) # "none" THEN NotWritten(LeafAndKeyError(b))
    ELSE Written(PKCS12Data(p, b.key.key, <<b.leaf>> \o ParsedChain(b), TRUE))

(* Mutant: the keystore is stored under the passphrase, its entry is not.  *)
ExportJKSStoreOnly(b, p) ==
    IF LeafAndKeyError(b) # "none" THEN NotWritten(LeafAndKeyError(b))
    ELSE LET entry == KeyEntry(NoPass, b.key, <<b.leaf>> \o ParsedChain(b))
         IN Written(JKSData(p, [a \in {"certkit"} |-> entry]))

ExportJKS(b, p) ==
    IF LeafAndKeyError(b) # "none" THEN NotWritten(LeafAndKeyError(b))
    ELSE LET entry == KeyEntry(p, b.key, <<b.leaf>> \o ParsedChain(b))
         IN Written(JKSData(p, [a \in {"certkit"} |-> entry]))

(* The cert-only PEM formats write whatever there is, and nothing when     *)
(* there is nothing, without an error.                                     *)
Export(b, f, p, flukes) ==
    CASE f = "pem"           -> ExportPEMBundle(b, p, flukes)
      [] f = "pem-cert"      -> Written(PEMData(LeafBlocks(b)))
      [] f = "pem-key"       -> ExportPEMKeyOnly(b, p, flukes)
      [] f = "pem-fullchain" -> Written(PEMData(LeafBlocks(b) \o ChainBlocks(b)))
      [] f = "der"           -> ExportDER(b)
      [] f = "pkcs12"        -> ExportPKCS12(b, p)
      [] f = "pkcs7"         -> ExportPKCS7(b)
      [] f = "jks"           -> ExportJKS(b, p)
      [] OTHER               -> NotWritten("unrecognized")

=============================================================================
