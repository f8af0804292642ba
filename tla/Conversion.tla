----------------------------- MODULE Conversion -----------------------------
(***************************************************************************)
(* A caller converting a container again and again: Parse or ParseEntry    *)
(* the file at hand, Export the bundle in another format, parse that file, *)
(* and so on.  Each call alone is a function (Parsers, Exporters); what    *)
(* a chain of them preserves is the question here.                         *)
(***************************************************************************)
EXTENDS Exporters

CONSTANTS
    ForeignFiles,  \* the containers, not written by certkit, a caller starts from
    Pending,       \* no result yet
    Foreign,       \* the origin of such a file
    Unopened       \* the file was not opened since it was written

(* How a file was read: by Parse (alias Nil) or by ParseEntry.             *)
Reading == [pass : Pass, alias : Alias \cup {Nil}]

(* What a file written by Export was written from.                         *)
Origin == [bundle : Bundle, format : Format, pass : Pass]

ASSUME SentinelAssumption ==
    /\ Pending \notin Result
    /\ Unopened \notin Reading
    /\ Foreign \notin Origin

(* Export names the one entry of a keystore "certkit".                     *)
ASSUME FilesAssumption ==
    /\ \A d \in ForeignFiles : IsContainer(d)
    /\ "certkit" \in Alias
    /\ Nil \notin Alias

VARIABLES
    file,    \* the container at hand
    origin,  \* what Export wrote it from: [bundle, format, pass], or Foreign
    res,     \* the result of the last Parse or ParseEntry, or Pending
    opened,  \* how res was read from file: [pass, alias], or Unopened
    drifts   \* how often a reopened file had another leaf than was written

vars == <<file, origin, res, opened, drifts>>

MaxDrifts == 2

Init ==
    /\ file \in ForeignFiles
    /\ origin = Foreign
    /\ res = Pending
    /\ opened = Unopened
    /\ drifts = 0

Drifted(r) ==
    /\ origin # Foreign
    /\ r.bundle.leaf # Nil
    /\ origin.bundle.leaf # Nil
    /\ r.bundle.leaf # origin.bundle.leaf

Read(r, how) ==
    /\ res' = r
    /\ opened' = how
    /\ drifts' = IF Drifted(r) /\ drifts < MaxDrifts THEN drifts + 1 ELSE drifts
    /\ UNCHANGED <<file, origin>>

(* A file not read yet, or read in vain: the caller tries again.           *)
MayRead == opened # Unopened => res.err # "none"

Open(p) ==
    /\ MayRead
    /\ Read(Parse(file, p), [pass |-> p, alias |-> Nil])

OpenEntry(p, alias) ==
    /\ MayRead
    /\ Read(ParseEntry(file, p, alias), [pass |-> p, alias |-> alias])

(* The bundle of the last result, be it the empty one of an error.         *)
Save(f, p, flukes) ==
    LET out == Export(res.bundle, f, p, flukes)
    IN /\ opened # Unopened
       /\ out.err = "none"
       /\ file' = out.data
       /\ origin' = [bundle |-> res.bundle, format |-> f, pass |-> p]
       /\ opened' = Unopened
       /\ UNCHANGED <<res, drifts>>

Next ==
    \/ \E p \in Pass : Open(p)
    \/ \E p \in Pass, alias \in Alias : OpenEntry(p, alias)
    \/ \E f \in Format, p \in Pass : \E flukes \in SUBSET (Pass \ {p}) : Save(f, p, flukes)

Spec == Init /\ [][Next]_vars

-----------------------------------------------------------------------------
PlainKey == {PKCS8(k) : k \in Key} \cup {Nil}

TypeOK ==
    /\ origin \in Origin \cup {Foreign}
    /\ res = Pending \/ (res \in Result /\ res.bundle.key \in PlainKey)
    /\ opened \in Reading \cup {Unopened}
    /\ drifts \in 0..MaxDrifts

(* The file at hand was written by Export and has just been read back with *)
(* the passphrase it was written with, by Parse or by its only alias.      *)
Reopened ==
    /\ origin # Foreign
    /\ opened # Unopened
    /\ \/ opened.alias = Nil
       \/ opened.alias = "certkit" /\ origin.format = "jks"
    /\ \/ opened.pass = origin.pass
       \/ origin.format \notin KeyBearing

WrittenCerts(b) == <<b.leaf>> \o ParsedChain(b)

(* The leaf is one the parsers that classify by CA status choose again: an *)
(* end entity, or a CA certificate followed by CA certificates only.       *)
Stable(b) == b.leaf \notin CA \/ EndEntities(WrittenCerts(b)) = {}

(* What the format f has room for.                                         *)
Project(f, b) ==
    LET key   == IF f \in KeyBearing THEN b.key ELSE Nil
        chain == IF f \in {"pem-cert", "der"} THEN <<>> ELSE ParsedChain(b)
    IN IF f = "pem-key" \/ b.leaf = Nil THEN KeyBundle(key) ELSE LeafBundle(b.leaf, key, chain)

(* The ways a written file may be unreadable: nothing was written, a PEM   *)
(* marker inside a certificate diverts Parse, or a PKCS#7 bag is ambiguous.*)
Unreadable(b, f) ==
    \/ b.leaf = Nil /\ f \in {"pem-cert", "pem-fullchain"}
    \/ /\ f \in {"der", "pkcs7", "jks"}
       /\ opened.alias = Nil
       /\ "begin" \in Marks(file)
    \/ f = "pkcs7" /\ Cardinality(EndEntities(WrittenCerts(b))) > 1

(* Whatever Export writes without an error, Parse reads back with the same *)
(* passphrase, but for the three cases above; ParseEntry, which does not   *)
(* look for markers, reads every keystore.                                 *)
OwnFilesReadable ==
    Reopened /\ ~Unreadable(origin.bundle, origin.format) => res.err = "none"

(* Export then Parse is the identity on what the format has room for, if   *)
(* the leaf is one classification chooses again or the format records      *)
(* which certificate is the leaf.                                          *)
RoundTrip ==
    LET b == origin.bundle
        f == origin.format
    IN Reopened /\ ~Unreadable(b, f) =>
          (Stable(b) \/ f \in {"pkcs12", "jks", "der", "pem-cert", "pem-key"}
              => res = Ok(Project(f, b)))

(* PKCS#12 and JKS name their leaf, PEM and PKCS#7 guess it.  However many *)
(* conversions a caller chains, the guess changes the leaf at most once.   *)
LeafDriftsAtMostOnce == drifts <= 1

(* A file written under a passphrase gives its private key under no other: *)
(* reading it with the wrong one is an error, not a bundle without key.    *)
KeyGuarded ==
    /\ origin # Foreign
    /\ opened # Unopened
    /\ origin.format \in KeyBearing
    /\ origin.pass # NoPass
    /\ opened.pass # origin.pass
    => res.err # "none" /\ res.bundle = EmptyBundle

(* export.go:46-47: exporting a key-bearing format from a bundle without a *)
(* private key returns ErrNoPrivateKey.                                    *)
KeylessExportRefused ==
    res # Pending /\ res.bundle.key = Nil =>
        \A f \in KeyBearing, p \in Pass : Export(res.bundle, f, p, {}).err = "no_key"

=============================================================================
