# Formal model of go-certkit

go-certkit reads certificate and key containers (PEM, DER, PKCS#12, PKCS#7, JKS)
into one `Bundle`, writes a `Bundle` back as any of them, and generates and
rotates self-signed certificates. This directory holds TLA+ modules that model
the reading, the detection of formats, the writing, the encryption of keys, the
rotation, the logging and tracing around calls and what a caller who chains them
gets, TLC configurations that check small instances, and proofs, checked by
TLAPS, that hold for every instance.

## The system

| Part | Source | State | Operations | Modelled by |
|---|---|---|---|---|
| PEM parser | `parse.go` `parsePEM`, `decodePrivateKeyBlock`, `normalizeToPKCS8` | of one call: rest of the input, `certs`, `certPEMs`, `keyPEM` | one iteration per block, then the assembly | `PEMStream`, `Parsers` |
| Dispatch | `parse.go` `parse`, `parseByFormat`; `format.go` | of one call: which attempts have failed | hint, hinted parser, five fallback attempts | `ParseDispatch`, `Parsers` |
| Binary parsers | `parse.go` `parseDER`, `parsePKCS12`, `parsePKCS7`, `parseJKS`, `parseEntry`, `bundleFromKeystoreEntry` | none | functions | `Parsers` |
| Bundle, errors | `bundle.go`, `errors.go` | the records | `metaFromLeaf` | `CertKit` |
| Exporters | `export.go` | none | one function per format | `Exporters` |
| Callers | `README.md`, `examples/main.go` | the file at hand, the last bundle | `Parse`, `ParseEntry`, `Export`, retries | `Conversion` |
| Encrypted PKCS#8 | `pkcs8crypt.go` | of one call: which guard comes next | `encryptPKCS8`, `decryptPKCS8`, padding | `Pkcs8Crypt`; its outcomes in `Parsers`, `Exporters` |
| Generation, rotation | `generate.go`, `metaFromLeaf` | none; of the service: `current`, `next` | `GenerateSelfSigned`, `Rotate`, cut-over | `Rotation` |
| Observability | `obs.go`, the `*Context` wrappers | of one call: its span and context | options, `observe` step by step | `Observe` |

The package keeps no state between calls, starts no goroutine and writes no
file. A call is synchronous. The parts meet in five ways: `parse` asks
`DetectFormat` for a hint and hands the bytes to the parsers in turn; every
parser builds, and every exporter reads, the same `Bundle`; the caller carries
bytes from an `Export` to a later `Parse`; `Rotate` reads the `Meta` that
`metaFromLeaf` derived from the leaf in service; and concurrent calls share the
application's loggers and the global `TracerProvider`, nothing else.

What is hard here is mostly not concurrency. It is

- the order of things inside a call: which certificate becomes the leaf, which
  key block wins, which error of several is returned, which attempt answers;
- decisions on evidence that can mislead: markers found anywhere in the bytes,
  padding as the only sign of a wrong passphrase, two functions that classify
  PEM block types in different ways;
- partial failure: certificates that do not parse are skipped, key blocks that
  do not decode end the call, fallback errors are dropped;
- sequences of legal calls: formats that record which certificate is the leaf
  and formats that leave it to be guessed, chained by a caller; names that are
  printed and cut out again with every rotation;
- leaving a call: the span must end on every path, a panic included, while
  other calls write to the same logger and tracer.

What makes each part correct:

- PEM parser: the two parallel lists describe the same blocks; leaf and chain
  are the certificates of the file, each once, in order; the leaf is the first
  end entity; the last key block wins and the first bad one decides the error;
  ignored blocks are inert; nothing is blamed on the right passphrase.
- Dispatch: the hint never hides a readable container; a definitive error of the
  right parser is what the caller gets; of several entries none is picked, the
  caller is told of all.
- Exporters and callers: certkit reads its own files; `Export` then `Parse` is
  the identity on what the format has room for; leaf and chain are stable under
  any chain of conversions; a key is handed out under its own passphrase only.
- Encryption: own files are read under their passphrase; only padding is taken
  for padding; the guards amount to what the parsers' model says of a ciphertext.
- Rotation: a common name that needs no escaping survives any number of
  rotations and no other name loses a character but at a comma, SANs survive, a generated certificate can always be rotated.
- Observability: the answer is the plain function's whatever the options; spans
  end with their calls; spans and lines tell what happened, each call its own.

`PROJECT.json` lists the hazards line by line with the properties that cover each.

## The modules

- `CertKit`: the vocabulary. A certificate stands for its DER; `Noise` for every
  blob that is neither certificate nor key; a key is a pair of a form (PKCS#8,
  PKCS#1, SEC1) and a key. PEM fields of a `Bundle` are written as the DER in the
  block. `Meta` is a function of the leaf: the fingerprint stands for the other
  fields. An encrypted key (`Cipher`) carries its scheme, its passphrase and
  `flukes`, the passphrases that happen to produce valid padding although what
  comes out is noise: CBC has no integrity tag, so `decryptPKCS8` cannot tell.
- `Listing`: lists cut out of other lists. `Filter(s, S)` is what a Go loop that
  appends some of the elements of a slice leaves, defined by positions: `SelectSeq`
  is recursive, and the prover knows nothing of it. An assumption of
  `MCConversion` has TLC compare the two.
- `Parsers`: every parser as an operator that follows its function's guards in
  their order. `ParsePEM` and `Parse` say what the functions return without
  saying how: they are the contracts of the two state machines below. Containers
  other than PEM are what the decoding libraries make of the bytes: records of
  certificates, keys, passphrases and entries. `Marks` says which byte patterns
  `DetectFormat` finds in an input. `Quirk` gives a certificate the markers that
  its DER happens to contain. `IsContainer` says which inputs there are.
- `ParseCall`: the abstract specification. A call returns at most once and
  returns `Answer(data, pass)`.
- `PEMStream`: `parsePEM`. One action per kind of loop iteration
  (`ReadCertificate`, `ReadPrivateKey`, `SkipBlock`) and one for the code after
  the loop (`Assemble`). `pos` is `rest`; a `*pem.Block` in `certPEMs` is named by
  its position. It implements `ParseCall` with `ParsePEM` as the answer.
- `ParseDispatch`: `parse`. One action per attempt, in the order of the code,
  `pc` naming the next. It implements `ParseCall` with `Parse` as the answer.
- `Exporters`: `export.go` as operators, `Export` on top.
- `Conversion`: a caller that opens the file at hand (`Open`, or `OpenEntry` with
  an alias), tries again after an error, and saves the result in any format
  under any passphrase (`Save`). It composes `Parse`, `ParseEntry` and `Export`.
  The empty `Bundle` that an error comes with may be saved too.
- `Pkcs8Crypt`: `decryptPKCS8`, one action per function it calls (`ParsePBES2`,
  `DeriveKey`, `DecryptBlocks`), with `pkcs7Pad` and `pkcs7Unpad` byte by byte. A
  file records what its ciphertext decrypts to under each passphrase (`yields`),
  which is where AES-CBC and PBKDF2 are abstracted; `EncryptPKCS8` says what the
  package's own files look like. `AsCipher` maps a file to the `Cipher` record of
  `CertKit`, and under it the module implements `ParseCall` with the operator
  `Decrypt` of `Parsers` as the answer: the model of the parsers rests on this.
- `Rotation`: a service that serves `current`, makes `next` with `Rotate`, perhaps
  more than once, and cuts over. It starts with a generated certificate or a
  foreign one. Names are sequences of characters; `SubjectString` prints them as
  `pkix.Name.String` does, a backslash before each character in `Special`, the
  subject's serial number before the common name and every other attribute behind
  it, and `CommonNameFromSubject` splits at every comma, escaped or not, as the code
  does. A label such as "CN=" is one character, but one that a value may contain:
  no letter of it is escaped, so it is printed as it stands, and behind a comma of
  a value it is taken for the common name (`Hides`). `given` remembers what a caller
  last asked for, and `misled` in it that the first certificate hid such a name, for
  the properties.
- `Observe`: `ParseContext`, `ParseEntryContext` and `ExportContext` as concurrent
  calls. `Resolve` folds the options and decides whether the call is observed;
  `RunPlain` is the unobserved path; `StartSpan`, `Run`, `Record`, `WriteLine` and
  `EndSpan` are the steps of `observe`, `EndSpan` also after a panic, because it is
  deferred. `Install` is the application installing a `TracerProvider` at any time.
  Of a span or line the model keeps whose it is, status or level, which
  attributes are on it (by name), how often it was ended, and, for a line, the
  span its context carried. The plain function succeeds, fails or panics; what it
  does is the matter of the other modules.
- `PlainCalls`: the abstract specification of `Observe`: each call returns at most
  once, with what the plain function makes of its input.
- `NumberLemmas`, `ParsersProofs`, `PEMStreamProofs`, `ParseDispatchProofs`,
  `ConversionProofs`, `Pkcs8CryptProofs`, `RotationProofs`, `ObserveProofs`: the
  proofs.
- `MCPEMStream`, `MCParseDispatch`, `MCConversion`, `MCPkcs8Crypt`, `MCRotation`,
  `MCObserve`: constants for TLC.

Operators marked "Mutant" are deliberate mistakes that no specification uses.
Put in place of the definition that follows them they break a property, which
shows that the property depends on that line of the code.

## The runs

Each run finishes within seconds to a minute.

| Run | Configuration | Question |
|---|---|---|
| `pem_stream` | `MCPEMStream.cfg` | Does parsePEM's loop do what its contract says, and is the contract right? |
| `parse_dispatch` | `MCParseDispatch.cfg` | What do hint and fallback do to each input? |
| `conversion` | `MCConversion.cfg` | What survives a chain of conversions? |
| `pkcs8_crypt` | `MCPkcs8Crypt.cfg` | Does decryptPKCS8 undo encryptPKCS8, and is it what `Decrypt` says? |
| `rotation` | `MCRotation.cfg` | What do names and SANs turn into, and when is a rotation refused? |
| `observe` | `MCObserve.cfg` | Do logging and tracing tell the truth and change no answer? |
| `wrong_passphrase` | `WrongPassphrase.cfg` | Is a wrong passphrase reported as one? No. |
| `masked_errors` | `MaskedErrors.cfg` | Do definitive errors survive a missed hint? No. |
| `stray_marker` | `StrayMarker.cfg` | Is every parser tried? Not after a PEM marker. |
| `keyless_export` | `KeylessExport.cfg` | Is a missing key always named? Not without a leaf. |
| `key_length` | `KeyLength.cfg` | Is a file without the optional KeyLength read? No. |
| `derived_name` | `DerivedName.cfg` | Is the derived name exact where the documentation says so? Neither without a common name nor with one that needs escaping. |

`pem_stream` (72,766 states). Streams: every sequence of at most three of sixteen
kinds of block, and every sequence of four or five end-entity certificates, two
CA certificates and plain keys. Each action treats a block by itself and the
properties compare at most two certificates, or two key blocks, or one ignored
block with its neighbours, so three blocks give every relation between kinds;
the longer streams give the leaf a place before, between and after other
certificates. Properties: `TypeOK`; `ScanInv`, the loop invariant; `LeafLeads`,
the leaf is the file's first end entity; `CertificatesConserved`, leaf and chain
are the file's certificates in order; `IgnoredBlocksInert`;
`DetectionCoversContent`, which compares `detectPEM` with what is parsed;
`RightPassphraseNotBlamed`; `ImplementsParseCall`; `Returns`.

`parse_dispatch` (26,142 states). Inputs of every kind, containers of up to two
or three certificates or entries, right and wrong store and entry passphrases,
archives without key or without a visible OID, every set of markers on junk, and
certificates that contain another format's marker (`e2` both OIDs, `e3` the PEM
marker). A container with two certificates shows every relation the parsers look
at; PKCS#7 gets three to have two end entities next to a CA. Properties: `TypeOK`,
which says that what is returned is well formed (a normalized key, no chain
without a leaf, an empty bundle with an error); `HintNeverHidesData`;
`DefinitiveErrorsKept`; `AmbiguityReported`, no entry of several is picked, whether
the others can be read or not; `ImplementsParseCall`.

`conversion` (10,250 states). Sixty-two foreign files: thirteen orders of up to
three end entities, CAs and one certificate with a PEM marker, in PEM with and
without key, PKCS#12 and PKCS#7; single certificates; keystores whose chains
contain an unparseable certificate; keystores of two entries. Every format and
passphrase at every save, without a bound on the number of conversions: the only
counter, `drifts`, stops at `MaxDrifts` = 2, one more than the property allows.
Three certificates are what the leaf rule needs to show a leaf overtaken by
another end entity past a CA. Properties: `OwnFilesReadable`, with the three
exceptions it names; `RoundTrip`; `LeafDriftsAtMostOnce`; `KeyGuarded`. The run
checks for deadlock: a caller always has a next call.

`pkcs8_crypt` (10,432 states). Blocks of three bytes instead of sixteen;
plaintexts of one to five bytes, which end within, at and after a block boundary,
made of ones or twos so that they look like padding; under the other passphrase
every last block over the bytes 0 to 4, which holds every valid padding, every
near miss and a value above the block size; foreign files with the key length
omitted, 0, 16, 32 and 33, short IVs, ciphertexts of 0 to 7 bytes and another
structure. Properties: `OwnKeysRead`; `NoForgedPadding`; `ImplementsParseCall`.

`rotation` (66,697 states). Foreign certificates with common names of up to two
characters, among an ordinary one, the comma, the backslash and another special
character, or with a name that contains "CN=" itself; with and without a serial
number and an organization, which contain "CN=" where it is harmless, where it
hides a name and where it hides an empty one; with and without a DNS name and an
IP address; options with and without a name of up to three characters and with
and without SANs; `MaxKeys` = 3 keys, so that a derived name is printed and cut out
again up to three times: once changes it, twice shows whether that settles (it
does not: one, three, seven backslashes, as backslashes are escaped too).
Properties: `PlainNameKept`; `CharactersKept`, a name without a comma gains
backslashes and loses nothing, and takes in nothing of other attributes;
`SANsKept`, which also says that IP addresses become DNS names;
`RefusedOnlyNameless`. What the code does with commas in names is no property of
this run: it contradicts the documentation, see `derived_name` below.

`observe` (54,880 states). Two calls, one `Export` and one `Parse`, under eight
option lists each: none, only nil, tracing only, one logger, two loggers, nil
after a logger, a broken logger last and a broken one replaced. Every outcome of
the plain function, every interleaving, a provider present from the start,
installed at any moment or never. Calls interact only through the sequences of
spans and lines, where one other call suffices to come between any two steps.
Properties: `SpanEndsWithCall`; `StatusTellsOutcome`; `LinesTellOutcome`;
`CallersSpanUntouched`; `ImplementsPlainCalls`.

`CHECK_DEADLOCK FALSE` in the configurations other than `MCConversion.cfg` and
`KeylessExport.cfg`: the calls they model return and have no step left, or, in
`Rotation`, the bound on keys is reached.

### Fairness

Only `PEMStream` assumes fairness, `WF_vars(Next)`: a call runs on the caller's
goroutine, does not wait for anything, and each of its steps is a terminating
computation. `Returns`, the one liveness property, needs it: every iteration of
the loop, those that skip a block included, must go on to the rest of the input.
`pem.Decode` consumes input whenever it returns a block, which `pos' = pos + 1`
states. The code that `ParseDispatch`, `Pkcs8Crypt` and `Observe` model is straight
and waits for nothing, so that it returns says nothing about it and is not
claimed; their specifications, and those of `Conversion` and `Rotation`, whose
callers may stop at any point, state no fairness.

### Disagreements between code and documentation

1. `wrong_passphrase`. `errors.go:34-36` says `ErrWrongPassphrase` is returned when
   the passphrase fails to decrypt. The code judges by padding
   (`pkcs8crypt.go:166-171`), which noise satisfies about once in 256 times; the
   noise then fails `normalizeToPKCS8` with `ErrUnrecognizedFormat`
   (`parse.go:271`, `:292`). Two tests (`export_test.go:123`, `:172`) draw a random
   salt and IV and expect `ErrWrongPassphrase` every time.
2. `masked_errors`. `errors.go:34-36` and `:48-50` promise `ErrWrongPassphrase` and
   `ErrMultipleEntries`. When `DetectFormat` misses the format, the fallback
   drops both (`parse.go:116-127`).
3. `stray_marker`. `parse.go:103-105` and `README.md:55-57` say every parser is tried
   when the hinted one disowns the data. After `-----BEGIN` anywhere in the data
   only the PEM parser is (`parse.go:113-115`).
4. `keyless_export`. `export.go:46-47` promises `ErrNoPrivateKey` for a bundle
   without key. PKCS#12 and JKS look at the leaf first and answer
   `ErrUnrecognizedFormat` when it is missing as well.
5. `key_length`. `pkcs8crypt.go:26-27` announces RFC 8018's PBES2 with
   PBKDF2-HMAC-SHA256 and AES-256-CBC. There `keyLength` is optional; the struct
   field (`:66`) is not, so a file without it fails to unmarshal (`:197`) and is
   answered with `ErrWrongPassphrase` under the right passphrase. The default at
   `:146-149` applies only to an explicit zero.
6. `derived_name`. `generate.go:152-154` says of the derived common name that it is ""
   if no CN attribute is present, that the split is on unescaped commas, and that
   the name is exact for generated certificates. `strings.Split` (`:156`) separates
   at escaped commas too, every part that starts with "CN=" is taken for the name
   (`:157`), and nothing is unescaped. So from a certificate without a common name
   and with the organization "a,CN=b" the name "b" is derived (the counterexample,
   with "a" for "b"); a generated "a,b" comes back as `a\`; and a character that
   `pkix.Name.String` escapes comes back with its backslash, which is escaped in
   turn, one, three and seven after as many rotations. `DerivedName.cfg` lets
   callers give only names that need no escaping, which is what leaves the first
   case; with `MCOptions` in place of `MCPlainOptions` TLC finds the last.

## The proofs

All theorems hold for every set of certificates, keys and passphrases and every
set of inputs that satisfies the assumptions the modules name:
`MaterialAssumption` (certificates, keys, ciphertexts and `Noise` are different
bytes and not empty, CA certificates are certificates, the empty passphrase is one),
`QuirkAssumption` (a certificate does not start with the keystore magic),
`StreamsAssumption` and `InputsAssumption` (inputs are block sequences, or
containers), `PendingAssumption` (no result looks like "no result yet");
for `Conversion` `SentinelAssumption` (neither does an origin or a reading) and
`FilesAssumption` (foreign files are containers; "certkit", the name `exportJKS`
gives its entry, is an alias, and Nil is none); for `Pkcs8Crypt` `BlockSizeAssumption` (1 to 255) and `FilesAssumption` (another key
does not decrypt to the writer's bytes); for `Rotation` `CharAssumption` (comma and
backslash are escaped characters, labels are characters that are not) and well-formed
options; for `Observe` `NamesAssumption` (loggers, nil and options are different)
and `OptionsAssumption`.
TLC evaluates them in the runs.

- `PEMStreamProofs`. `TypeCorrect`, `ScanInvariant` and `LeafRule` are the
  invariants `TypeOK`, `ScanInv` and `LeafLeads`; `LoopImplementsContract` is the
  refinement of `ParseCall`. The inductive invariant is `IInv == TypeOK /\ ScanInv`
  where `ScanInv` says that the lists are aligned (`ListsAligned`), that `certPEMs`
  lists exactly the certificates among the blocks read, in increasing order
  (`CertsListed`), and that every key block read decoded and the last one's key is
  the one kept (`LastKeyKept`). Alignment alone would be preserved, but it does
  not say what is returned; the other two say where the lists come from, and are
  dropped once the call has failed, when `pos` has passed the bad block. At the
  end of the loop `CertsListed` makes `certPEMs` an increasing listing of
  `CertPositions(data)`, and `ListingIsInOrder` (an increasing listing of a set of
  numbers is unique) turns it into the contract's `InOrder(CertPositions(data))`.
  When a key block fails, `LastKeyKept` says it is the first one that does, which
  is the one the contract blames.
  The four other invariants speak of the returned answer, so `AnswerInvariant`
  (whatever is returned is `ParsePEM` of the stream) reduces each to a statement
  about the contract: `CertificatesAreConserved` puts the leaf back where
  `RemoveAt` took it from (`ClassifiedConserves`); `IgnoredBlocksAreInert` follows
  the key and certificate positions of a stream through the listing of the blocks
  that are kept (`ThroughListing`: order, minimum and maximum are the same);
  `DetectionCoversWhatIsParsed` counts block types; `BlamedPassphraseIsWrong` looks
  at the one block whose error is returned.
- `ParseDispatchProofs`. `DispatchInv` reads off `pc` which attempts have failed;
  each step either hands over to the next attempt or returns `Parse`'s answer
  (`StepDispatch`), which gives `DispatchImplementsContract`. `TypeCorrect` says that
  every answer is well formed (`IsAnswer`: a normalized key, no chain without a
  leaf, an empty bundle with an error and a leaf or a key without one); it needs
  what each parser answers for a container (`ParseAnswers`). The other theorems
  are about `Parse` alone: a parser disowns every container but its own
  (`Disowned`), so with an honest hint the answer is the container's own parser's
  (`HonestHintDecides`, theorem `DefinitiveErrorsPropagate`), and with a dishonest
  one every attempt before the right one fails (`ReadableIsRead`, theorem
  `ReadableContainersRead`). `AmbiguityIsReported` adds which containers those
  parsers report as several (`SeveralReported`): a set of aliases has another
  member, a list of certificates another end entity, whatever their order.
- `ConversionProofs`. The argument has three layers. First, what `Export` writes for
  a bundle that came out of a parser (`Writes`, `FileOf`). Second, what the parser of
  the same format makes of that file (`NativeReadsBack`, `EntryReadsBack`): it gives
  `ReadBack(b, f)` if the passphrase opens the file (`Opens`) and an error if not.
  For PEM this rests on the layout of a written stream, a leaf, perhaps a key
  block, a chain (`Laid`, `LaidCerts`, `LaidParse`), for the others on the containers'
  records. `ReadBackIsProjection` compares `ReadBack` with the format's `Project`,
  and `ReadBackKeepsLeaf` says that a leaf is replaced only by an end entity and an
  end entity never. Third, `Parse` gives that answer or disowns the file
  (`NativeOrNothing`), and does not disown it without a stray PEM marker
  (`ReadableIsRead`). The inductive invariant `IInv` has to remember what the
  properties do not mention: the file is a container (`FileInv`, so that every
  parser's answer is well formed), it is what `Export` wrote for the origin, whose
  bundle is an `IsSource` again; the result at hand is what the last call makes of
  the file (`ResultInv`); and after the first drift the leaf at hand is an end
  entity, in the result while the file is open and in the origin as soon as it may
  be read again (`DriftInv`). The drift count alone is not inductive: nothing in it
  keeps the second drift away. The theorems `TypeCorrect`, `KeyIsGuarded`,
  `OwnFilesAreReadable`, `RoundTrips` and `LeafDriftsOnce` follow, each for every set
  of foreign files and every number of conversions.
- `Pkcs8CryptProofs`. `UnpadUndoesPad` and `UnpadAcceptsOnlyPadding` are about byte
  sequences of every length. The inductive invariant `CallInv` says that the
  passed guards hold and that what is returned is `Outcome`, a function of file and
  passphrase; `OutcomeIsDecrypt` equates it with the operator `Decrypt`, which gives
  the refinement `DecryptImplementsContract`.
- `RotationProofs`. The lemmas follow a name through a rotation: an ordinary name
  is printed unchanged (`EscapePlain`), any name is printed as a non-empty one that
  does not start with a comma (`EscapeType`), and printing hides and reveals no
  label (`EscapeHidesNothing`). So the first part of a subject that starts with
  "CN=" is the common name's unless the serial number hides one (`FirstStart`),
  what is printed behind it does not matter, and `commonNameFromSubject` returns
  the printed name up to its first comma (`CommonNameFound`, theorem
  `DerivedNameUsable`). The inductive invariant `RotationInv` says of both bundles
  that they are what they were asked to be (`UseOK`) and adds what the properties
  leave open: the bundle is `BundleOf` its leaf, a generated leaf has a name and no
  serial number, and a leaf that hides a name is known to (`misled`). `CharactersAreKept` needs where characters are printed: at
  increasing places with backslashes between them (`PlaceIncreases`, `EscapedAt`),
  so that without its backslashes the printed name is the name without its own;
  what is added to make it inductive is that a name without a comma is printed
  without one.
- `ObserveProofs`, for any number of calls. The inductive invariant `ObserveInv` is
  `TypeOK`, the untouched first span, and for each call `CallInv`: `SpanInv` (the
  spans by a call are exactly the one its local variable names), `RecordInv` (what
  is on it at each step), `ResultInv`, `LineInv`. Each step has a lemma that shows
  `CallInv` of its call; `OthersKeep` shows once and for all that a step that leaves
  a call's own spans and lines alone keeps its part. The refinement
  (`ContextCallsArePlain`) reads off `ResultInv`.
- `NumberLemmas`: minimum, maximum and rank in sets of numbers; every set of
  positions has one increasing listing (`ListingExists` by the smallest number that
  would be a counterexample, `ListingIsUnique`), which is `InOrder`; filtered and
  joined sequences.
- `ParsersProofs`: what `ParsePEM` and `Parse` return, case by case, and what every
  parser answers for a container.

Every invariant and every refinement of the passing runs is a theorem. Only
model-checked is the liveness property `Returns` of `PEMStream`: the prover does
not handle fairness and `ENABLED`. The proofs take the operators as they stand; that
`Filter` is `SelectSeq` is checked by TLC on short lists only, because the prover
cannot unfold a recursive operator of the library.

## What is left out

- The decoding and encoding libraries (`encoding/pem`, `crypto/x509`, go-pkcs12,
  go.mozilla.org/pkcs7, keystore-go): a container is what they decode. Their
  failures on valid input (random source, key derivation, `Store`) do not occur.
  The text match in `isKeystorePassphraseError` is modelled by its purpose.
- The order in which keystore-go lists aliases, which is a map's and differs from
  call to call: aliases are a set, and `ErrMultipleEntries` names the set.
- JCEKS stores behave as JKS stores whose load may fail, which is `JunkData` with
  the magic; case folding of aliases; markers that random ciphertext, salts or
  keys spell out by chance (a certificate's own bytes may, through `Quirk`);
  PKCS#12 archives with several keys, which the library refuses.
- AES-CBC and PBKDF2 themselves, and the DER structure of PBES2 beyond the checks
  of `parsePBES2`; the wording of errors; `Meta` fields other than fingerprint,
  `IsCA`, subject and SANs; `keyAlgorithmAndBits`.
- In `Rotation`: the validity window, `KeyBits`, key usages and the serial
  number of a certificate (that of its subject is an attribute, and modelled);
  failures of the random source and of `crypto/x509`; subjects with several
  attributes of a kind; `#` and spaces, which are escaped only at the ends of a name.
- In `Observe`: the values of attributes; sampling; providers that are replaced or
  shut down; contexts without a span of the caller's.
- The example program, which makes the calls `Conversion` chains, and build and CI
  files, which hold no program logic.

## Plan

Done: all components of the package, and a theorem for every safety property and
refinement a passing run checks. What remains, in this order:

1. The conditions under which the refuted statements do hold, as theorems: a wrong
   passphrase is reported as one if it is no fluke of the first key that fails; a
   definitive error survives an honest hint; a name without special characters is
   exact.
2. `Conversion` with two callers' files at once would add nothing, as calls share no
   state; worth adding is the certificate chain: that no conversion ever adds or
   reorders a certificate.
