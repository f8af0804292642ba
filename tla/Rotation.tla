------------------------------ MODULE Rotation ------------------------------
(***************************************************************************)
(* generate.go: a service that generates a self-signed certificate, or is  *)
(* given a foreign one, and rotates it again and again: Rotate makes the   *)
(* next bundle while the current one is served, then the service cuts over.*)
(* Rotate derives what its options leave out from Meta, so a name goes     *)
(* through pkix.Name.String, metaFromLeaf and commonNameFromSubject once   *)
(* per rotation.  Names are sequences of characters, of which the printed  *)
(* subject escapes those in Special.  An attribute's label, "CN=" for one, *)
(* counts as one character: none of its letters is escaped, so a value may *)
(* contain it, and printing neither makes nor breaks one.                  *)
(***************************************************************************)
EXTENDS Listing, FiniteSetsExt

CONSTANTS
    Char,             \* characters of names
    Special,          \* those pkix.Name.String puts a backslash before
    Comma, Backslash,
    CN,               \* the label "CN=" of the common name
    Serial, O,        \* those of the serial number and of an organization
    San,              \* DNS names and IP addresses, as strings
    Foreign,          \* certificates a service may start with
    Options,          \* the GenOpts a service may pass
    MaxKeys,          \* bound on the number of keys generated
    None              \* no bundle

ASSUME CharAssumption ==
    /\ {Comma, Backslash} \subseteq Special
    /\ Special \subseteq Char
    /\ Comma # Backslash
    /\ {CN, Serial, O} \subseteq Char \ Special
    /\ CN \notin {Serial, O}

Name == Seq(Char)

(* GenOpts: an empty field is derived by Rotate.  KeyBits and TTL have     *)
(* defaults of their own and are never derived.                            *)
GenOpts == [cn : Name, dns : Seq(San)]

(* serial is the subject's serial number; org stands for every attribute   *)
(* printed behind the common name.  key is the number of the RSA key, 0    *)
(* for a foreign one.                                                      *)
Certificate == [cn : Name, serial : Name, org : Name, dns : Seq(San), ips : Seq(San), key : Nat]

ASSUME InputsAssumption ==
    /\ Options \subseteq GenOpts
    /\ Foreign \subseteq {c \in Certificate : c.key = 0}

ASSUME MaxKeysAssumption == MaxKeys \in Nat \ {0}

(* The leaf, and of Meta what Rotate reads.                                *)
Bundle == [leaf : Certificate, meta : [subject : Name, sans : Seq(San)]]

ASSUME NoneAssumption == None \notin Bundle

-----------------------------------------------------------------------------
(* Where the i-th character of a name is printed.                          *)
Place(name, i) == i + Cardinality({j \in 1..i : name[j] \in Special})

Escape(name) ==
    [p \in 1..Place(name, Len(name)) |->
        IF \E i \in DOMAIN name : Place(name, i) = p
        THEN name[CHOOSE i \in DOMAIN name : Place(name, i) = p]
        ELSE Backslash]

Attribute(label, value) == IF value = <<>> THEN <<>> ELSE <<label>> \o Escape(value)

Separated(left, right) ==
    IF left = <<>> \/ right = <<>> THEN left \o right ELSE left \o <<Comma>> \o right

(* pkix.Name.String: of all attributes only the serial number is printed   *)
(* before the common name.                                                 *)
SubjectString(c) ==
    Separated(Attribute(Serial, c.serial), Separated(Attribute(CN, c.cn), Attribute(O, c.org)))

MetaFromLeaf(c) == [subject |-> SubjectString(c), sans |-> c.dns \o c.ips]

BundleOf(c) == [leaf |-> c, meta |-> MetaFromLeaf(c)]

(* strings.Split at every comma; the first part that starts with "CN=".    *)
CommonNameStarts(subject) ==
    {i \in DOMAIN subject : subject[i] = CN /\ (i = 1 \/ subject[i - 1] = Comma)}

UpToComma(s) ==
    LET commas == {i \in DOMAIN s : s[i] = Comma}
    IN IF commas = {} THEN s ELSE SubSeq(s, 1, Min(commas) - 1)

(* Mutant: the first backslash of an escape is cut off as well.            *)
CommonNameUnslashed(subject) ==
    IF CommonNameStarts(subject) = {} THEN <<>>
    ELSE LET cn == UpToComma(SubSeq(subject, Min(CommonNameStarts(subject)) + 1, Len(subject)))
         IN IF cn # <<>> /\ cn[Len(cn)] = Backslash THEN SubSeq(cn, 1, Len(cn) - 1) ELSE cn

(* Mutant: "CN=" is searched for anywhere, strings.Index instead of a      *)
(* split.                                                                  *)
CommonNameAnywhere(subject) ==
    LET starts == {i \in DOMAIN subject : subject[i] = CN}
    IN IF starts = {} THEN <<>>
       ELSE UpToComma(SubSeq(subject, Min(starts) + 1, Len(subject)))

(* Mutant: the rest of the subject is taken, other attributes included.    *)
CommonNameToEnd(subject) ==
    IF CommonNameStarts(subject) = {} THEN <<>>
    ELSE SubSeq(subject, Min(CommonNameStarts(subject)) + 1, Len(subject))

CommonNameFromSubject(subject) ==
    IF CommonNameStarts(subject) = {} THEN <<>>
    ELSE UpToComma(SubSeq(subject, Min(CommonNameStarts(subject)) + 1, Len(subject)))

(* Mutant: a missing common name is not refused.                           *)
GenerateUnnamed(opts, key) ==
    BundleOf([cn |-> opts.cn, serial |-> <<>>, org |-> <<>>, dns |-> opts.dns, ips |-> <<>>,
              key |-> key])

(* None when opts lacks a common name, the only error besides those of the *)
(* libraries.                                                              *)
GenerateSelfSigned(opts, key) ==
    IF opts.cn = <<>> THEN None
    ELSE BundleOf([cn |-> opts.cn, serial |-> <<>>, org |-> <<>>, dns |-> opts.dns,
                   ips |-> <<>>, key |-> key])

(* Mutant: DNSNames is derived only when opts is the zero value.           *)
RotateOptionsWhole(current, opts) ==
    IF opts.cn = <<>> /\ opts.dns = <<>>
    THEN [cn |-> CommonNameFromSubject(current.meta.subject), dns |-> current.meta.sans]
    ELSE opts

RotateOptions(current, opts) ==
    [cn  |-> IF opts.cn = <<>> THEN CommonNameFromSubject(current.meta.subject) ELSE opts.cn,
     dns |-> IF opts.dns = <<>> THEN current.meta.sans ELSE opts.dns]

Rotate(current, opts, key) == GenerateSelfSigned(RotateOptions(current, opts), key)

-----------------------------------------------------------------------------
VARIABLES
    current,  \* the bundle served
    next,     \* the bundle being distributed, or None
    given,    \* for both: the cn and sans last given by a caller or a foreign
              \* certificate, and whether that certificate hides another
    keys,     \* how many keys were generated
    refused   \* the last Rotate found no common name

vars == <<current, next, given, keys, refused>>

(* A part that starts with "CN=" is found where none was printed.          *)
Hides(value) == \E i \in 1..(Len(value) - 1) : value[i] = Comma /\ value[i + 1] = CN

Misleading(c) == Hides(c.serial) \/ (c.cn = <<>> /\ Hides(c.org))

Given(cn, sans, misled) == [cn |-> cn, sans |-> sans, misled |-> misled]

Nothing == Given(<<>>, <<>>, FALSE)

Init ==
    /\ next = None
    /\ refused = FALSE
    /\ \/ \E opts \in Options :
             /\ opts.cn # <<>>
             /\ current = GenerateSelfSigned(opts, 1)
             /\ keys = 1
             /\ given = [current |-> Given(opts.cn, opts.dns, FALSE), next |-> Nothing]
       \/ \E c \in Foreign :
             /\ current = BundleOf(c)
             /\ keys = 0
             /\ given = [current |-> Given(c.cn, c.dns \o c.ips, Misleading(c)), next |-> Nothing]

GivenNext(opts) ==
    LET old == given.current
    IN [cn     |-> IF opts.cn = <<>> THEN old.cn ELSE opts.cn,
        sans   |-> IF opts.dns = <<>> THEN old.sans ELSE opts.dns,
        misled |-> opts.cn = <<>> /\ old.misled]

(* A rotation may be repeated before the cut-over.                         *)
RotateNext(opts) ==
    LET made == Rotate(current, opts, keys + 1)
    IN /\ keys < MaxKeys
       /\ refused' = (made = None)
       /\ IF made = None
          THEN UNCHANGED <<next, given, keys>>
          ELSE /\ next' = made
               /\ keys' = keys + 1
               /\ given' = [given EXCEPT !.next = GivenNext(opts)]
       /\ UNCHANGED current

CutOver ==
    /\ next # None
    /\ current' = next
    /\ next' = None
    /\ given' = [given EXCEPT !.current = given.next]
    /\ refused' = FALSE
    /\ UNCHANGED keys

Next == CutOver \/ \E opts \in Options : RotateNext(opts)

Spec == Init /\ [][Next]_vars

-----------------------------------------------------------------------------
TypeOK ==
    /\ current \in Bundle
    /\ next \in Bundle \cup {None}
    /\ given.current.cn \in Name /\ given.current.sans \in Seq(San)
    /\ given.next.cn \in Name /\ given.next.sans \in Seq(San)
    /\ keys \in 0..MaxKeys
    /\ refused \in BOOLEAN
    /\ \A b \in {current, next} \ {None} : b.leaf.key # 0 => b.leaf.cn # <<>>

(* A bundle in use with what was asked of it.                              *)
InUse == {<<current, given.current>>} \cup
         (IF next = None THEN {} ELSE {<<next, given.next>>})

Plain(name) == \A i \in DOMAIN name : name[i] \notin Special

(* A common name without escaped characters survives any number of         *)
(* rotations, whatever the other attributes of the first certificate were, *)
(* unless one of those hides a name of its own.                            *)
PlainNameKept ==
    \A u \in InUse : Plain(u[2].cn) /\ ~u[2].misled => u[1].leaf.cn = u[2].cn

HasComma(name) == \E i \in DOMAIN name : name[i] = Comma

Bare(name) == Filter(name, Char \ {Backslash})

(* A common name without a comma keeps every character, escaped ones       *)
(* included, in order, through any number of rotations: nothing of it is   *)
(* lost and nothing of another attribute is taken in.                      *)
CharactersKept ==
    \A u \in InUse : ~HasComma(u[2].cn) /\ ~u[2].misled =>
        /\ Bare(u[1].leaf.cn) = Bare(u[2].cn)
        /\ Len(u[1].leaf.cn) >= Len(u[2].cn)

(* The SANs are those last given, in order, also when only the other       *)
(* option is; but from the first rotation on all of them are DNS names,    *)
(* those that were IP addresses included.                                  *)
SANsKept ==
    \A u \in InUse :
        /\ u[1].meta.sans = u[2].sans
        /\ u[1].leaf.key # 0 => u[1].leaf.dns = u[2].sans /\ u[1].leaf.ips = <<>>

(* A rotation is refused for want of a common name only when the foreign   *)
(* certificate in service has none, or hides an empty one in its serial    *)
(* number; a generated one can always be rotated, whatever characters its  *)
(* name is made of.                                                        *)
RefusedOnlyNameless ==
    refused => current.leaf.key = 0 /\ (current.leaf.cn = <<>> \/ Hides(current.leaf.serial))

(* generate.go:152-154: commonNameFromSubject returns "" if no CN          *)
(* attribute is present, splits on unescaped commas, and is exact for      *)
(* subjects generated by GenerateSelfSigned.                               *)
NameExactWherePromised ==
    LET leaf == current.leaf
    IN leaf.key # 0 \/ leaf.cn = <<>> =>
           CommonNameFromSubject(current.meta.subject) = leaf.cn

=============================================================================
