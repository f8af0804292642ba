--------------------------- MODULE ParseDispatch ---------------------------
(***************************************************************************)
(* parse (parse.go): DetectFormat's hint, the hinted parser, and the       *)
(* fallback that tries the parsers in turn.  One step is one attempt.      *)
(***************************************************************************)
EXTENDS Parsers

CONSTANTS
    Inputs,  \* the data a call may be given
    Pending  \* the value of result before the call returns

ASSUME InputsAssumption == \A d \in Inputs : IsContainer(d)

ASSUME PendingAssumption == Pending \notin Result

VARIABLES
    data,    \* the input
    pass,    \* the passphrase of the call
    pc,      \* the attempt that comes next
    result   \* what the call returned, or Pending

vars == <<data, pass, pc, result>>

Attempt == {"hint", "begin", "pkcs12", "pkcs7", "der", "jks", "give up", "returned"}

Init ==
    /\ data \in Inputs
    /\ pass \in Pass
    /\ pc = "hint"
    /\ result = Pending

ReturnResult(r) == result' = r /\ pc' = "returned" /\ UNCHANGED <<data, pass>>

Continue(next) == pc' = next /\ UNCHANGED <<data, pass, result>>

(* Mutant: every error of the hinted parser falls through.                 *)
TryHintUnlessError ==
    LET format == DetectFormat(data)
        r == ParseByFormat(format, data, pass)
    IN /\ pc = "hint"
       /\ IF format # Unknown /\ r.err = "none" THEN ReturnResult(r) ELSE Continue("begin")

(* Mutant: the hint is final.                                              *)
TryHintAlways ==
    LET format == DetectFormat(data)
        r == ParseByFormat(format, data, pass)
    IN /\ pc = "hint"
       /\ IF format # Unknown THEN ReturnResult(r) ELSE Continue("begin")

TryHint ==
    LET format == DetectFormat(data)
        r == ParseByFormat(format, data, pass)
    IN /\ pc = "hint"
       /\ IF format # Unknown /\ r.err # "unrecognized"
          THEN ReturnResult(r)
          ELSE Continue("begin")

TryBegin ==
    /\ pc = "begin"
    /\ IF "begin" \in Marks(data)
       THEN ReturnResult(ParsePEM(Blocks(data), pass))
       ELSE Continue("pkcs12")

(* Mutant: the fallback stops at the first definitive error.               *)
TryParserUnlessDisowned(attempt, r, next) ==
    /\ pc = attempt
    /\ IF r.err # "unrecognized" THEN ReturnResult(r) ELSE Continue(next)

(* A fallback parser's bundle is returned, its error dropped.              *)
TryParser(attempt, r, next) ==
    /\ pc = attempt
    /\ IF r.err = "none" THEN ReturnResult(r) ELSE Continue(next)

TryPKCS12 == TryParser("pkcs12", ParsePKCS12(data, pass), "pkcs7")

TryPKCS7 == TryParser("pkcs7", ParsePKCS7(data), "der")

TryDER == TryParser("der", ParseDER(data), "jks")

TryJKS == TryParser("jks", ParseJKS(data, pass), "give up")

GiveUp == pc = "give up" /\ ReturnResult(Fail("unrecognized"))

Next == TryHint \/ TryBegin \/ TryPKCS12 \/ TryPKCS7 \/ TryDER \/ TryJKS \/ GiveUp

Spec == Init /\ [][Next]_vars

-----------------------------------------------------------------------------
Returned == pc = "returned"

(* Whatever a call is given, truncated and corrupted containers included,  *)
(* it has no result until its attempts are over and a well-formed one then.*)
TypeOK ==
    /\ pass \in Pass
    /\ pc \in Attempt
    /\ ~Returned => result = Pending
    /\ Returned => IsAnswer(result)

(* Without a stray PEM marker every container that can be read is read,    *)
(* even when the hint names another format.                                *)
HintNeverHidesData ==
    Returned /\ ("begin" \in Marks(data) => data.kind = "pem") =>
        (NativeParse(data, pass).err = "none" => result.err = "none")

(* The format of the hint is the container's own.                          *)
HonestHint(d) ==
    CASE d.kind = "pem" -> TRUE
      [] d.kind = "junk" -> TRUE
      [] OTHER -> DetectFormat(d) = d.kind

(* When the hint is right, parse gives its parser's answer whatever it is: *)
(* a definitive error is not masked by a fallback (parse.go:99-103).       *)
DefinitiveErrorsKept == Returned /\ HonestHint(data) => result = NativeParse(data, pass)

(* What there is to choose from in a container of several bundles.         *)
ToChooseFrom(d) ==
    CASE d.kind = "jks" -> DOMAIN d.entries
      [] d.kind = "pkcs7" -> Range(d.certs) \ CA
      [] OTHER -> {}

(* A keystore with two entries or a PKCS#7 bag with two end entities, and  *)
(* nothing wrong with the passphrase.                                      *)
Ambiguous(d, p) ==
    \/ /\ d.kind = "jks" /\ p = d.pass
       /\ \E a, b \in DOMAIN d.entries : a # b
    \/ /\ d.kind = "pkcs7"
       /\ \E i, j \in DOMAIN d.certs : i # j /\ {d.certs[i], d.certs[j]} \cap CA = {}

(* parse never picks one of several bundles, whatever their order, and     *)
(* whether the others could be read or not: when the hint is right the     *)
(* caller is told that there are several, and is told so only if there     *)
(* are, with all of them and nothing else to choose from.                  *)
AmbiguityReported ==
    Returned =>
        /\ HonestHint(data) /\ Ambiguous(data, pass) => result.err = "multiple"
        /\ result.err = "multiple" => Ambiguous(data, pass) /\ result.aliases = ToChooseFrom(data)

(* parse.go:103-105 and README: when the hinted parser disowns the data,   *)
(* every parser is tried in turn, so data one of them reads is read.       *)
EveryParserTried ==
    Returned => (NativeParse(data, pass).err = "none" => result.err = "none")

(* parse.go:99-103, errors.go:34 and :48: a definitive error of the        *)
(* container's own parser, wrong passphrase or several entries, is what    *)
(* the caller gets, also when the hint did not find that parser.           *)
ErrorsReported ==
    Returned /\ ("begin" \in Marks(data) => data.kind = "pem") =>
        (NativeParse(data, pass).err \in {"wrong_passphrase", "multiple"} =>
            result.err = NativeParse(data, pass).err)

(* Attempt by attempt, what parse returns, and only once, is Parse's       *)
(* answer: the order of the attempts and their early returns amount to it. *)
Call == INSTANCE ParseCall WITH Answer <- Parse

ImplementsParseCall == Call!Spec

=============================================================================
