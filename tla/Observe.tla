------------------------------ MODULE Observe ------------------------------
(***************************************************************************)
(* obs.go: concurrent calls of ParseContext, ParseEntryContext and         *)
(* ExportContext, which share the application's loggers and the global     *)
(* TracerProvider.  A call folds its options; with none that counts it is  *)
(* the plain function, otherwise observe runs that inside a span and       *)
(* writes a log line.  What the plain function does is Parsers' and        *)
(* Exporters' matter; here it returns, returns an error or panics.         *)
(***************************************************************************)
EXTENDS Naturals, Sequences, FiniteSets, FiniteSetsExt

CONSTANTS
    Call,         \* concurrent calls
    Operation,    \* for each call: the function called
    Application,  \* the program that makes them
    Logger,       \* loggers WithLogger is given
    Broken,       \* those whose methods panic, a nil pointer in the interface
    NilLogger,    \* the nil interface
    Tracing,      \* the option WithTracing()
    OptionLists,  \* the options a call may be given
    Nop,          \* nopLogger
    Pending       \* the result of a call that has none yet

ASSUME NamesAssumption ==
    /\ Application \notin Call
    /\ Broken \subseteq Logger
    /\ Tracing \notin Logger \cup {NilLogger}
    /\ NilLogger \notin Logger
    /\ Nop \notin Logger \cup {NilLogger}

Option == Logger \cup {NilLogger, Tracing}

ASSUME OptionsAssumption == OptionLists \subseteq Seq(Option)

ASSUME OperationAssumption == Operation \in [Call -> {"Parse", "ParseEntry", "Export"}]

Outcome == {"ok", "error", "panic"}

ASSUME PendingAssumption == Pending \notin Outcome

(* What is known of a call before it runs, and of its result.              *)
InputAttribute == {"format", "input_size", "chain_len", "has_private_key"}

ResultAttribute == {"output_size", "subject", "serial", "not_after"}

Attribute == InputAttribute \cup ResultAttribute

(* parseAttrs and exportAttrs: a failed call has no result to describe.    *)
Attributes(operation, outcome) ==
    IF operation = "Export"
    THEN {"format", "chain_len", "has_private_key"}
         \cup (IF outcome = "ok" THEN {"output_size"} ELSE {})
    ELSE {"format", "input_size"}
         \cup (IF outcome = "ok"
               THEN {"chain_len", "has_private_key", "subject", "serial", "not_after"}
               ELSE {})

Span == [by : Call \cup {Application}, attrs : SUBSET Attribute, status : {"Unset", "Error"}, ends : Nat]

Line == [by : Call, logger : Logger, level : {"debug", "error"}, attrs : SUBSET Attribute,
         span : Nat]

Label == {"call", "plain", "start", "run", "record", "log", "end", "returned"}

-----------------------------------------------------------------------------
VARIABLES
    opts,       \* for each call: its options
    plain,      \* what the plain function makes of its input
    pc,         \* the step that comes next
    ctx,        \* the number of the span its context carries
    span,       \* the number of the span observe started, 0 if nil or a no-op
    result,     \* what it returns, once known
    spans,      \* every span started, ended or not; the first is the application's
    lines,      \* the log lines written
    installed   \* the application has installed a TracerProvider

vars == <<opts, plain, pc, ctx, span, result, spans, lines, installed>>

Started(by) == [by |-> by, attrs |-> {}, status |-> "Unset", ends |-> 0]

Init ==
    /\ opts \in [Call -> OptionLists]
    /\ plain \in [Call -> Outcome]
    /\ pc = [c \in Call |-> "call"]
    /\ ctx = [c \in Call |-> 1]
    /\ span = [c \in Call |-> 0]
    /\ result = [c \in Call |-> Pending]
    /\ spans = <<Started(Application)>>
    /\ lines = <<>>
    /\ installed \in BOOLEAN

(* newObsConfig.                                                           *)
Given(list, S) == {i \in DOMAIN list : list[i] \in S}

Traced(list) == Given(list, {Tracing}) # {}

Active(list) == Given(list, Logger \cup {Tracing}) # {}

(* Mutant: WithLogger(nil) takes the logger away.                          *)
LastLoggerOrNil(list) ==
    LET given == Given(list, Logger \cup {NilLogger})
    IN IF given = {} THEN Nop ELSE list[Max(given)]

LastLogger(list) ==
    LET given == Given(list, Logger)
    IN IF given = {} THEN Nop ELSE list[Max(given)]

Goto(c, label) == pc' = [pc EXCEPT ![c] = label]

Resolve(c) ==
    /\ pc[c] = "call"
    /\ Goto(c, IF Active(opts[c]) THEN "start" ELSE "plain")
    /\ UNCHANGED <<opts, plain, ctx, span, result, spans, lines, installed>>

RunPlain(c) ==
    /\ pc[c] = "plain"
    /\ Goto(c, "returned")
    /\ result' = [result EXCEPT ![c] = plain[c]]
    /\ UNCHANGED <<opts, plain, ctx, span, spans, lines, installed>>

(* Mutant: without tracing, the span of the caller's context is used.      *)
StartSpanOrJoin(c) ==
    /\ pc[c] = "start"
    /\ Goto(c, "run")
    /\ IF Traced(opts[c]) /\ installed
       THEN /\ spans' = Append(spans, Started(c))
            /\ span' = [span EXCEPT ![c] = Len(spans) + 1]
            /\ ctx' = [ctx EXCEPT ![c] = Len(spans) + 1]
       ELSE span' = [span EXCEPT ![c] = ctx[c]] /\ UNCHANGED <<spans, ctx>>
    /\ UNCHANGED <<opts, plain, result, lines, installed>>

(* Before a provider is installed a span is a no-op, and the context it    *)
(* comes with still names the caller's.                                    *)
StartSpan(c) ==
    /\ pc[c] = "start"
    /\ Goto(c, "run")
    /\ IF Traced(opts[c]) /\ installed
       THEN /\ spans' = Append(spans, Started(c))
            /\ span' = [span EXCEPT ![c] = Len(spans) + 1]
            /\ ctx' = [ctx EXCEPT ![c] = Len(spans) + 1]
       ELSE UNCHANGED <<spans, span, ctx>>
    /\ UNCHANGED <<opts, plain, result, lines, installed>>

Run(c) ==
    /\ pc[c] = "run"
    /\ Goto(c, IF plain[c] = "panic" THEN "end" ELSE "record")
    /\ result' = [result EXCEPT ![c] = plain[c]]
    /\ UNCHANGED <<opts, plain, ctx, span, spans, lines, installed>>

OnSpan(c, s) == spans' = IF span[c] = 0 THEN spans ELSE [spans EXCEPT ![span[c]] = s]

(* Mutant: the status is the outcome's name.                               *)
RecordOutcome(c) ==
    /\ pc[c] = "record"
    /\ Goto(c, "log")
    /\ OnSpan(c, [spans[span[c]] EXCEPT
                    !.attrs = Attributes(Operation[c], result[c]),
                    !.status = result[c]])
    /\ UNCHANGED <<opts, plain, ctx, span, result, lines, installed>>

(* Mutant: the error is recorded, the status left unset.                   *)
RecordWithoutStatus(c) ==
    /\ pc[c] = "record"
    /\ Goto(c, "log")
    /\ OnSpan(c, [spans[span[c]] EXCEPT !.attrs = Attributes(Operation[c], result[c])])
    /\ UNCHANGED <<opts, plain, ctx, span, result, lines, installed>>

(* setSpanAttrs, and recordSpanError on an error.                          *)
Record(c) ==
    /\ pc[c] = "record"
    /\ Goto(c, "log")
    /\ OnSpan(c, [spans[span[c]] EXCEPT
                    !.attrs = Attributes(Operation[c], result[c]),
                    !.status = IF result[c] = "error" THEN "Error" ELSE @])
    /\ UNCHANGED <<opts, plain, ctx, span, result, lines, installed>>

Panics(logger) == logger \in Broken \cup {NilLogger}

Written(c, logger, on) ==
    [by |-> c, logger |-> logger, level |-> IF result[c] = "error" THEN "error" ELSE "debug",
     attrs |-> Attributes(Operation[c], result[c]), span |-> on]

(* Mutant: the line is written with the caller's context.                  *)
WriteLineOutside(c) ==
    LET logger == LastLogger(opts[c])
    IN /\ pc[c] = "log"
       /\ Goto(c, "end")
       /\ result' = IF Panics(logger) THEN [result EXCEPT ![c] = "panic"] ELSE result
       /\ lines' = IF logger = Nop \/ Panics(logger) THEN lines
                   ELSE Append(lines, Written(c, logger, 1))
       /\ UNCHANGED <<opts, plain, ctx, span, spans, installed>>

WriteLine(c) ==
    LET logger == LastLogger(opts[c])
    IN /\ pc[c] = "log"
       /\ Goto(c, "end")
       /\ result' = IF Panics(logger) THEN [result EXCEPT ![c] = "panic"] ELSE result
       /\ lines' = IF logger = Nop \/ Panics(logger) THEN lines
                   ELSE Append(lines, Written(c, logger, ctx[c]))
       /\ UNCHANGED <<opts, plain, ctx, span, spans, installed>>

(* Mutant: End is called at the end of observe, not deferred.              *)
EndSpanUnlessPanic(c) ==
    /\ pc[c] = "end"
    /\ Goto(c, "returned")
    /\ IF result[c] = "panic" THEN UNCHANGED spans
       ELSE OnSpan(c, [spans[span[c]] EXCEPT !.ends = @ + 1])
    /\ UNCHANGED <<opts, plain, ctx, span, result, lines, installed>>

(* The deferred call, on the way out of a return or a panic.               *)
EndSpan(c) ==
    /\ pc[c] = "end"
    /\ Goto(c, "returned")
    /\ OnSpan(c, [spans[span[c]] EXCEPT !.ends = @ + 1])
    /\ UNCHANGED <<opts, plain, ctx, span, result, lines, installed>>

Install ==
    /\ ~installed
    /\ installed' = TRUE
    /\ UNCHANGED <<opts, plain, pc, ctx, span, result, spans, lines>>

Step(c) ==
    \/ Resolve(c) \/ RunPlain(c) \/ StartSpan(c) \/ Run(c)
    \/ Record(c) \/ WriteLine(c) \/ EndSpan(c)

Next == Install \/ \E c \in Call : Step(c)

Spec == Init /\ [][Next]_vars

-----------------------------------------------------------------------------
TypeOK ==
    /\ opts \in [Call -> OptionLists]
    /\ plain \in [Call -> Outcome]
    /\ pc \in [Call -> Label]
    /\ ctx \in [Call -> 1..Len(spans)]
    /\ span \in [Call -> 0..Len(spans)]
    /\ result \in [Call -> Outcome \cup {Pending}]
    /\ spans \in Seq(Span)
    /\ lines \in Seq(Line)
    /\ installed \in BOOLEAN

Returned(c) == pc[c] = "returned"

SpansOf(c) == {s \in DOMAIN spans : spans[s].by = c}

(* A call starts a span only if it traces, and one at most; the span is    *)
(* open while the call runs and ended, once, when the caller has the       *)
(* answer or the panic, on whatever path observe was left.                 *)
SpanEndsWithCall ==
    \A c \in Call :
        /\ SpansOf(c) \subseteq {span[c]}
        /\ SpansOf(c) # {} => Traced(opts[c])
        /\ \A s \in SpansOf(c) : spans[s].ends = IF Returned(c) THEN 1 ELSE 0

(* An ended span has error status iff the plain function returned an       *)
(* error, also when the logger failed afterwards, and describes a result   *)
(* iff there was one.  One that panicked leaves a span without attributes, *)
(* which no status tells from a success.                                   *)
StatusTellsOutcome ==
    \A c \in Call : \A s \in SpansOf(c) : Returned(c) =>
        /\ spans[s].status = "Error" <=> plain[c] = "error"
        /\ spans[s].attrs \cap ResultAttribute # {} <=> plain[c] = "ok"
        /\ spans[s].attrs = {} <=> plain[c] = "panic"

LinesOf(c) == {i \in DOMAIN lines : lines[i].by = c}

IsLastLogger(logger, list) ==
    \E i \in Given(list, Logger) : logger = list[i] /\ \A j \in Given(list, Logger) : j <= i

(* A call that returns has written one line to the last logger it was      *)
(* given and none to another, at error level iff it returns an error, and  *)
(* the line is correlated with the call's own span if it has one, with the *)
(* same attributes, and with the caller's otherwise.  A panic leaves no    *)
(* line.                                                                   *)
LinesTellOutcome ==
    \A c \in Call : Returned(c) =>
        IF Given(opts[c], Logger) = {} \/ result[c] = "panic" THEN LinesOf(c) = {}
        ELSE \E i \in LinesOf(c) :
                /\ LinesOf(c) = {i}
                /\ IsLastLogger(lines[i].logger, opts[c])
                /\ lines[i].level = IF result[c] = "error" THEN "error" ELSE "debug"
                /\ lines[i].span = IF SpansOf(c) = {} THEN 1 ELSE span[c]
                /\ \A s \in SpansOf(c) : lines[i].attrs = spans[s].attrs

(* The span of the caller's context is neither ended nor changed.          *)
CallersSpanUntouched == spans[1] = Started(Application)

(* obs.go:26-28 and README.md:85-87: without options a context-aware call  *)
(* is the plain one.  Nor does any option change what is returned; only a  *)
(* logger that panics itself does.                                         *)
Plain == INSTANCE PlainCalls
    WITH plain  <- [c \in Call |-> IF LastLogger(opts[c]) \in Broken THEN "panic" ELSE plain[c]],
         answer <- [c \in Call |-> IF Returned(c) THEN result[c] ELSE Pending]

ImplementsPlainCalls == Plain!Spec

=============================================================================
