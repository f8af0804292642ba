--------------------------- MODULE ObserveProofs ---------------------------
(***************************************************************************)
(* Proofs about Observe, for any number of calls, loggers and options:     *)
(* what a call leaves behind in spans and lines is its own affair, and     *)
(* follows from its options and from what the plain function did.          *)
(***************************************************************************)
EXTENDS Observe, NumberLemmas, SequenceTheorems, TLAPS

-----------------------------------------------------------------------------
(* Options.                                                                *)

(* The logger a call uses is the last one given, or nopLogger.             *)
LEMMA LoggerUsed ==
    ASSUME NEW list \in Seq(Option)
    PROVE  /\ Given(list, Logger) = {} => LastLogger(list) = Nop
           /\ Given(list, Logger) # {} =>
                  LastLogger(list) \in Logger /\ IsLastLogger(LastLogger(list), list)
<1>1. Len(list) \in Nat /\ DOMAIN list = 1..Len(list)
  OBVIOUS
<1>2. CASE Given(list, Logger) = {}
  BY <1>2 DEF LastLogger
<1>3. CASE Given(list, Logger) # {}
  <2> DEFINE m == Max(Given(list, Logger))
  <2>1. Given(list, Logger) \in SUBSET (0..Len(list))
    BY <1>1 DEF Given
  <2>2. m \in Given(list, Logger) /\ \A j \in Given(list, Logger) : j <= m
    BY <1>1, <1>3, <2>1, MaxInSet
  <2>3. LastLogger(list) = list[m]
    BY <1>3 DEF LastLogger
  <2> HIDE DEF m
  <2>4. list[m] \in Logger
    BY <2>2 DEF Given
  <2> QED
    BY <1>3, <2>2, <2>3, <2>4 DEF IsLastLogger
<1> QED
  BY <1>2, <1>3

(* The nil interface is never called, and nopLogger never panics.          *)
LEMMA LoggerPanics ==
    ASSUME NEW list \in Seq(Option)
    PROVE  /\ Panics(LastLogger(list)) <=> LastLogger(list) \in Broken
           /\ LastLogger(list) = Nop <=> Given(list, Logger) = {}
           /\ Panics(LastLogger(list)) => Given(list, Logger) # {}
BY LoggerUsed, NamesAssumption DEF Panics

(* Something is said of every call that returns, and of a result iff there *)
(* is one.                                                                 *)
LEMMA AttributesType ==
    ASSUME NEW operation, NEW outcome
    PROVE  /\ Attributes(operation, outcome) \in SUBSET Attribute
           /\ Attributes(operation, outcome) # {}
           /\ Attributes(operation, outcome) \cap ResultAttribute # {} <=> outcome = "ok"
<1>1. "format" \in Attributes(operation, outcome)
  BY DEF Attributes
<1>2. Attributes(operation, outcome) \in SUBSET Attribute
  BY DEF Attributes, Attribute, InputAttribute, ResultAttribute
<1>3. CASE outcome = "ok"
  <2>1. \/ "output_size" \in Attributes(operation, outcome) \cap ResultAttribute
        \/ "subject" \in Attributes(operation, outcome) \cap ResultAttribute
    BY <1>3 DEF Attributes, ResultAttribute
  <2> QED
    BY <1>1, <1>2, <1>3, <2>1
<1>4. CASE outcome # "ok"
  <2>1. Attributes(operation, outcome) \cap ResultAttribute = {}
    BY <1>4 DEF Attributes, ResultAttribute
  <2> QED
    BY <1>1, <1>2, <1>4, <2>1
<1> QED
  BY <1>3, <1>4

-----------------------------------------------------------------------------
(* The inductive invariant, call by call.                                  *)

Expected(c) == IF LastLogger(opts[c]) \in Broken THEN "panic" ELSE plain[c]

(* What is said of a call.                                                 *)
Described(c) == IF plain[c] = "panic" THEN {} ELSE Attributes(Operation[c], plain[c])

SpanInv(c) ==
    /\ span[c] = 0 => SpansOf(c) = {} /\ ctx[c] = 1
    /\ span[c] # 0 => SpansOf(c) = {span[c]} /\ ctx[c] = span[c] /\ Traced(opts[c])
    /\ pc[c] \in {"call", "plain", "start"} => span[c] = 0

(* What is on the span, step by step.                                      *)
RecordInv(c) ==
    span[c] # 0 =>
        /\ spans[span[c]].ends = IF Returned(c) THEN 1 ELSE 0
        /\ pc[c] \in {"run", "record"} =>
               spans[span[c]].status = "Unset" /\ spans[span[c]].attrs = {}
        /\ pc[c] \in {"log", "end", "returned"} =>
               /\ spans[span[c]].status = IF plain[c] = "error" THEN "Error" ELSE "Unset"
               /\ spans[span[c]].attrs = Described(c)

ResultInv(c) ==
    /\ pc[c] \in {"call", "plain", "start", "run"} => result[c] = Pending
    /\ pc[c] \in {"record", "log"} => result[c] = plain[c] /\ plain[c] # "panic"
    /\ pc[c] \in {"end", "returned"} => result[c] = Expected(c)
    /\ pc[c] = "plain" => ~Active(opts[c])

LineInv(c) ==
    IF pc[c] \in {"end", "returned"} /\ Given(opts[c], Logger) # {} /\ result[c] # "panic"
    THEN \E i \in LinesOf(c) :
            /\ LinesOf(c) = {i}
            /\ IsLastLogger(lines[i].logger, opts[c])
            /\ lines[i].level = IF result[c] = "error" THEN "error" ELSE "debug"
            /\ lines[i].span = ctx[c]
            /\ lines[i].attrs = Described(c)
    ELSE LinesOf(c) = {}

CallInv(c) == SpanInv(c) /\ RecordInv(c) /\ ResultInv(c) /\ LineInv(c)

ObserveInv ==
    /\ TypeOK
    /\ Len(spans) >= 1
    /\ CallersSpanUntouched
    /\ \A c \in Call : CallInv(c)

-----------------------------------------------------------------------------
(* What one call does to the shared sequences.                             *)

(* A span is started.                                                      *)
LEMMA SpanAppended ==
    ASSUME spans \in Seq(Span), NEW c \in Call, spans' = Append(spans, Started(c))
    PROVE  /\ spans' \in Seq(Span)
           /\ Len(spans') = Len(spans) + 1
           /\ spans'[Len(spans) + 1] = Started(c)
           /\ \A s \in DOMAIN spans : s \in DOMAIN spans' /\ spans'[s] = spans[s]
           /\ SpansOf(c)' = SpansOf(c) \cup {Len(spans) + 1}
           /\ \A d \in Call \ {c} : SpansOf(d)' = SpansOf(d)
<1>1. Started(c) \in Span /\ Started(c).by = c
  BY DEF Started, Span
<1>2. /\ spans' \in Seq(Span)
      /\ Len(spans') = Len(spans) + 1
      /\ DOMAIN spans' = DOMAIN spans \cup {Len(spans) + 1}
      /\ spans'[Len(spans) + 1] = Started(c)
      /\ \A s \in DOMAIN spans : spans'[s] = spans[s]
      /\ Len(spans) + 1 \notin DOMAIN spans
  BY <1>1
<1> QED
  BY <1>1, <1>2 DEF SpansOf

(* A call's span is changed.                                               *)
LEMMA SpanChanged ==
    ASSUME TypeOK, NEW c \in Call, SpanInv(c), NEW s, s \in Span, s.by = c, OnSpan(c, s)
    PROVE  /\ spans' \in Seq(Span)
           /\ Len(spans') = Len(spans)
           /\ \A d \in Call : SpansOf(d)' = SpansOf(d)
           /\ span[c] # 0 => spans'[span[c]] = s
           /\ \A i \in DOMAIN spans : spans[i].by # c => spans'[i] = spans[i]
<1>1. CASE span[c] = 0
  BY <1>1 DEF OnSpan, TypeOK, SpansOf
<1>2. CASE span[c] # 0
  <2>1. spans' = [spans EXCEPT ![span[c]] = s]
    BY <1>2 DEF OnSpan
  <2>2. span[c] \in DOMAIN spans /\ spans[span[c]].by = c
    BY <1>2 DEF SpanInv, SpansOf
  <2>3. spans \in Seq(Span)
    BY DEF TypeOK
  <2>4. /\ spans' \in Seq(Span) /\ Len(spans') = Len(spans) /\ DOMAIN spans' = DOMAIN spans
        /\ spans'[span[c]] = s
        /\ \A i \in DOMAIN spans : i # span[c] => spans'[i] = spans[i]
    BY <2>1, <2>2, <2>3
  <2>5. \A i \in DOMAIN spans : spans'[i].by = spans[i].by
    BY <2>2, <2>4
  <2> QED
    BY <2>2, <2>4, <2>5 DEF SpansOf
<1> QED
  BY <1>1, <1>2

(* A line is written.                                                      *)
LEMMA LineAppended ==
    ASSUME lines \in Seq(Line), NEW c \in Call, NEW l \in Line, l.by = c,
           lines' = Append(lines, l)
    PROVE  /\ lines' \in Seq(Line)
           /\ lines'[Len(lines) + 1] = l
           /\ \A i \in DOMAIN lines : lines'[i] = lines[i]
           /\ LinesOf(c)' = LinesOf(c) \cup {Len(lines) + 1}
           /\ \A d \in Call \ {c} : LinesOf(d)' = LinesOf(d)
<1>1. /\ lines' \in Seq(Line)
      /\ DOMAIN lines' = DOMAIN lines \cup {Len(lines) + 1}
      /\ lines'[Len(lines) + 1] = l
      /\ \A i \in DOMAIN lines : lines'[i] = lines[i]
      /\ Len(lines) + 1 \notin DOMAIN lines
  OBVIOUS
<1> QED
  BY <1>1 DEF LinesOf

(* A call's part of the invariant depends on its own steps, spans and      *)
(* lines only.                                                             *)
LEMMA OthersKeep ==
    ASSUME NEW d \in Call, CallInv(d),
           opts' = opts, plain' = plain,
           pc'[d] = pc[d], ctx'[d] = ctx[d], span'[d] = span[d], result'[d] = result[d],
           SpansOf(d)' = SpansOf(d), \A s \in SpansOf(d) : spans'[s] = spans[s],
           LinesOf(d)' = LinesOf(d), \A i \in LinesOf(d) : lines'[i] = lines[i]
    PROVE  CallInv(d)'
<1>1. SpanInv(d)'
  BY DEF CallInv, SpanInv
<1>2. RecordInv(d)'
  <2>1. span[d] # 0 => spans'[span[d]] = spans[span[d]]
    BY DEF CallInv, SpanInv
  <2> QED
    BY <2>1 DEF CallInv, RecordInv, Returned, Described
<1>3. ResultInv(d)'
  BY DEF CallInv, ResultInv, Expected
<1>4. LineInv(d)'
  BY DEF CallInv, LineInv, Described
<1> QED
  BY <1>1, <1>2, <1>3, <1>4 DEF CallInv

(* A call that leaves spans and lines alone keeps the other calls' parts.  *)
LEMMA QuietStep ==
    ASSUME ObserveInv, NEW c \in Call, NEW d \in Call \ {c},
           opts' = opts, plain' = plain,
           pc'[d] = pc[d], ctx'[d] = ctx[d], span'[d] = span[d], result'[d] = result[d],
           spans' = spans, lines' = lines
    PROVE  CallInv(d)'
<1>1. SpansOf(d)' = SpansOf(d) /\ LinesOf(d)' = LinesOf(d)
  BY DEF SpansOf, LinesOf
<1> QED
  BY <1>1, OthersKeep DEF ObserveInv

-----------------------------------------------------------------------------
(* The steps of a call.                                                    *)

LEMMA InitInv == Init => ObserveInv
<1> SUFFICES ASSUME Init PROVE ObserveInv
  OBVIOUS
<1>1. Started(Application) \in Span /\ Started(Application).by = Application
  BY DEF Started, Span
<1>2. spans \in Seq(Span) /\ Len(spans) = 1 /\ spans[1] = Started(Application)
      /\ DOMAIN spans = {1} /\ lines \in Seq(Line) /\ DOMAIN lines = {}
  BY <1>1 DEF Init
<1>3. TypeOK
  BY <1>2 DEF Init, TypeOK, Label
<1>4. ASSUME NEW c \in Call PROVE CallInv(c)
  <2>1. SpansOf(c) = {} /\ LinesOf(c) = {}
    BY <1>1, <1>2, NamesAssumption DEF SpansOf, LinesOf
  <2>2. pc[c] = "call" /\ span[c] = 0 /\ ctx[c] = 1 /\ result[c] = Pending
    BY DEF Init
  <2> QED
    BY <2>1, <2>2 DEF CallInv, SpanInv, RecordInv, ResultInv, LineInv
<1> QED
  BY <1>2, <1>3, <1>4 DEF ObserveInv, CallersSpanUntouched

LEMMA ResolveStep ==
    ASSUME ObserveInv, NEW c \in Call, Resolve(c) PROVE ObserveInv'
<1>1. TypeOK'
  BY DEF ObserveInv, TypeOK, Resolve, Goto, Label
<1>2. CallInv(c)'
  <2>1. pc[c] = "call" /\ pc'[c] = IF Active(opts[c]) THEN "start" ELSE "plain"
    BY DEF ObserveInv, TypeOK, Resolve, Goto
  <2>2. CallInv(c) /\ SpansOf(c)' = SpansOf(c) /\ LinesOf(c)' = LinesOf(c)
    BY DEF ObserveInv, Resolve, SpansOf, LinesOf
  <2>3. SpanInv(c)' /\ RecordInv(c)' /\ LineInv(c)'
    BY <2>1, <2>2 DEF Resolve, CallInv, SpanInv, RecordInv, LineInv
  <2>4. ResultInv(c)'
    BY <2>1, <2>2 DEF Resolve, CallInv, ResultInv
  <2> QED
    BY <2>3, <2>4 DEF CallInv
<1>3. ASSUME NEW d \in Call \ {c} PROVE CallInv(d)'
  BY QuietStep DEF ObserveInv, TypeOK, Resolve, Goto
<1> QED
  BY <1>1, <1>2, <1>3 DEF ObserveInv, CallersSpanUntouched, Resolve

LEMMA RunPlainStep ==
    ASSUME ObserveInv, NEW c \in Call, RunPlain(c) PROVE ObserveInv'
<1>1. TypeOK'
  BY DEF ObserveInv, TypeOK, RunPlain, Goto, Label
<1>2. CallInv(c)'
  <2>1. pc[c] = "plain" /\ pc'[c] = "returned" /\ result'[c] = plain[c]
    BY DEF ObserveInv, TypeOK, RunPlain, Goto
  <2>2. CallInv(c) /\ SpansOf(c)' = SpansOf(c) /\ LinesOf(c)' = LinesOf(c)
    BY DEF ObserveInv, RunPlain, SpansOf, LinesOf
  <2>3. opts[c] \in Seq(Option) /\ ~Active(opts[c])
    BY <2>1, <2>2, OptionsAssumption DEF ObserveInv, TypeOK, CallInv, ResultInv
  <2>4. Given(opts[c], Logger) = {}
    BY <2>3 DEF Active, Given
  <2>5. LastLogger(opts[c]) \notin Broken
    BY <2>3, <2>4, LoggerPanics
  <2>6. span[c] = 0 /\ span' = span /\ ctx' = ctx /\ opts' = opts /\ plain' = plain
    BY <2>1, <2>2 DEF CallInv, SpanInv, RunPlain
  <2>7. SpanInv(c)' /\ RecordInv(c)'
    BY <2>2, <2>6 DEF CallInv, SpanInv, RecordInv
  <2>8. ResultInv(c)'
    BY <2>1, <2>5, <2>6 DEF ResultInv, Expected
  <2>9. LineInv(c)'
    BY <2>1, <2>2, <2>4, <2>6 DEF CallInv, LineInv
  <2> QED
    BY <2>7, <2>8, <2>9 DEF CallInv
<1>3. ASSUME NEW d \in Call \ {c} PROVE CallInv(d)'
  BY QuietStep DEF ObserveInv, TypeOK, RunPlain, Goto
<1> QED
  BY <1>1, <1>2, <1>3 DEF ObserveInv, CallersSpanUntouched, RunPlain

LEMMA StartSpanStep ==
    ASSUME ObserveInv, NEW c \in Call, StartSpan(c) PROVE ObserveInv'
<1>0. /\ CallInv(c) /\ TypeOK /\ Len(spans) \in Nat /\ Len(spans) >= 1
      /\ DOMAIN spans = 1..Len(spans)
      /\ pc[c] = "start" /\ pc'[c] = "run" /\ span[c] = 0 /\ SpansOf(c) = {} /\ ctx[c] = 1
      /\ LinesOf(c)' = LinesOf(c)
      /\ \A d \in Call \ {c} : pc'[d] = pc[d]
      /\ pc' \in [Call -> Label]
  BY DEF ObserveInv, CallInv, SpanInv, TypeOK, StartSpan, Goto, LinesOf, Label
<1>1. CASE Traced(opts[c]) /\ installed
  <2> DEFINE n == Len(spans) + 1
  <2>1. /\ spans' = Append(spans, Started(c))
        /\ span' = [span EXCEPT ![c] = n]
        /\ ctx' = [ctx EXCEPT ![c] = n]
        /\ UNCHANGED <<opts, plain, result, lines, installed>>
    BY <1>1 DEF StartSpan
  <2>2. /\ spans' \in Seq(Span)
        /\ Len(spans') = n
        /\ spans'[n] = Started(c)
        /\ \A s \in DOMAIN spans : s \in DOMAIN spans' /\ spans'[s] = spans[s]
        /\ SpansOf(c)' = SpansOf(c) \cup {n}
        /\ \A d \in Call \ {c} : SpansOf(d)' = SpansOf(d)
    BY <1>0, <2>1, SpanAppended DEF TypeOK
  <2>3. n \in Nat /\ n # 0 /\ n = Len(spans) + 1
    BY <1>0
  <2> HIDE DEF n
  <2>4. span' \in [Call -> 0..n] /\ ctx' \in [Call -> 1..n]
    BY <1>0, <2>1, <2>3 DEF TypeOK
  <2>5. TypeOK'
    BY <1>0, <2>1, <2>2, <2>4 DEF TypeOK
  <2>6. span'[c] = n /\ ctx'[c] = n /\ SpansOf(c)' = {n}
    BY <1>0, <2>1, <2>2 DEF TypeOK
  <2>7. SpanInv(c)'
    BY <1>0, <1>1, <2>1, <2>3, <2>6 DEF SpanInv
  <2>8. RecordInv(c)'
    BY <1>0, <2>2, <2>3, <2>6 DEF RecordInv, Returned, Started
  <2>9. ResultInv(c)' /\ LineInv(c)'
    BY <1>0, <2>1 DEF CallInv, ResultInv, LineInv
  <2>10. ASSUME NEW d \in Call \ {c} PROVE CallInv(d)'
    <3>1. ctx'[d] = ctx[d] /\ span'[d] = span[d] /\ LinesOf(d)' = LinesOf(d) /\ CallInv(d)
      BY <1>0, <2>1 DEF TypeOK, ObserveInv, LinesOf
    <3>2. SpansOf(d) \subseteq DOMAIN spans
      BY DEF SpansOf
    <3> QED
      BY <1>0, <2>1, <2>2, <3>1, <3>2, OthersKeep
  <2>11. spans'[1] = spans[1] /\ Len(spans') >= 1
    BY <1>0, <2>2, <2>3
  <2> QED
    BY <2>5, <2>7, <2>8, <2>9, <2>10, <2>11 DEF ObserveInv, CallInv, CallersSpanUntouched
<1>2. CASE ~(Traced(opts[c]) /\ installed)
  <2>1. UNCHANGED <<spans, span, ctx, opts, plain, result, lines, installed>>
    BY <1>2 DEF StartSpan
  <2>2. TypeOK' /\ SpansOf(c)' = SpansOf(c)
    BY <1>0, <2>1 DEF TypeOK, SpansOf
  <2>3. CallInv(c)'
    BY <1>0, <2>1, <2>2 DEF CallInv, SpanInv, RecordInv, ResultInv, LineInv
  <2>4. ASSUME NEW d \in Call \ {c} PROVE CallInv(d)'
    BY <1>0, <2>1, QuietStep
  <2> QED
    BY <2>1, <2>2, <2>3, <2>4 DEF ObserveInv, CallersSpanUntouched
<1> QED
  BY <1>1, <1>2

LEMMA RunStep ==
    ASSUME ObserveInv, NEW c \in Call, Run(c) PROVE ObserveInv'
<1>0. /\ CallInv(c) /\ pc[c] = "run" /\ result'[c] = plain[c] /\ plain[c] \in Outcome
      /\ pc'[c] = IF plain[c] = "panic" THEN "end" ELSE "record"
      /\ SpansOf(c)' = SpansOf(c) /\ LinesOf(c)' = LinesOf(c)
      /\ UNCHANGED <<opts, plain, ctx, span, spans, lines, installed>>
  BY DEF ObserveInv, TypeOK, Run, Goto, SpansOf, LinesOf
<1>1. TypeOK'
  BY DEF ObserveInv, TypeOK, Run, Goto, Label
<1>2. CallInv(c)'
  <2>1. SpanInv(c)'
    BY <1>0 DEF CallInv, SpanInv
  <2>2. RecordInv(c)'
    BY <1>0 DEF CallInv, RecordInv, Returned, Described
  <2>3. ResultInv(c)'
    BY <1>0 DEF ResultInv, Expected
  <2>4. LineInv(c)'
    BY <1>0 DEF CallInv, LineInv
  <2> QED
    BY <2>1, <2>2, <2>3, <2>4 DEF CallInv
<1>3. ASSUME NEW d \in Call \ {c} PROVE CallInv(d)'
  BY QuietStep DEF ObserveInv, TypeOK, Run, Goto
<1> QED
  BY <1>0, <1>1, <1>2, <1>3 DEF ObserveInv, CallersSpanUntouched

(* The two steps that write on the call's span.                            *)
LEMMA OnSpanStep ==
    ASSUME ObserveInv, NEW c \in Call, NEW s, OnSpan(c, s),
           span[c] # 0 => s \in Span /\ s.by = c,
           opts' = opts, plain' = plain, ctx' = ctx, span' = span, result' = result,
           lines' = lines, installed' = installed,
           NEW label \in Label, pc' = [pc EXCEPT ![c] = label]
    PROVE  /\ TypeOK'
           /\ CallersSpanUntouched' /\ Len(spans') >= 1
           /\ SpansOf(c)' = SpansOf(c) /\ LinesOf(c)' = LinesOf(c)
           /\ span[c] # 0 => spans'[span[c]] = s
           /\ pc'[c] = label
           /\ \A d \in Call \ {c} : CallInv(d)'
<1>1. TypeOK /\ CallInv(c) /\ pc'[c] = label /\ LinesOf(c)' = LinesOf(c)
  BY DEF ObserveInv, TypeOK, LinesOf
<1>2. /\ spans' \in Seq(Span)
      /\ Len(spans') = Len(spans)
      /\ \A d \in Call : SpansOf(d)' = SpansOf(d)
      /\ span[c] # 0 => spans'[span[c]] = s
      /\ \A i \in DOMAIN spans : spans[i].by # c => spans'[i] = spans[i]
  <2>1. CASE span[c] = 0
    BY <1>1, <2>1 DEF OnSpan, TypeOK, SpansOf
  <2>2. CASE span[c] # 0
    BY <1>1, <2>2, SpanChanged DEF CallInv
  <2> QED
    BY <2>1, <2>2
<1>3. TypeOK'
  BY <1>1, <1>2 DEF TypeOK
<1>4. 1 \in DOMAIN spans /\ spans[1].by # c
  <2>1. Len(spans) >= 1 /\ spans \in Seq(Span) /\ spans[1] = Started(Application)
    BY DEF ObserveInv, TypeOK, CallersSpanUntouched
  <2>2. Started(Application).by = Application
    BY DEF Started
  <2>3. 1 \in DOMAIN spans
    BY <2>1
  <2> QED
    BY <2>1, <2>2, <2>3, NamesAssumption
<1>5. CallersSpanUntouched' /\ Len(spans') >= 1
  BY <1>2, <1>4 DEF ObserveInv, CallersSpanUntouched
<1>6. ASSUME NEW d \in Call \ {c} PROVE CallInv(d)'
  <2>1. pc'[d] = pc[d] /\ CallInv(d) /\ LinesOf(d)' = LinesOf(d)
    BY DEF ObserveInv, TypeOK, LinesOf
  <2>2. \A i \in SpansOf(d) : spans'[i] = spans[i]
    BY <1>2 DEF SpansOf
  <2> QED
    BY <1>2, <2>1, <2>2, OthersKeep
<1> QED
  BY <1>1, <1>2, <1>3, <1>5, <1>6

(* A call that has a span finds its own under that number.                 *)
LEMMA OwnSpan ==
    ASSUME ObserveInv, NEW c \in Call, span[c] # 0
    PROVE  spans[span[c]] \in Span /\ spans[span[c]].by = c
<1>1. span[c] \in SpansOf(c)
  BY DEF ObserveInv, CallInv, SpanInv
<1> QED
  BY <1>1 DEF SpansOf, ObserveInv, TypeOK

LEMMA RecordStep ==
    ASSUME ObserveInv, NEW c \in Call, Record(c) PROVE ObserveInv'
<1> DEFINE s == [spans[span[c]] EXCEPT
                    !.attrs = Attributes(Operation[c], result[c]),
                    !.status = IF result[c] = "error" THEN "Error" ELSE @]
<1>1. /\ pc[c] = "record" /\ pc' = [pc EXCEPT ![c] = "log"] /\ OnSpan(c, s) /\ CallInv(c)
      /\ "log" \in Label
      /\ UNCHANGED <<opts, plain, ctx, span, result, lines, installed>>
  BY DEF ObserveInv, Record, Goto, Label
<1>2. result[c] = plain[c] /\ plain[c] # "panic"
  BY <1>1 DEF CallInv, ResultInv
<1>3. ASSUME span[c] # 0
      PROVE  /\ s \in Span /\ s.by = c
             /\ s.ends = 0 /\ s.attrs = Described(c)
             /\ s.status = IF plain[c] = "error" THEN "Error" ELSE "Unset"
  <2>1. spans[span[c]] \in Span /\ spans[span[c]].by = c
    BY <1>3, OwnSpan
  <2>2. spans[span[c]].ends = 0 /\ spans[span[c]].status = "Unset"
    BY <1>1, <1>3 DEF CallInv, RecordInv, Returned
  <2>3. Attributes(Operation[c], result[c]) \in SUBSET Attribute
        /\ Described(c) = Attributes(Operation[c], result[c])
    BY <1>2, AttributesType DEF Described
  <2> QED
    BY <1>2, <2>1, <2>2, <2>3 DEF Span
<1> HIDE DEF s
<1>4. /\ TypeOK'
      /\ CallersSpanUntouched' /\ Len(spans') >= 1
      /\ SpansOf(c)' = SpansOf(c) /\ LinesOf(c)' = LinesOf(c)
      /\ span[c] # 0 => spans'[span[c]] = s
      /\ pc'[c] = "log"
      /\ \A d \in Call \ {c} : CallInv(d)'
  BY <1>1, <1>3, OnSpanStep
<1>5. SpanInv(c)'
  BY <1>1, <1>4 DEF CallInv, SpanInv
<1>6. RecordInv(c)'
  BY <1>1, <1>2, <1>3, <1>4 DEF RecordInv, Returned, Described
<1>7. ResultInv(c)' /\ LineInv(c)'
  BY <1>1, <1>2, <1>4 DEF CallInv, ResultInv, LineInv
<1> QED
  BY <1>4, <1>5, <1>6, <1>7 DEF ObserveInv, CallInv

LEMMA EndSpanStep ==
    ASSUME ObserveInv, NEW c \in Call, EndSpan(c) PROVE ObserveInv'
<1> DEFINE s == [spans[span[c]] EXCEPT !.ends = @ + 1]
<1>1. /\ pc[c] = "end" /\ pc' = [pc EXCEPT ![c] = "returned"] /\ OnSpan(c, s) /\ CallInv(c)
      /\ "returned" \in Label
      /\ UNCHANGED <<opts, plain, ctx, span, result, lines, installed>>
  BY DEF ObserveInv, EndSpan, Goto, Label
<1>2. ASSUME span[c] # 0
      PROVE  /\ s \in Span /\ s.by = c
             /\ s.ends = 1
             /\ s.attrs = Described(c)
             /\ s.status = IF plain[c] = "error" THEN "Error" ELSE "Unset"
  <2>1. spans[span[c]] \in Span /\ spans[span[c]].by = c
    BY <1>2, OwnSpan
  <2>2. /\ spans[span[c]].ends = 0
        /\ spans[span[c]].attrs = Described(c)
        /\ spans[span[c]].status = IF plain[c] = "error" THEN "Error" ELSE "Unset"
    BY <1>1, <1>2 DEF CallInv, RecordInv, Returned
  <2> QED
    BY <2>1, <2>2 DEF Span
<1> HIDE DEF s
<1>3. /\ TypeOK'
      /\ CallersSpanUntouched' /\ Len(spans') >= 1
      /\ SpansOf(c)' = SpansOf(c) /\ LinesOf(c)' = LinesOf(c)
      /\ span[c] # 0 => spans'[span[c]] = s
      /\ pc'[c] = "returned"
      /\ \A d \in Call \ {c} : CallInv(d)'
  BY <1>1, <1>2, OnSpanStep
<1>4. SpanInv(c)'
  BY <1>1, <1>3 DEF CallInv, SpanInv
<1>5. RecordInv(c)'
  BY <1>1, <1>2, <1>3 DEF RecordInv, Returned, Described
<1>6. ResultInv(c)'
  BY <1>1, <1>3 DEF CallInv, ResultInv, Expected
<1>7. LineInv(c)'
  BY <1>1, <1>3 DEF CallInv, LineInv, Described
<1> QED
  BY <1>3, <1>4, <1>5, <1>6, <1>7 DEF ObserveInv, CallInv

LEMMA WriteLineStep ==
    ASSUME ObserveInv, NEW c \in Call, WriteLine(c) PROVE ObserveInv'
<1> DEFINE logger == LastLogger(opts[c])
           l == Written(c, logger, ctx[c])
<1>1. /\ pc[c] = "log" /\ pc' = [pc EXCEPT ![c] = "end"] /\ CallInv(c) /\ TypeOK
      /\ result' = IF Panics(logger) THEN [result EXCEPT ![c] = "panic"] ELSE result
      /\ lines' = IF logger = Nop \/ Panics(logger) THEN lines ELSE Append(lines, l)
      /\ UNCHANGED <<opts, plain, ctx, span, spans, installed>>
  BY DEF ObserveInv, WriteLine, Goto
<1>2. opts[c] \in Seq(Option)
  BY <1>1, OptionsAssumption DEF TypeOK
<1>3. /\ Panics(logger) <=> logger \in Broken
      /\ logger = Nop <=> Given(opts[c], Logger) = {}
      /\ Panics(logger) => Given(opts[c], Logger) # {}
      /\ Given(opts[c], Logger) # {} => logger \in Logger /\ IsLastLogger(logger, opts[c])
  BY <1>2, LoggerPanics, LoggerUsed
<1> HIDE DEF logger
<1>4. /\ result[c] = plain[c] /\ plain[c] # "panic" /\ LinesOf(c) = {}
      /\ pc'[c] = "end" /\ SpansOf(c)' = SpansOf(c)
      /\ pc' \in [Call -> Label]
      /\ result' \in [Call -> Outcome \cup {Pending}]
      /\ result'[c] = IF logger \in Broken THEN "panic" ELSE plain[c]
  <2>1. result[c] = plain[c] /\ plain[c] # "panic" /\ LinesOf(c) = {}
    BY <1>1 DEF CallInv, ResultInv, LineInv
  <2> QED
    BY <1>1, <1>3, <2>1 DEF TypeOK, Label, Outcome, SpansOf
<1>5. /\ l.by = c /\ l.logger = logger /\ l.span = ctx[c] /\ l.attrs = Described(c)
      /\ l.level = IF plain[c] = "error" THEN "error" ELSE "debug"
      /\ Given(opts[c], Logger) # {} => l \in Line
  <2>1. ctx[c] \in Nat
    BY <1>1 DEF TypeOK
  <2>2. l = [by |-> c, logger |-> logger,
             level |-> IF plain[c] = "error" THEN "error" ELSE "debug",
             attrs |-> Described(c), span |-> ctx[c]]
    BY <1>4 DEF Written, Described
  <2>3. Described(c) \in SUBSET Attribute
    BY AttributesType DEF Described
  <2>4. Given(opts[c], Logger) # {} => l \in Line
    BY <1>3, <2>1, <2>2, <2>3 DEF Line
  <2> QED
    BY <2>2, <2>4
<1> HIDE DEF l
<1>6. SpanInv(c)' /\ RecordInv(c)'
  BY <1>1, <1>4 DEF CallInv, SpanInv, RecordInv, Returned, Described
<1>7. Expected(c)' = IF logger \in Broken THEN "panic" ELSE plain[c]
  BY <1>1 DEF Expected, logger
<1>8. ResultInv(c)'
  BY <1>4, <1>7 DEF ResultInv
<1>9. /\ lines' \in Seq(Line) /\ LineInv(c)'
      /\ \A d \in Call \ {c} : LinesOf(d)' = LinesOf(d) /\ \A i \in LinesOf(d) : lines'[i] = lines[i]
  <2>1. CASE logger = Nop \/ Panics(logger)
    <3>1. lines' = lines /\ LinesOf(c)' = {} /\ \A d \in Call : LinesOf(d)' = LinesOf(d)
      BY <1>1, <1>4, <2>1 DEF LinesOf
    <3>2. Given(opts'[c], Logger) = {} \/ result'[c] = "panic"
      BY <1>1, <1>3, <1>4, <2>1
    <3> QED
      BY <1>1, <3>1, <3>2 DEF TypeOK, LineInv
  <2>2. CASE ~(logger = Nop \/ Panics(logger))
    <3>1. lines' = Append(lines, l) /\ l \in Line /\ lines \in Seq(Line)
          /\ logger \notin Broken /\ Given(opts[c], Logger) # {}
      BY <1>1, <1>3, <1>5, <2>2 DEF TypeOK
    <3>2. /\ lines' \in Seq(Line)
          /\ lines'[Len(lines) + 1] = l
          /\ \A i \in DOMAIN lines : lines'[i] = lines[i]
          /\ LinesOf(c)' = LinesOf(c) \cup {Len(lines) + 1}
          /\ \A d \in Call \ {c} : LinesOf(d)' = LinesOf(d)
      BY <1>5, <3>1, LineAppended
    <3> DEFINE n == Len(lines) + 1
    <3>3. LinesOf(c)' = {n} /\ lines'[n] = l
      BY <1>4, <3>2
    <3> HIDE DEF n
    <3>4. /\ IsLastLogger(l.logger, opts'[c])
          /\ l.level = IF result'[c] = "error" THEN "error" ELSE "debug"
          /\ l.span = ctx'[c] /\ l.attrs = Described(c)'
      BY <1>1, <1>3, <1>4, <1>5, <3>1 DEF Described
    <3>5. LineInv(c)'
      <4>1. IsLastLogger(lines'[n].logger, opts'[c])
        BY <3>3, <3>4
      <4>2. result'[c] # "panic" /\ Given(opts'[c], Logger) # {}
        BY <1>1, <1>4, <3>1
      <4>3. \E i \in LinesOf(c)' :
                /\ LinesOf(c)' = {i}
                /\ IsLastLogger(lines'[i].logger, opts'[c])
                /\ lines'[i].level = IF result'[c] = "error" THEN "error" ELSE "debug"
                /\ lines'[i].span = ctx'[c]
                /\ lines'[i].attrs = Described(c)'
        BY <3>3, <3>4, <4>1
      <4> QED
        BY <1>4, <4>2, <4>3 DEF LineInv, IsLastLogger, Given, Described
    <3>6. \A d \in Call \ {c} : \A i \in LinesOf(d) : lines'[i] = lines[i]
      BY <3>2 DEF LinesOf
    <3> QED
      BY <3>2, <3>5, <3>6
  <2> QED
    BY <2>1, <2>2
<1>10. TypeOK'
  BY <1>1, <1>4, <1>9 DEF TypeOK
<1>11. ASSUME NEW d \in Call \ {c} PROVE CallInv(d)'
  <2>1. pc'[d] = pc[d] /\ result'[d] = result[d] /\ SpansOf(d)' = SpansOf(d) /\ CallInv(d)
    BY <1>1 DEF TypeOK, ObserveInv, SpansOf
  <2> QED
    BY <1>1, <1>9, <2>1, OthersKeep
<1> QED
  BY <1>1, <1>6, <1>8, <1>9, <1>10, <1>11 DEF ObserveInv, CallInv, CallersSpanUntouched

LEMMA StepInv == ObserveInv /\ [Next]_vars => ObserveInv'
<1> SUFFICES ASSUME ObserveInv, [Next]_vars PROVE ObserveInv'
  OBVIOUS
<1>1. ASSUME NEW c \in Call, Step(c) PROVE ObserveInv'
  BY <1>1, ResolveStep, RunPlainStep, StartSpanStep, RunStep, RecordStep, WriteLineStep,
     EndSpanStep DEF Step
<1>2. ASSUME UNCHANGED <<opts, plain, pc, ctx, span, result, spans, lines>>,
             installed' \in BOOLEAN
      PROVE  ObserveInv'
  <2>1. TypeOK' /\ CallersSpanUntouched' /\ Len(spans') >= 1
    BY <1>2 DEF ObserveInv, TypeOK, CallersSpanUntouched
  <2>2. ASSUME NEW c \in Call PROVE CallInv(c)'
    <3>1. SpansOf(c)' = SpansOf(c) /\ LinesOf(c)' = LinesOf(c) /\ CallInv(c)
      BY <1>2 DEF SpansOf, LinesOf, ObserveInv
    <3> QED
      BY <1>2, <3>1, OthersKeep
  <2> QED
    BY <2>1, <2>2 DEF ObserveInv
<1>3. CASE Install
  BY <1>2, <1>3 DEF Install
<1>4. CASE UNCHANGED vars
  BY <1>2, <1>4 DEF vars, ObserveInv, TypeOK
<1> QED
  BY <1>1, <1>3, <1>4 DEF Next

LEMMA AlwaysInv == Spec => []ObserveInv
BY InitInv, StepInv, PTL DEF Spec

-----------------------------------------------------------------------------
(* What holds in every reachable state.                                    *)

(* Spans and lines are well formed, and every step knows its place.        *)
THEOREM TypeCorrect == Spec => []TypeOK
<1>1. ObserveInv => TypeOK
  BY DEF ObserveInv
<1> QED
  BY <1>1, AlwaysInv, PTL

(* A call's span is ended once, when the call is over, on every path       *)
(* (obs.go:114-115 and 140-144).                                           *)
THEOREM SpansEndWithCalls == Spec => []SpanEndsWithCall
<1>1. ObserveInv => SpanEndsWithCall
  <2> SUFFICES ASSUME ObserveInv, NEW c \in Call
               PROVE  /\ SpansOf(c) \subseteq {span[c]}
                      /\ SpansOf(c) # {} => Traced(opts[c])
                      /\ \A s \in SpansOf(c) : spans[s].ends = IF Returned(c) THEN 1 ELSE 0
    BY DEF SpanEndsWithCall
  <2>1. SpanInv(c) /\ RecordInv(c)
    BY DEF ObserveInv, CallInv
  <2> QED
    BY <2>1 DEF SpanInv, RecordInv
<1> QED
  BY <1>1, AlwaysInv, PTL

(* Status and attributes of an ended span tell what the plain function did *)
(* (obs.go:120-126).                                                       *)
THEOREM StatusTrue == Spec => []StatusTellsOutcome
<1>1. ObserveInv => StatusTellsOutcome
  <2> SUFFICES ASSUME ObserveInv, NEW c \in Call, NEW s \in SpansOf(c), Returned(c)
               PROVE  /\ spans[s].status = "Error" <=> plain[c] = "error"
                      /\ spans[s].attrs \cap ResultAttribute # {} <=> plain[c] = "ok"
                      /\ spans[s].attrs = {} <=> plain[c] = "panic"
    BY DEF StatusTellsOutcome
  <2>1. SpanInv(c) /\ RecordInv(c)
    BY DEF ObserveInv, CallInv
  <2>2. s = span[c] /\ span[c] # 0
    BY <2>1 DEF SpanInv
  <2>3. /\ spans[s].status = IF plain[c] = "error" THEN "Error" ELSE "Unset"
        /\ spans[s].attrs = Described(c)
    BY <2>1, <2>2 DEF RecordInv, Returned
  <2>4. CASE plain[c] = "panic"
    BY <2>3, <2>4 DEF Described
  <2>5. CASE plain[c] # "panic"
    <3>1. spans[s].attrs = Attributes(Operation[c], plain[c])
      BY <2>3, <2>5 DEF Described
    <3> QED
      BY <2>3, <2>5, <3>1, AttributesType
  <2> QED
    BY <2>4, <2>5
<1> QED
  BY <1>1, AlwaysInv, PTL

(* One line per call that returns, to the logger given last, at the level  *)
(* of its outcome, correlated with its own span (obs.go:124-130).          *)
THEOREM LinesTrue == Spec => []LinesTellOutcome
<1>1. ObserveInv => LinesTellOutcome
  <2> SUFFICES ASSUME ObserveInv, NEW c \in Call, Returned(c)
               PROVE  IF Given(opts[c], Logger) = {} \/ result[c] = "panic" THEN LinesOf(c) = {}
                      ELSE \E i \in LinesOf(c) :
                              /\ LinesOf(c) = {i}
                              /\ IsLastLogger(lines[i].logger, opts[c])
                              /\ lines[i].level = IF result[c] = "error" THEN "error" ELSE "debug"
                              /\ lines[i].span = IF SpansOf(c) = {} THEN 1 ELSE span[c]
                              /\ \A s \in SpansOf(c) : lines[i].attrs = spans[s].attrs
    BY DEF LinesTellOutcome
  <2>1. SpanInv(c) /\ RecordInv(c) /\ LineInv(c)
    BY DEF ObserveInv, CallInv
  <2>2. ctx[c] = IF SpansOf(c) = {} THEN 1 ELSE span[c]
    BY <2>1 DEF SpanInv
  <2>3. \A s \in SpansOf(c) : spans[s].attrs = Described(c)
    BY <2>1 DEF SpanInv, RecordInv, Returned
  <2> QED
    BY <2>1, <2>2, <2>3 DEF LineInv, Returned
<1> QED
  BY <1>1, AlwaysInv, PTL

(* The caller's own span is left as it is (obs.go:131-144).                *)
THEOREM CallersSpanSafe == Spec => []CallersSpanUntouched
<1>1. ObserveInv => CallersSpanUntouched
  BY DEF ObserveInv
<1> QED
  BY <1>1, AlwaysInv, PTL

-----------------------------------------------------------------------------
(* What a call promises.                                                   *)

Answers == [c \in Call |-> IF Returned(c) THEN result[c] ELSE Pending]

Promised == [c \in Call |-> IF LastLogger(opts[c]) \in Broken THEN "panic" ELSE plain[c]]

(* Calls change neither their options nor the plain function's outcome.    *)
LEMMA PromisesStand == [Next]_vars => Promised' = Promised
<1> SUFFICES ASSUME [Next]_vars PROVE Promised' = Promised
  OBVIOUS
<1>1. opts' = opts /\ plain' = plain
  BY DEF Next, vars, Install, Step, Resolve, RunPlain, StartSpan, Run, Record, WriteLine, EndSpan
<1> QED
  BY <1>1 DEF Promised

(* A step answers one call, with what it was promised, or none.            *)
LEMMA StepAnswers ==
    ASSUME ObserveInv, NEW c \in Call, Step(c)
    PROVE  \/ Answers' = Answers
           \/ Answers[c] = Pending /\ Answers' = [Answers EXCEPT ![c] = Promised[c]]
<1>1. \A d \in Call \ {c} : pc'[d] = pc[d] /\ result'[d] = result[d]
  BY DEF ObserveInv, TypeOK, Step, Resolve, RunPlain, StartSpan, Run, Record, WriteLine, EndSpan, Goto
<1>2. CallInv(c) /\ pc[c] \in Label
  BY DEF ObserveInv, TypeOK
<1>3. \A d \in Call \ {c} : Answers'[d] = Answers[d]
  BY <1>1 DEF Answers, Returned
<1>4. pc[c] # "returned"
  BY DEF Step, Resolve, RunPlain, StartSpan, Run, Record, WriteLine, EndSpan
<1>5. Answers[c] = Pending
  BY <1>4 DEF Answers, Returned
<1>6. CASE pc'[c] # "returned"
  <2>1. Answers'[c] = Answers[c]
    BY <1>5, <1>6 DEF Answers, Returned
  <2>2. \A d \in Call : Answers'[d] = Answers[d]
    BY <1>3, <2>1
  <2> QED
    BY <2>2 DEF Answers
<1>7. CASE pc'[c] = "returned"
  <2>1. ObserveInv'
    BY StepInv DEF Next
  <2>2. result'[c] = Expected(c)'
    BY <1>7, <2>1 DEF ObserveInv, CallInv, ResultInv
  <2>3. Expected(c)' = Promised'[c]
    BY DEF Expected, Promised
  <2>4. Promised' = Promised
    BY PromisesStand DEF Next
  <2>5. Answers'[c] = Promised[c]
    BY <1>7, <2>2, <2>3, <2>4 DEF Answers, Returned
  <2>6. Answers' = [d \in Call |-> IF d = c THEN Promised[c] ELSE Answers[d]]
    BY <1>3, <2>5 DEF Answers
  <2> QED
    BY <1>5, <2>6 DEF Answers
<1> QED
  BY <1>6, <1>7

(* The context-aware variants return once, and return what the plain       *)
(* functions do, whatever options they are given (obs.go:31-32).           *)
THEOREM ContextCallsArePlain == Spec => ImplementsPlainCalls
<1>1. Init => Plain!Init
  <2> SUFFICES ASSUME Init PROVE Answers = [c \in Call |-> Pending]
    BY DEF Plain!Init, Answers
  <2> QED
    BY DEF Init, Answers, Returned
<1>2. ASSUME ObserveInv, [Next]_vars PROVE [Plain!Next]_(Plain!vars)
  <2>1. Promised' = Promised
    BY <1>2, PromisesStand
  <2>2. CASE Answers' = Answers
    BY <2>1, <2>2 DEF Plain!vars, Answers, Promised
  <2>3. ASSUME NEW c \in Call,
               Answers[c] = Pending, Answers' = [Answers EXCEPT ![c] = Promised[c]]
        PROVE  Plain!Next
    <3>1. Plain!Return(c)
      BY <2>1, <2>3 DEF Plain!Return, Answers, Promised
    <3> QED
      BY <3>1 DEF Plain!Next
  <2>4. CASE \E c \in Call : Step(c)
    BY <1>2, <2>2, <2>3, <2>4, StepAnswers
  <2>5. CASE Install \/ UNCHANGED vars
    <3>1. Answers' = Answers
      BY <2>5 DEF Install, vars, Answers, Returned
    <3> QED
      BY <2>2, <3>1
  <2> QED
    BY <1>2, <2>4, <2>5 DEF Next
<1> QED
  BY AlwaysInv, <1>1, <1>2, PTL DEF Spec, ImplementsPlainCalls, Plain!Spec

=============================================================================
