SPECIFICATION Spec
CONSTANTS
    c1 = c1
    c2 = c2
    l1 = l1
    l2 = l2
    bad = bad
    Application = Application
    NilLogger = NilLogger
    Tracing = Tracing
    Nop = Nop
    Pending = Pending
    Call <- MCCall
    Operation <- MCOperation
    Logger <- MCLogger
    Broken <- MCBroken
    OptionLists <- MCOptionLists
INVARIANTS
    TypeOK
    SpanEndsWithCall
    StatusTellsOutcome
    LinesTellOutcome
    CallersSpanUntouched
PROPERTIES
    ImplementsPlainCalls
\* Calls return: when all have, there is no step left.
CHECK_DEADLOCK FALSE
