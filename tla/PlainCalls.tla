----------------------------- MODULE PlainCalls -----------------------------
(***************************************************************************)
(* What ParseContext, ParseEntryContext and ExportContext promise under    *)
(* any options: each call returns at most once, and what it returns is     *)
(* what the plain function makes of its input.  Observe implements it.     *)
(***************************************************************************)
CONSTANTS
    Call,    \* concurrent calls
    Pending  \* the answer of a call that has not returned

VARIABLES plain, answer

vars == <<plain, answer>>

Init == answer = [c \in Call |-> Pending]

Return(c) ==
    /\ answer[c] = Pending
    /\ answer' = [answer EXCEPT ![c] = plain[c]]
    /\ UNCHANGED plain

Next == \E c \in Call : Return(c)

Spec == Init /\ [][Next]_vars

=============================================================================
