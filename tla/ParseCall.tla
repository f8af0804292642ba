----------------------------- MODULE ParseCall -----------------------------
(***************************************************************************)
(* What one parse call promises, whatever data and passphrase it is given  *)
(* and whatever it does inside: at most once it returns, and what it       *)
(* returns is the answer of its input.  PEMStream, ParseDispatch and       *)
(* Pkcs8Crypt implement it.                                                *)
(***************************************************************************)
CONSTANTS
    Answer(_, _),  \* the answer data has under a passphrase
    Pending        \* the value of result before the call returns

VARIABLES data, pass, result

vars == <<data, pass, result>>

Init == result = Pending

Return ==
    /\ result = Pending
    /\ result' = Answer(data, pass)
    /\ UNCHANGED <<data, pass>>

Next == Return

Spec == Init /\ [][Next]_vars

=============================================================================
