----------------------------- MODULE MCObserve -----------------------------
(***************************************************************************)
(* Two calls that share two loggers and a broken one, under every kind of  *)
(* option list: none, only nil, tracing, several loggers, nil after one.   *)
(***************************************************************************)
EXTENDS Observe, TLC

CONSTANTS c1, c2, l1, l2, bad

MCCall == {c1, c2}

MCOperation == c1 :> "Export" @@ c2 :> "Parse"

MCLogger == {l1, l2, bad}

MCBroken == {bad}

MCOptionLists ==
    {<<>>, <<NilLogger>>, <<Tracing>>, <<l1>>, <<l1, Tracing, NilLogger>>,
     <<Tracing, l1, l2>>, <<l2, bad, Tracing>>, <<bad, l1>>}

=============================================================================
