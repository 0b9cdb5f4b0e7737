----------------------------- MODULE MCSignals -----------------------------
(***************************************************************************)
(* Small instances of Signals.                                             *)
(***************************************************************************)
EXTENDS Signals, TLC

CONSTANTS a, b

OrderAB == <<a, b>>

\* The handler of 1 blocks nothing else; the handler of 2 blocks 1 as well.
HandlerMasks == 1 :> {} @@ 2 :> {1}

AllHandled == [s \in Signals |-> "handler"]

FirstIgnored == [s \in Signals |-> IF s = 1 THEN "ignore" ELSE "handler"]

\* The guest installs the one-shot handler of 2 again.
Reinstall == {<<2, "handler">>}

Nothing == [t \in Threads |-> {}]

BlockOne == a :> {{1}} @@ b :> {}

BlockAll == [t \in Threads |-> {{}, Signals}]

\* Only thread a suspends itself or waits.
LetOne == a :> {{2}} @@ b :> {}

WaitOne == a :> {{1}} @@ b :> {}
=============================================================================
