--------------------------- MODULE MCGuestTimers ---------------------------
(***************************************************************************)
(* Small instances of GuestTimers.                                         *)
(***************************************************************************)
EXTENDS GuestTimers

CONSTANTS m, w

OrderW == <<w>>

ToProcess == {[notify |-> "signal", tid |-> m]}

ToWorker == {[notify |-> "thread", tid |-> w]}

ToMain == {[notify |-> "thread", tid |-> m]}

ToAny == ToProcess \cup ToWorker

WithNone == ToAny \cup {[notify |-> "none", tid |-> m]}
=============================================================================
