---------------------------- MODULE MCTimerClients ----------------------------
(* TimerClients with one call of cancel() and a short time: either client is *)
(* due before the other.                                                     *)
EXTENDS TimerClients, TLC

MCDeadlines == {Timed :> 1 @@ Slept :> 2, Timed :> 2 @@ Slept :> 1}
==============================================================================
