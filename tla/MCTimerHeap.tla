---------------------------- MODULE MCTimerHeap ----------------------------
(* Three timers, set in the past, within the half of a millisecond, and   *)
(* later; a millisecond is two ticks.                                       *)
EXTENDS TimerHeap

MCDelays == {-1, 1, 4}
=============================================================================
