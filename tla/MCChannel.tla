----------------------------- MODULE MCChannel -----------------------------
(* Two calls, so that one can be in flight while the other is made, and two*)
(* threads that shut the channel down.                                     *)
EXTENDS Channel

CONSTANTS c1, c2, t1, t2

MCCalls == {c1, c2}
MCShutdowners == {t1, t2}
MCAllFaults == {"session", "submit", "send", "recv", "ping", "free"}
MCFreedMemory == {"free"}
MCNoFaults == {}
=============================================================================
