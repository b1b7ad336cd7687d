--------------------------- MODULE MCEventThread ---------------------------
(* Two posters racing two stoppers on one loop with a timer and a socket.  *)
EXTENDS EventThread

CONSTANTS p1, p2, s1, s2, t1

MCPosters == {p1, p2}
MCStoppers == {s1, s2}
MCTimers == {t1}
=============================================================================
