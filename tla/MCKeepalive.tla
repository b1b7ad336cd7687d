---------------------------- MODULE MCKeepalive ----------------------------
(* The timeout longer and shorter than the idle time, each with keepalive  *)
(* permitted without calls and not.                                        *)
EXTENDS Keepalive

MCOptions ==
  {[time |-> t, timeout |-> 7 - t, permit |-> p] : t \in {3, 4}, p \in BOOLEAN}
=============================================================================
