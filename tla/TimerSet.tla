----------------------------- MODULE TimerSet ------------------------------
(***************************************************************************)
(* What TimerHeap (src/transport/timer_heap.h) promises: a set of pending  *)
(* timers.  A timer that is scheduled stays pending until it is cancelled  *)
(* or fires; it fires once, not before its deadline, and after every       *)
(* pending timer that is due before it or is as old and was added first.   *)
(***************************************************************************)
EXTENDS Integers, Sequences

VARIABLES
  clock,    \* steady_clock
  pending,  \* the timers: records of a deadline and an id
  ran       \* ids of the timers that fired, in order

tvars == <<clock, pending, ran>>

Before(a, b) ==
  a.deadline < b.deadline \/ (a.deadline = b.deadline /\ a.id < b.id)

TInit == clock = 0 /\ pending = {} /\ ran = <<>>

Schedule ==
  \E t \in pending' :
    /\ \A u \in pending : u.id < t.id
    /\ pending' = pending \cup {t}
    /\ UNCHANGED <<clock, ran>>

CancelTimer ==
  /\ \E t \in pending : pending' = pending \ {t}
  /\ UNCHANGED <<clock, ran>>

Fire ==
  \E t \in pending :
    /\ t.deadline <= clock
    /\ \A u \in pending \ {t} : Before(t, u)
    /\ pending' = pending \ {t}
    /\ ran' = Append(ran, t.id)
    /\ clock' = clock

Pass == clock' = clock + 1 /\ UNCHANGED <<pending, ran>>

TNext == Schedule \/ CancelTimer \/ Fire \/ Pass

TSpec == TInit /\ [][TNext]_tvars
=============================================================================
