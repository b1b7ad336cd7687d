----------------------------- MODULE TimerHeap -----------------------------
(***************************************************************************)
(* TimerHeap (src/transport/timer_heap.cc) as the event loop drives it:    *)
(* each turn runs ops, then RunDue(), then sleeps in poll() for            *)
(* PollTimeoutMs().  Add() and Cancel() come from ops and socket handlers  *)
(* and, re-entrantly, from the callbacks RunDue() runs.                    *)
(*                                                                         *)
(* heap_ is the set of its entries, and its front the least of them        *)
(* (std::push_heap and pop_heap are the library's).  Cancelled timers stay *)
(* in it until they surface.  Time has a finer grain than poll()'s.        *)
(***************************************************************************)
EXTENDS Integers, Sequences, FiniteSets

CONSTANTS
  Delays,       \* what timers are set to, from the present (may be past)
  UnitsPerMs,   \* ticks of the clock in one millisecond
  MaxTimeoutMs, \* largest timeout of poll()
  MaxTimers,    \* bound: timers added
  MaxClock      \* bound: time

ASSUME DelaysAssumption == Delays \subseteq Int
ASSUME UnitsAssumption == UnitsPerMs \in Nat \ {0}
ASSUME TimeoutAssumption == MaxTimeoutMs \in Nat \ {0}
ASSUME TimerBoundsAssumption == MaxTimers \in Nat /\ MaxClock \in Nat

VARIABLES
  clock,
  heap,        \* heap_
  callbacks,   \* keys of callbacks_
  next_id,     \* next_id_
  phase,       \* where the loop is: "ops", "pass", "callback",
               \* "prepoll" or "poll"
  now,         \* the time RunDue() or poll() was called with
  timeout,     \* poll()'s timeout in ms, -1 for none
  ran          \* ids of the callbacks RunDue() has run, in order

vars == <<clock, heap, callbacks, next_id, phase, now, timeout, ran>>
loopVars == <<phase, now, timeout, ran>>

Init ==
  /\ clock = 0 /\ heap = {} /\ callbacks = {} /\ next_id = 1
  /\ phase = "ops" /\ now = 0 /\ timeout = -1 /\ ran = <<>>

(* EntryLater, the other way round. *)
Earlier(a, b) ==
  a.deadline < b.deadline \/ (a.deadline = b.deadline /\ a.id < b.id)

(* Variant: the order of the heap turned round. *)
IsFrontLatest(e, h) == e \in h /\ \A f \in h \ {e} : Earlier(f, e)

IsFront(e, h) == e \in h /\ \A f \in h \ {e} : Earlier(e, f)

(* PruneCancelledTop: what the top hides comes off. *)
Prune(h) ==
  {e \in h : \E f \in h : f.id \in callbacks /\ (f = e \/ Earlier(f, e))}

----------------------------------------------------------------------------
(* The event thread runs code that may set and cancel timers. *)
Busy == phase \in {"ops", "callback"}

(* Variant: an id that has fired is used again. *)
AddReusesId ==
  /\ Busy /\ next_id <= MaxTimers
  /\ \E delay \in Delays :
       heap' = heap \cup {[deadline |-> clock + delay,
                           id |-> Cardinality(callbacks) + 1]}
  /\ callbacks' = callbacks \cup {Cardinality(callbacks) + 1}
  /\ next_id' = next_id + 1
  /\ UNCHANGED <<clock, loopVars>>

(* AddTimer and Add. *)
Add ==
  /\ Busy /\ next_id <= MaxTimers
  /\ \E delay \in Delays :
       heap' = heap \cup {[deadline |-> clock + delay, id |-> next_id]}
  /\ callbacks' = callbacks \cup {next_id}
  /\ next_id' = next_id + 1
  /\ UNCHANGED <<clock, loopVars>>

Cancel ==
  /\ Busy
  /\ \E id \in callbacks : callbacks' = callbacks \ {id}
  /\ UNCHANGED <<clock, heap, next_id, loopVars>>

(* RunDue is called; it keeps the time it was given. *)
BeginPass ==
  /\ phase = "ops"
  /\ phase' = "pass" /\ now' = clock
  /\ UNCHANGED <<clock, heap, callbacks, next_id, timeout, ran>>

(* The entry goes, then the callback, then it runs. *)
Run(top) ==
  /\ heap' = Prune(heap) \ {top}
  /\ callbacks' = callbacks \ {top.id}
  /\ phase' = "callback" /\ ran' = Append(ran, top.id)
  /\ UNCHANGED <<clock, next_id, now, timeout>>

(* Variant: the deadline is not compared with the time of the pass. *)
RunOneEarly ==
  /\ phase = "pass"
  /\ \E top \in Prune(heap) : IsFront(top, Prune(heap)) /\ Run(top)

(* Variant: everything due is popped, but only the first callback is run. *)
RunOneDropsDue ==
  /\ phase = "pass"
  /\ \E top \in Prune(heap) :
       /\ IsFront(top, Prune(heap)) /\ top.deadline <= now
       /\ heap' = {e \in heap : e.deadline > now}
       /\ callbacks' = callbacks \ {top.id}
       /\ phase' = "callback" /\ ran' = Append(ran, top.id)
  /\ UNCHANGED <<clock, next_id, now, timeout>>

(* One turn of RunDue's loop. *)
RunOne ==
  /\ phase = "pass"
  /\ \E top \in Prune(heap) :
       IsFront(top, Prune(heap)) /\ top.deadline <= now /\ Run(top)

CallbackReturns ==
  /\ phase = "callback" /\ phase' = "pass"
  /\ UNCHANGED <<clock, heap, callbacks, next_id, now, timeout, ran>>

(* RunDue returns. *)
EndPass ==
  /\ phase = "pass"
  /\ \A top \in Prune(heap) : IsFront(top, Prune(heap)) => top.deadline > now
  /\ heap' = Prune(heap)
  /\ phase' = "prepoll"
  /\ UNCHANGED <<clock, callbacks, next_id, now, timeout, ran>>

(* Variant: the timeout is rounded down. *)
PollTimeoutMsFloor(next, t) ==
  IF next <= t THEN 0 ELSE (next - t) \div UnitsPerMs

(* PollTimeoutMs, when NextDeadline has an answer. *)
PollTimeoutMs(next, t) ==
  LET ms == (next - t) \div UnitsPerMs + 1 IN
  IF next <= t THEN 0
  ELSE IF ms < MaxTimeoutMs THEN ms ELSE MaxTimeoutMs

(* poll() is called. *)
Sleep ==
  /\ phase = "prepoll"
  /\ heap' = Prune(heap)
  /\ \/ Prune(heap) = {} /\ timeout' = -1
     \/ \E top \in Prune(heap) :
          /\ IsFront(top, Prune(heap))
          /\ timeout' = PollTimeoutMs(top.deadline, clock)
  /\ now' = clock
  /\ phase' = "poll"
  /\ UNCHANGED <<clock, callbacks, next_id, ran>>

TimedOut == timeout >= 0 /\ clock >= now + timeout * UnitsPerMs

(* poll() times out, or a wakeup or the socket ends it; then ops run. *)
Wake ==
  /\ phase = "poll"
  /\ phase' = "ops"
  /\ UNCHANGED <<clock, heap, callbacks, next_id, now, timeout, ran>>

Tick ==
  /\ clock < MaxClock /\ clock' = clock + 1
  /\ UNCHANGED <<heap, callbacks, next_id, loopVars>>

Loop == BeginPass \/ RunOne \/ CallbackReturns \/ EndPass \/ Sleep

Next == Add \/ Cancel \/ Loop \/ Wake \/ Tick

Spec == Init /\ [][Next]_vars

(* The loop keeps going, poll() returns when its timeout is over, time     *)
(* passes.  Nobody is obliged to set or cancel a timer or to wake the loop.*)
FairSpec ==
  Spec /\ WF_vars(Loop) /\ WF_vars(Wake /\ TimedOut) /\ WF_vars(Tick)

----------------------------------------------------------------------------
Ids(h) == {e.id : e \in h}

(* The timers that will still fire. *)
Pending == {e \in heap : e.id \in callbacks}

TypeOK ==
  /\ clock \in 0..MaxClock /\ now \in 0..MaxClock
  /\ heap \subseteq [deadline : Int, id : 1..MaxTimers]
  /\ callbacks \subseteq 1..MaxTimers
  /\ next_id \in 1..(MaxTimers + 1)
  /\ phase \in {"ops", "pass", "callback", "prepoll", "poll"}
  /\ timeout \in {-1} \cup 0..MaxTimeoutMs
  /\ ran \in Seq(1..MaxTimers)

(* Cancellation is lazy, yet every callback has one entry in the heap, and *)
(* an id is never that of two timers: RunDue always finds the callback of  *)
(* the entry it took (its lookup is not checked), and cancelling a timer   *)
(* that has fired cannot hit another one.                                  *)
EntriesMatchCallbacks ==
  /\ callbacks \subseteq Ids(heap)
  /\ \A e, f \in heap : e.id = f.id => e = f
  /\ \A e \in heap : e.id < next_id

(* timer_heap.h:44-45: "milliseconds rounded up (so a timer is never       *)
(* polled-for short)".  When poll() times out a timer is due, unless the   *)
(* timeout was cut to the largest poll() takes.                            *)
NeverPolledShort ==
  phase = "poll" /\ TimedOut /\ timeout < MaxTimeoutMs
    => \E e \in Pending : e.deadline <= clock

(* Nor too long: no pending timer is slept over by more than the           *)
(* millisecond that rounding adds.                                         *)
NeverSleptOver ==
  phase = "poll" =>
    \A e \in Pending :
      /\ timeout >= 0
      /\ e.deadline > now =>
           now + timeout * UnitsPerMs <= e.deadline + UnitsPerMs
      /\ e.deadline <= now => timeout = 0

Timers == INSTANCE TimerSet WITH pending <- Pending

(* The heap with its lazy cancellation is a set of timers that fire once,  *)
(* in order and never early.                                               *)
ImplementsTimerSet == Timers!TSpec

(* A timer whose time comes within the bound fires or is cancelled.        *)
TimersFire ==
  \A id \in 1..MaxTimers :
    (\E e \in Pending : e.id = id /\ e.deadline + UnitsPerMs <= MaxClock)
      ~> id \notin callbacks
=============================================================================
