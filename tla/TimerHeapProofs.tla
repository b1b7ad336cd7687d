-------------------------- MODULE TimerHeapProofs --------------------------
(***************************************************************************)
(* Proofs about TimerHeap, for any delays, bounds and grain of poll().     *)
(***************************************************************************)
EXTENDS TimerHeap, TLAPS

(* The inductive invariant: entries and callbacks match, and the time a    *)
(* pass of RunDue() goes by is not ahead of the clock (or a timer could    *)
(* fire early).                                                            *)
HInv == TypeOK /\ EntriesMatchCallbacks /\ now <= clock

USE DelaysAssumption, UnitsAssumption, TimeoutAssumption, TimerBoundsAssumption

(* The deadline of a timer is an integer, whatever the delay; so are the   *)
(* parts of an entry that Earlier compares.                                *)
LEMMA EntryParts ==
  ASSUME TypeOK, NEW e \in heap
  PROVE  e.deadline \in Int /\ e.id \in 1..MaxTimers
BY DEF TypeOK

(* Pruning (PruneCancelledTop) takes off no entry whose timer is pending.  *)
LEMMA PruneKeepsPending ==
  ASSUME NEW e \in heap, e.id \in callbacks
  PROVE  e \in Prune(heap)
BY DEF Prune

(* What is at the front after pruning is a pending timer, which is why     *)
(* RunDue() need not check that it finds the callback.                     *)
LEMMA FrontIsPending ==
  ASSUME TypeOK, NEW top \in Prune(heap), IsFront(top, Prune(heap))
  PROVE  top \in Pending
<1>1. PICK f \in heap : f.id \in callbacks /\ (f = top \/ Earlier(f, top))
  BY DEF Prune
<1>2. f \in Prune(heap)
  BY <1>1, PruneKeepsPending
<1>3. CASE f = top
  BY <1>1, <1>3 DEF Pending
<1>4. CASE f # top
  <2>1. Earlier(top, f) /\ Earlier(f, top)
    BY <1>1, <1>2, <1>4 DEF IsFront
  <2>2. top \in heap
    BY DEF Prune
  <2>3. top.deadline \in Int /\ f.deadline \in Int
        /\ top.id \in Int /\ f.id \in Int
    BY <2>2, EntryParts
  <2> QED
    BY <2>1, <2>3 DEF Earlier
<1> QED
  BY <1>3, <1>4

(* Pruning does not disturb the match between entries and callbacks. *)
LEMMA PruneMatches ==
  ASSUME EntriesMatchCallbacks
  PROVE  /\ Prune(heap) \subseteq heap
         /\ callbacks \subseteq Ids(Prune(heap))
<1>1. Prune(heap) \subseteq heap
  BY DEF Prune
<1>2. ASSUME NEW id \in callbacks PROVE id \in Ids(Prune(heap))
  <2>1. PICK e \in heap : e.id = id
    BY DEF EntriesMatchCallbacks, Ids
  <2> QED
    BY <2>1, PruneKeepsPending DEF Ids
<1> QED
  BY <1>1, <1>2

(* The invariant holds at the start. *)
LEMMA HInvInit ==
  ASSUME Init
  PROVE  HInv
BY DEF Init, HInv, TypeOK, EntriesMatchCallbacks, Ids

(* Every step of the loop, of the code that sets and cancels timers, and   *)
(* of time preserves the invariant.                                        *)
LEMMA HInvStep ==
  ASSUME HInv, [Next]_vars
  PROVE  HInv'
<1> USE DEF HInv
<1>1. CASE Add
  <2>1. PICK delay \in Delays :
          heap' = heap \cup {[deadline |-> clock + delay, id |-> next_id]}
    BY <1>1 DEF Add
  <2>2. TypeOK'
    BY <1>1, <2>1 DEF Add, Busy, loopVars, TypeOK
  <2> DEFINE new == [deadline |-> clock + delay, id |-> next_id]
  <2>3. EntriesMatchCallbacks'
    <3>1. new.id = next_id /\ next_id \in Nat /\ next_id' = next_id + 1
      BY <1>1 DEF Add, TypeOK
    <3>2. \A e \in heap : e.id \in Nat /\ e.id < next_id
      BY EntryParts DEF EntriesMatchCallbacks
    <3>3. heap' = heap \cup {new} /\ callbacks' = callbacks \cup {next_id}
      BY <1>1, <2>1 DEF Add
    <3> HIDE DEF new
    <3>4. \A e \in heap' : e.id < next_id'
      BY <3>1, <3>2, <3>3
    <3>5. \A e, f \in heap' : e.id = f.id => e = f
      BY <3>1, <3>2, <3>3 DEF EntriesMatchCallbacks
    <3>6. callbacks' \subseteq Ids(heap')
      BY <3>1, <3>3 DEF EntriesMatchCallbacks, Ids
    <3> QED
      BY <3>4, <3>5, <3>6 DEF EntriesMatchCallbacks
  <2> QED
    BY <1>1, <2>2, <2>3 DEF Add, loopVars
<1>2. CASE Cancel
  BY <1>2 DEF Cancel, loopVars, TypeOK, EntriesMatchCallbacks, Ids
<1>3. CASE BeginPass
  BY <1>3 DEF BeginPass, TypeOK, EntriesMatchCallbacks, Ids
<1>4. CASE RunOne
  <2>1. PICK top \in Prune(heap) :
          IsFront(top, Prune(heap)) /\ top.deadline <= now /\ Run(top)
    BY <1>4 DEF RunOne
  <2>2. top \in heap /\ top.id \in 1..MaxTimers
    BY <2>1, FrontIsPending, EntryParts DEF Pending
  <2>3. TypeOK'
    <3>1. ran' \in Seq(1..MaxTimers)
      BY <2>1, <2>2 DEF Run, TypeOK
    <3> QED
      BY <2>1, <3>1, PruneMatches, Zenon DEF Run, TypeOK
  <2>4. EntriesMatchCallbacks'
    <3>1. heap' \subseteq heap /\ next_id' = next_id
      BY <2>1, PruneMatches DEF Run
    <3>2. ASSUME NEW id \in callbacks' PROVE id \in Ids(heap')
      <4>1. id \in callbacks /\ id # top.id
        BY <2>1, <3>2 DEF Run
      <4>2. PICK e \in Prune(heap) : e.id = id
        BY <4>1, PruneMatches DEF Ids
      <4> QED
        BY <2>1, <4>1, <4>2 DEF Run, Ids
    <3> QED
      BY <3>1, <3>2 DEF EntriesMatchCallbacks
  <2> QED
    BY <2>1, <2>3, <2>4 DEF Run
<1>5. CASE CallbackReturns
  BY <1>5 DEF CallbackReturns, TypeOK, EntriesMatchCallbacks, Ids
<1>6. CASE EndPass
  BY <1>6, PruneMatches DEF EndPass, TypeOK, EntriesMatchCallbacks, Ids
<1>7. CASE Sleep
  <2>1. timeout' \in {-1} \cup 0..MaxTimeoutMs
    <3>1. CASE timeout' = -1
      BY <3>1
    <3>2. CASE \E top \in Prune(heap) : timeout' = PollTimeoutMs(top.deadline, clock)
      <4>1. PICK top \in Prune(heap) : timeout' = PollTimeoutMs(top.deadline, clock)
        BY <3>2
      <4>2. top.deadline \in Int /\ clock \in Int
        BY <4>1, EntryParts, PruneMatches DEF TypeOK
      <4> QED
        BY <4>1, <4>2 DEF PollTimeoutMs
    <3> QED
      BY <1>7, <3>1, <3>2 DEF Sleep
  <2>2. TypeOK'
    BY <1>7, <2>1, PruneMatches DEF Sleep, TypeOK
  <2> QED
    BY <1>7, <2>2, PruneMatches DEF Sleep, TypeOK, EntriesMatchCallbacks, Ids
<1>8. CASE Wake
  BY <1>8 DEF Wake, TypeOK, EntriesMatchCallbacks, Ids
<1>9. CASE Tick
  BY <1>9 DEF Tick, loopVars, TypeOK, EntriesMatchCallbacks, Ids
<1>10. CASE UNCHANGED vars
  BY <1>10 DEF vars, TypeOK, EntriesMatchCallbacks, Ids
<1> QED
  BY <1>1, <1>2, <1>3, <1>4, <1>5, <1>6, <1>7, <1>8, <1>9, <1>10 DEF Next, Loop

(* The invariant holds in every behaviour. *)
THEOREM HeapInvariance == Spec => []HInv
BY HInvInit, HInvStep, PTL DEF Spec

(* RunDue() always finds the callback of the entry it takes, and an id is  *)
(* never that of two timers, for any use of Add() and Cancel().            *)
THEOREM EntriesAlwaysMatch == Spec => []EntriesMatchCallbacks
<1>1. HInv => EntriesMatchCallbacks
  BY DEF HInv
<1> QED
  BY <1>1, HeapInvariance, PTL
----------------------------------------------------------------------------
(* Refinement *)

(* Pruning leaves the set of pending timers as it is: lazy cancellation    *)
(* cannot be observed.                                                     *)
LEMMA PrunePending ==
  ASSUME heap' = Prune(heap), callbacks' = callbacks
  PROVE  Pending' = Pending
<1>1. Prune(heap) \subseteq heap
  BY DEF Prune
<1>2. \A e \in heap : e.id \in callbacks => e \in Prune(heap)
  BY PruneKeepsPending
<1> QED
  BY <1>1, <1>2 DEF Pending

(* Add() schedules a timer. *)
LEMMA AddSchedules ==
  ASSUME HInv, Add
  PROVE  Timers!Schedule
<1>1. PICK delay \in Delays :
        heap' = heap \cup {[deadline |-> clock + delay, id |-> next_id]}
  BY DEF Add
<1> DEFINE new == [deadline |-> clock + delay, id |-> next_id]
<1>2. new.id = next_id
  OBVIOUS
<1>3. heap' = heap \cup {new} /\ callbacks' = callbacks \cup {next_id}
  BY <1>1 DEF Add
<1>4. \A e \in heap : e.id \in Nat /\ e.id < next_id /\ next_id \in Nat
  BY EntryParts DEF HInv, TypeOK, EntriesMatchCallbacks
<1> HIDE DEF new
<1>5. Pending' = Pending \cup {new}
  BY <1>2, <1>3, <1>4 DEF Pending
<1>6. \A u \in Pending : u.id < new.id
  BY <1>2, <1>4 DEF Pending
<1> QED
  BY <1>5, <1>6 DEF Timers!Schedule, Add, loopVars

(* Cancel() removes exactly one pending timer. *)
LEMMA CancelCancels ==
  ASSUME HInv, Cancel
  PROVE  Timers!CancelTimer
<1>1. PICK id \in callbacks : callbacks' = callbacks \ {id}
  BY DEF Cancel
<1>2. PICK e \in heap : e.id = id
  BY DEF HInv, EntriesMatchCallbacks, Ids
<1>3. e \in Pending
  BY <1>2 DEF Pending
<1>4. heap' = heap
  BY DEF Cancel
<1>5. \A f \in heap : f.id = id => f = e
  BY <1>2 DEF HInv, EntriesMatchCallbacks
<1>6. Pending' = Pending \ {e}
  BY <1>1, <1>2, <1>4, <1>5 DEF Pending
<1> QED
  BY <1>3, <1>6 DEF Timers!CancelTimer, Cancel, loopVars

(* A turn of RunDue() fires the first pending timer, which is due. *)
LEMMA RunFires ==
  ASSUME HInv, RunOne
  PROVE  Timers!Fire
<1>1. PICK top \in Prune(heap) :
        IsFront(top, Prune(heap)) /\ top.deadline <= now /\ Run(top)
  BY DEF RunOne
<1>2. top \in Pending
  BY <1>1, FrontIsPending DEF HInv
<1>3. top.deadline <= clock
  <2>1. top.deadline \in Int /\ now \in Int /\ clock \in Int /\ now <= clock
    BY <1>2, EntryParts DEF Pending, HInv, TypeOK
  <2> QED
    BY <1>1, <2>1
<1>4. \A u \in Pending \ {top} : Timers!Before(top, u)
  BY <1>1, PruneKeepsPending DEF IsFront, Earlier, Timers!Before, Pending
<1>5. Pending' = Pending \ {top}
  <2>1. heap' = Prune(heap) \ {top} /\ callbacks' = callbacks \ {top.id}
    BY <1>1 DEF Run
  <2>2. Prune(heap) \subseteq heap
    BY DEF Prune
  <2>3. \A e \in heap : e.id \in callbacks => e \in Prune(heap)
    BY PruneKeepsPending
  <2>4. \A e \in heap : e.id = top.id => e = top
    BY <1>2 DEF Pending, HInv, EntriesMatchCallbacks
  <2> QED
    BY <2>1, <2>2, <2>3, <2>4 DEF Pending
<1> QED
  BY <1>1, <1>2, <1>3, <1>4, <1>5 DEF Timers!Fire, Run

(* Every step of the heap and the loop is a step of the set of timers, or  *)
(* leaves it as it is.                                                     *)
LEMMA TimerSetStep ==
  ASSUME HInv, [Next]_vars
  PROVE  [Timers!TNext]_(Timers!tvars)
<1> USE DEF Timers!TNext, Timers!tvars
<1>1. CASE Add
  BY <1>1, AddSchedules
<1>2. CASE Cancel
  BY <1>2, CancelCancels
<1>3. CASE RunOne
  BY <1>3, RunFires
<1>4. CASE BeginPass \/ CallbackReturns \/ Wake
  BY <1>4 DEF BeginPass, CallbackReturns, Wake, Pending
<1>5. CASE EndPass \/ Sleep
  BY <1>5, PrunePending DEF EndPass, Sleep
<1>6. CASE Tick
  BY <1>6 DEF Tick, loopVars, Pending, Timers!Pass
<1>7. CASE UNCHANGED vars
  BY <1>7 DEF vars, Pending
<1> QED
  BY <1>1, <1>2, <1>3, <1>4, <1>5, <1>6, <1>7 DEF Next, Loop

(* The heap, with lazy cancellation and re-entrant callbacks, implements   *)
(* the set of timers: each fires at most once, in order, never early and   *)
(* never after it was cancelled.                                           *)
THEOREM RefinesTimerSet == Spec => ImplementsTimerSet
<1>1. Init => Timers!TInit
  BY DEF Init, Pending, Timers!TInit
<1>2. HInv /\ [Next]_vars => [Timers!TNext]_(Timers!tvars)
  BY TimerSetStep
<1> QED
  BY <1>1, <1>2, HeapInvariance, PTL DEF Spec, ImplementsTimerSet, Timers!TSpec
----------------------------------------------------------------------------
(* How long poll() sleeps *)

(* What \div is, for the rounding of PollTimeoutMs. *)
LEMMA DivBounds ==
  ASSUME NEW x \in Int, NEW u \in Nat \ {0}
  PROVE  /\ x \div u \in Int
         /\ (x \div u) * u <= x
         /\ x < (x \div u) * u + u
OBVIOUS

(* PollTimeoutMs is at most one millisecond too long, and is long enough   *)
(* unless it is cut to the largest timeout.                                *)
LEMMA PollTimeoutBounds ==
  ASSUME NEW next \in Int, NEW t \in Int
  PROVE  /\ PollTimeoutMs(next, t) \in Nat
         /\ next <= t => PollTimeoutMs(next, t) = 0
         /\ next > t => PollTimeoutMs(next, t) * UnitsPerMs <= next - t + UnitsPerMs
         /\ PollTimeoutMs(next, t) < MaxTimeoutMs
              => next <= t + PollTimeoutMs(next, t) * UnitsPerMs
<1> DEFINE q == (next - t) \div UnitsPerMs
<1>1. q \in Int /\ q * UnitsPerMs <= next - t /\ next - t < q * UnitsPerMs + UnitsPerMs
  BY DivBounds
<1>2. CASE next <= t
  BY <1>2 DEF PollTimeoutMs
<1>3. CASE next > t
  <2>1. PollTimeoutMs(next, t) = IF q + 1 < MaxTimeoutMs THEN q + 1 ELSE MaxTimeoutMs
    BY <1>3 DEF PollTimeoutMs
  <2> HIDE DEF q
  <2>2. q >= 0
    BY <1>1, <1>3
  <2>3. (q + 1) * UnitsPerMs = q * UnitsPerMs + UnitsPerMs
    BY <1>1
  <2>4. CASE q + 1 < MaxTimeoutMs
    BY <1>1, <1>3, <2>1, <2>2, <2>3, <2>4
  <2>5. CASE q + 1 >= MaxTimeoutMs
    <3>1. MaxTimeoutMs * UnitsPerMs <= (q + 1) * UnitsPerMs
      BY <1>1, <2>5
    <3> QED
      BY <1>1, <1>3, <2>1, <2>3, <2>5, <3>1
  <2> QED
    BY <1>1, <2>4, <2>5
<1> QED
  BY <1>2, <1>3

(* NeverPolledShort speaks of the moment poll() times out; what is kept    *)
(* until then is that a pending timer is due when it will.                 *)
PolledFor ==
  phase = "poll" /\ timeout >= 0 /\ timeout < MaxTimeoutMs
    => \E e \in Pending : e.deadline <= now + timeout * UnitsPerMs

SInv == HInv /\ PolledFor /\ NeverSleptOver

(* The front of the heap is pending, and no pending timer is before it.    *)
LEMMA FrontIsFirst ==
  ASSUME TypeOK, NEW top \in Prune(heap), IsFront(top, Prune(heap)),
         NEW e \in Pending
  PROVE  top.deadline <= e.deadline
<1>1. e \in Prune(heap) /\ e \in heap /\ top \in heap
  BY PruneKeepsPending DEF Pending, Prune
<1>2. top.deadline \in Int /\ e.deadline \in Int
  BY <1>1, EntryParts
<1> QED
  BY <1>1, <1>2 DEF IsFront, Earlier

(* The timeout that is handed to poll() is right when it is. *)
LEMMA SleepTimeout ==
  ASSUME HInv, Sleep
  PROVE  PolledFor' /\ NeverSleptOver'
<1>1. Pending' = Pending /\ now' = clock /\ clock \in Int
  BY PrunePending DEF Sleep, HInv, TypeOK
<1>2. CASE Prune(heap) = {} /\ timeout' = -1
  <2>1. Pending = {}
    BY <1>2, PruneKeepsPending DEF Pending
  <2> QED
    BY <1>1, <1>2, <2>1 DEF PolledFor, NeverSleptOver
<1>3. ASSUME NEW top \in Prune(heap), IsFront(top, Prune(heap)),
             timeout' = PollTimeoutMs(top.deadline, clock)
      PROVE  PolledFor' /\ NeverSleptOver'
  <2>1. top \in Pending /\ top.deadline \in Int
    BY <1>3, FrontIsPending, EntryParts DEF Pending, HInv
  <2>2. /\ timeout' \in Nat
        /\ top.deadline <= now' => timeout' = 0
        /\ top.deadline > now'
             => timeout' * UnitsPerMs <= top.deadline - now' + UnitsPerMs
        /\ timeout' < MaxTimeoutMs => top.deadline <= now' + timeout' * UnitsPerMs
    BY <1>1, <1>3, <2>1, PollTimeoutBounds, Zenon
  <2>3. PolledFor'
    BY <1>1, <2>1, <2>2 DEF PolledFor
  <2>4. ASSUME NEW e \in Pending
        PROVE  /\ timeout' >= 0
               /\ e.deadline > now' =>
                    now' + timeout' * UnitsPerMs <= e.deadline + UnitsPerMs
               /\ e.deadline <= now' => timeout' = 0
    <3>1. e.deadline \in Int /\ top.deadline <= e.deadline
      BY <1>3, FrontIsFirst, EntryParts DEF Pending, HInv
    <3>2. timeout' * UnitsPerMs \in Int
      BY <2>2
    <3> QED
      BY <1>1, <2>1, <2>2, <3>1, <3>2
  <2> QED
    BY <1>1, <2>3, <2>4 DEF NeverSleptOver
<1> QED
  BY <1>2, <1>3 DEF Sleep

(* Nobody sets or cancels timers while the loop is in poll(). *)
LEMMA SInvStep ==
  ASSUME SInv, [Next]_vars
  PROVE  SInv'
<1>1. HInv'
  BY HInvStep DEF SInv
<1>2. CASE Sleep
  BY <1>1, <1>2, SleepTimeout DEF SInv
<1>3. CASE Tick \/ UNCHANGED vars
  <2>1. UNCHANGED <<heap, callbacks, phase, now, timeout>>
    BY <1>3 DEF Tick, loopVars, vars
  <2> QED
    BY <1>1, <2>1 DEF SInv, PolledFor, NeverSleptOver, Pending
<1>4. CASE Add \/ Cancel \/ BeginPass \/ RunOne \/ CallbackReturns \/ EndPass \/ Wake
  <2>1. phase' # "poll"
    BY <1>4 DEF Add, Cancel, Busy, loopVars, BeginPass, RunOne, Run, CallbackReturns,
                EndPass, Wake
  <2> QED
    BY <1>1, <2>1 DEF SInv, PolledFor, NeverSleptOver
<1> QED
  BY <1>2, <1>3, <1>4 DEF Next, Loop

(* The invariant of the sleeping loop holds in every behaviour. *)
THEOREM SleepInvariance == Spec => []SInv
<1>1. Init => SInv
  BY HInvInit DEF Init, SInv, PolledFor, NeverSleptOver
<1> QED
  BY <1>1, SInvStep, PTL DEF Spec

(* When poll() times out a timer is due, for any grain of the clock and    *)
(* any limit of poll()'s timeout: PollTimeoutMs rounds up.                 *)
THEOREM PollNeverShort == Spec => []NeverPolledShort
<1>1. SInv => NeverPolledShort
  <2> SUFFICES ASSUME SInv, phase = "poll", TimedOut, timeout < MaxTimeoutMs
               PROVE  \E e \in Pending : e.deadline <= clock
    BY DEF NeverPolledShort
  <2>1. PICK e \in Pending : e.deadline <= now + timeout * UnitsPerMs
    BY DEF SInv, PolledFor, TimedOut
  <2>2. e.deadline \in Int /\ clock \in Int /\ now \in Int /\ timeout * UnitsPerMs \in Int
    BY EntryParts DEF SInv, HInv, TypeOK, Pending
  <2> QED
    BY <2>1, <2>2 DEF TimedOut
<1> QED
  BY <1>1, SleepInvariance, PTL

(* No pending timer is slept over by more than a millisecond. *)
THEOREM PollNeverLong == Spec => []NeverSleptOver
<1>1. SInv => NeverSleptOver
  BY DEF SInv
<1> QED
  BY <1>1, SleepInvariance, PTL
=============================================================================
