---------------------------- MODULE AsyncProofs ----------------------------
(***************************************************************************)
(* Proofs about CallbackReactor and AsyncStubs.                            *)
(*                                                                         *)
(* OnDone() of a reactor, for any number of threads and holds.  The point  *)
(* of the invariant is that being quiet (StartCall() was called, no hold   *)
(* is left, no operation is in progress) is for good, and that whoever is  *)
(* past the test of holds_ has found the reactor quiet.                    *)
(*                                                                         *)
(* The completion queue and the async stubs, for any number of threads in  *)
(* Next() and of operations.  The invariant says that a tag that was       *)
(* enqueued is in the queue or was delivered, which neither property says. *)
(***************************************************************************)
EXTENDS CallbackReactor, AsyncStubs, FiniteSetTheorems, TLAPS

----------------------------------------------------------------------------
(* CallbackReactor *)

Places == {"idle", "load started", "load holds", "exchange", "deliver"}

Callbacks == {"OnReadDone", "OnWriteDone", "OnWritesDoneDone"}

RTypes ==
  /\ kind \in Reactors
  /\ started \in BOOLEAN /\ buffered \in BOOLEAN /\ done \in BOOLEAN
  /\ added \in Nat /\ held \subseteq Threads \X (1..added)
  /\ op \in [Threads -> Seq(Callbacks)]
  /\ pc \in [Threads -> Places]
  /\ ondone \in {0, 1}

(* holds_ counts the holds. *)
Counted == IsFiniteSet(held) /\ holds = Cardinality(held)

Quiet == Called /\ held = {} /\ \A t \in Threads : op[t] = <<>>

(* An operation is in progress only where the contract allows one. *)
Covered ==
  \A t \in Threads :
    op[t] # <<>> => HoldsOf(t) # {} \/ (t = Starter /\ ~Called)

(* A unary reactor has neither holds nor operations, nor any use for done_.*)
UnaryBare ==
  kind = "unary" =>
    /\ held = {}
    /\ \A t \in Threads : op[t] = <<>> /\ pc[t] \in {"idle", "deliver"}

(* Somebody has won the right to call OnDone(). *)
Claimed == IF kind = "unary" THEN Called ELSE done

(* What the threads in ConsumeDeliverDone() know. *)
Known ==
  /\ \A t \in Threads :
       /\ pc[t] = "load holds" => Called
       /\ pc[t] \in {"exchange", "deliver"} => Quiet
       /\ pc[t] = "deliver" => Claimed /\ ondone = 0
  /\ \A t, u \in Threads : pc[t] = "deliver" /\ pc[u] = "deliver" => t = u
  /\ ondone = 1 => Claimed /\ Quiet

RInv == RTypes /\ Counted /\ Covered /\ UnaryBare /\ Known

(* A thread's holds with numbers a..b are b - a + 1 (AddMultipleHolds).     *)
LEMMA NumberedHolds ==
  ASSUME NEW u, NEW a \in Int, NEW b \in Int, a <= b + 1
  PROVE  IsFiniteSet({u} \X (a..b)) /\ Cardinality({u} \X (a..b)) = b - a + 1
<1> DEFINE Number == [i \in a..b |-> <<u, i>>]
<1>1. IsFiniteSet(a..b) /\ Cardinality(a..b) = b - a + 1
  <2>1. IsFiniteSet(a..b) /\ Cardinality(a..b) = IF a > b THEN 0 ELSE b - a + 1
    BY FS_Interval
  <2> QED
    BY <2>1
<1>2. Number \in Bijection(a..b, {u} \X (a..b))
  <2>1. Number \in [a..b -> {u} \X (a..b)]
    OBVIOUS
  <2>2. \A i, j \in a..b : Number[i] = Number[j] => i = j
    OBVIOUS
  <2>3. \A h \in {u} \X (a..b) : \E i \in a..b : Number[i] = h
    OBVIOUS
  <2> HIDE DEF Number
  <2> QED
    BY <2>1, <2>2, <2>3 DEF Bijection, Injection, Surjection, IsInjective
<1>3. ExistsBijection(a..b, {u} \X (a..b))
  BY <1>2 DEF ExistsBijection
<1> QED
  BY <1>1, <1>3, FS_Bijection

(* Counts of disjoint sets add up. *)
LEMMA DisjointCount ==
  ASSUME NEW S, IsFiniteSet(S), NEW T, IsFiniteSet(T), S \cap T = {}
  PROVE  /\ IsFiniteSet(S \cup T)
         /\ Cardinality(S \cup T) = Cardinality(S) + Cardinality(T)
<1>1. Cardinality(S \cup T) = Cardinality(S) + Cardinality(T) - Cardinality(S \cap T)
  BY FS_Union
<1>2. Cardinality(S \cap T) = 0
  BY FS_EmptySet
<1>3. Cardinality(S) \in Nat /\ Cardinality(T) \in Nat
  BY FS_CardinalityType
<1> QED
  BY <1>1, <1>2, <1>3, FS_Union

(* AddMultipleHolds adds as many holds as it counts. *)
LEMMA CountAdded ==
  ASSUME RTypes, Counted, NEW u \in Threads, NEW n \in Nat,
         holds' = holds + n,
         held' = held \cup ({u} \X (added + 1 .. added + n))
  PROVE  Counted'
<1> DEFINE new == {u} \X (added + 1 .. added + n)
<1>1. added \in Nat
  BY DEF RTypes
<1>2. IsFiniteSet(new) /\ Cardinality(new) = n
  <2>1. SUFFICES ASSUME NEW a \in Int, NEW b \in Int, a = added + 1, b = added + n
                 PROVE  IsFiniteSet({u} \X (a..b)) /\ Cardinality({u} \X (a..b)) = n
    <3>1. added + 1 \in Int /\ added + n \in Int
      BY <1>1
    <3> QED
      BY <3>1, Zenon
  <2>2. a <= b + 1 /\ b - a + 1 = n
    BY <1>1, <2>1
  <2> QED
    BY <2>2, NumberedHolds
<1>3. held \cap new = {}
  BY <1>1 DEF RTypes
<1> HIDE DEF new
<1>4. held' = held \cup new
  BY DEF new
<1>5. /\ IsFiniteSet(held \cup new)
      /\ Cardinality(held \cup new) = Cardinality(held) + Cardinality(new)
  BY <1>2, <1>3, DisjointCount, Zenon DEF Counted
<1> QED
  BY <1>2, <1>4, <1>5 DEF Counted

(* RemoveHold removes one hold and counts it. *)
LEMMA CountRemoved ==
  ASSUME Counted, NEW h \in held, holds' = holds - 1, held' = held \ {h}
  PROVE  Counted'
BY FS_RemoveElement DEF Counted

(* holds_ <= 0 says that no hold is left. *)
LEMMA CountZero ==
  ASSUME Counted, holds <= 0
  PROVE  held = {} /\ holds = 0
<1>1. Cardinality(held) \in Nat
  BY FS_CardinalityType DEF Counted
<1>2. Cardinality(held) = 0
  BY <1>1 DEF Counted
<1> QED
  BY <1>2, FS_EmptySet DEF Counted

(* A reactor that is quiet counts zero holds. *)
LEMMA ZeroCount == Counted /\ held = {} => holds = 0
BY FS_EmptySet DEF Counted

(* The constructor: no hold, no call, no callback. *)
LEMMA ReactorInit == Init => RInv
<1> SUFFICES ASSUME Init PROVE RInv
  OBVIOUS
<1>1. <<>> \in Seq(Callbacks)
  OBVIOUS
<1>2. RTypes
  BY <1>1 DEF Init, RTypes, Places
<1>3. Counted
  BY FS_EmptySet DEF Init, Counted
<1>4. Covered /\ UnaryBare /\ Known
  BY DEF Init, Covered, UnaryBare, Known
<1> QED
  BY <1>2, <1>3, <1>4 DEF RInv

(* Fence does not change whether StartCall() was called. *)
LEMMA FenceKeepsCalled ==
  ASSUME RTypes, NEW t, Fence(t)
  PROVE  Called' = Called /\ started' \in BOOLEAN /\ buffered' \in BOOLEAN
BY DEF RTypes, Fence, Called

(* What leaves holds and operations alone and does not call StartCall()    *)
(* keeps the contract and the quiet.                                       *)
LEMMA Undisturbed ==
  ASSUME RInv, UNCHANGED <<kind, holds, held, added, op>>, Called' = Called
  PROVE  Counted' /\ Covered' /\ Quiet' = Quiet
<1>1. Counted'
  BY DEF RInv, Counted
<1>2. Covered'
  BY DEF RInv, Covered, HoldsOf
<1>3. Quiet' = Quiet
  BY Zenon DEF Quiet
<1> QED
  BY <1>1, <1>2, <1>3

(* AddHolds needs a hold or comes before the call, so that the reactor is  *)
(* not quiet and nobody is past the test of holds_.                        *)
LEMMA AddHoldsStep ==
  ASSUME RInv, NEW t \in Threads, NEW u \in Threads, NEW n \in 1..MaxHolds,
         AddHolds(t, u, n)
  PROVE  RInv'
<1> USE DEF RInv
<1>1. Called' = Called /\ started' \in BOOLEAN /\ buffered' \in BOOLEAN
  BY FenceKeepsCalled DEF AddHolds
<1>2. ~Quiet
  BY DEF AddHolds, MayUse, HoldsOf, Quiet
<1>3. n \in Nat /\ added \in Nat /\ MaxHolds \in Nat
  BY ReactorAssumption DEF RTypes
<1>4. UNCHANGED <<kind, done, op, pc, ondone>> /\ kind # "unary"
  BY DEF AddHolds
<1>5. added' \in Nat /\ held' \subseteq Threads \X (1..added')
  BY <1>3 DEF RTypes, AddHolds
<1>6. RTypes'
  BY <1>1, <1>4, <1>5 DEF RTypes
<1>7. Counted'
  BY <1>3, CountAdded DEF AddHolds
<1>8. held \subseteq held'
  BY DEF AddHolds
<1>9. Covered'
  BY <1>1, <1>4, <1>8 DEF Covered, HoldsOf
<1>10. UnaryBare' /\ Known'
  BY <1>1, <1>2, <1>4 DEF UnaryBare, Known, RTypes, Claimed
<1> QED
  BY <1>6, <1>7, <1>9, <1>10

(* An operation starts under a hold or before the call. *)
LEMMA StartOperationStep ==
  ASSUME RInv, NEW t \in Threads, StartOperation(t)
  PROVE  RInv'
<1> USE DEF RInv
<1>1. UNCHANGED <<kind, started, buffered, holds, done, held, added, pc, ondone>>
  BY DEF StartOperation, atomics
<1>2. ~Quiet /\ (HoldsOf(t) # {} \/ (t = Starter /\ ~Called))
  BY DEF StartOperation, MayUse, HoldsOf, Quiet
<1>3. PICK callbacks \in Operations[kind] : op' = [op EXCEPT ![t] = callbacks]
  BY DEF StartOperation
<1>4. kind \in {"unary", "read", "write", "bidi"}
  BY ReactorAssumption DEF RTypes
<1>5. /\ kind # "unary"
      /\ callbacks \in Seq(Callbacks)
  <2>0. /\ <<"OnReadDone">> \in Seq(Callbacks)
        /\ <<"OnWriteDone">> \in Seq(Callbacks)
        /\ <<"OnWritesDoneDone">> \in Seq(Callbacks)
        /\ <<"OnWriteDone", "OnWritesDoneDone">> \in Seq(Callbacks)
    BY DEF Callbacks
  <2>1. CASE kind = "unary"
    BY <1>3, <2>1 DEF Operations
  <2>2. CASE kind = "read"
    BY <1>3, <2>0, <2>2 DEF Operations, ReadOps
  <2>3. CASE kind = "write"
    BY <1>3, <2>0, <2>3 DEF Operations, WriteOps
  <2>4. CASE kind = "bidi"
    BY <1>3, <2>0, <2>4 DEF Operations, BidiOps, ReadOps, WriteOps
  <2> QED
    BY <1>4, <2>1, <2>2, <2>3, <2>4
<1>6. RTypes'
  BY <1>1, <1>3, <1>5 DEF RTypes
<1>7. Counted'
  BY <1>1 DEF Counted
<1>8. Covered'
  BY <1>1, <1>2, <1>3 DEF Covered, HoldsOf, Called, RTypes
<1>9. UnaryBare' /\ Known'
  BY <1>1, <1>2, <1>5 DEF UnaryBare, Known, RTypes, Claimed, Called
<1> QED
  BY <1>6, <1>7, <1>8, <1>9

(* A callback is made: fewer are owed, nothing else changes. *)
LEMMA CallbackStep ==
  ASSUME RInv, NEW t \in Threads, Callback(t)
  PROVE  RInv'
<1> USE DEF RInv
<1>1. UNCHANGED <<kind, started, buffered, holds, done, held, added, pc, ondone>>
  BY DEF Callback, atomics
<1>2. op[t] # <<>> /\ op' = [op EXCEPT ![t] = Tail(op[t])]
  BY DEF Callback
<1>3. RTypes'
  <2>1. Tail(op[t]) \in Seq(Callbacks)
    BY <1>2 DEF RTypes
  <2> QED
    BY <1>1, <1>2, <2>1 DEF RTypes
<1>4. ~Quiet
  BY <1>2 DEF Quiet
<1>5. Counted'
  BY <1>1 DEF Counted
<1>6. Covered'
  BY <1>1, <1>2 DEF Covered, HoldsOf, Called, RTypes
<1>7. UnaryBare' /\ Known'
  BY <1>1, <1>2, <1>4 DEF UnaryBare, Known, RTypes, Claimed, Called
<1> QED
  BY <1>3, <1>5, <1>6, <1>7

(* StartCall() finds nobody in ConsumeDeliverDone(), since all that is     *)
(* known there presupposes it; a unary reactor is quiet from here on.      *)
LEMMA StartCallStep == ASSUME RInv, StartCall PROVE RInv'
<1> USE ReactorAssumption DEF RInv
<1>1. /\ UNCHANGED <<kind, started, holds, done, held, added, op, ondone>>
      /\ buffered' = TRUE /\ ~Called /\ op[Starter] = <<>>
  BY DEF StartCall, Idle
<1>2. Called' /\ ~Quiet
  BY <1>1 DEF Called, Quiet
<1>3. pc' = [pc EXCEPT ![Starter] = IF kind = "unary" THEN "deliver" ELSE "load started"]
  BY DEF StartCall, Goto
<1>4. RTypes'
  BY <1>1, <1>3 DEF RTypes, Places
<1>5. Counted'
  BY <1>1 DEF Counted
<1>6. Covered'
  BY <1>1 DEF Covered, HoldsOf
<1>7. UnaryBare'
  BY <1>1, <1>3 DEF UnaryBare, RTypes
<1>8. ondone = 0 /\ \A t \in Threads : pc[t] \notin {"load holds", "exchange", "deliver"}
  BY <1>1, <1>2 DEF Known, RTypes
<1>9. kind = "unary" => Quiet'
  BY <1>1, <1>2 DEF UnaryBare, Quiet
<1>10. Known'
  BY <1>1, <1>2, <1>3, <1>8, <1>9 DEF Known, RTypes, Claimed
<1> QED
  BY <1>4, <1>5, <1>6, <1>7, <1>10

(* A hold is removed by the thread that has it, which has no operation in  *)
(* progress: the operations of the others keep theirs.                     *)
LEMMA RemoveHoldStep ==
  ASSUME RInv, NEW t \in Threads, RemoveHold(t)
  PROVE  RInv'
<1> USE DEF RInv
<1>1. /\ UNCHANGED <<kind, done, added, op, ondone>> /\ holds' = holds - 1
      /\ op[t] = <<>> /\ pc' = [pc EXCEPT ![t] = "load started"]
  BY DEF RemoveHold, Idle, Goto
<1>2. PICK h \in HoldsOf(t) : held' = held \ {h}
  BY DEF RemoveHold
<1>3. h \in held /\ h[1] = t
  BY <1>2 DEF HoldsOf
<1>4. Called' = Called /\ started' \in BOOLEAN /\ buffered' \in BOOLEAN
  BY FenceKeepsCalled DEF RemoveHold
<1>5. ~Quiet /\ kind # "unary"
  BY <1>3 DEF Quiet, UnaryBare
<1>6. RTypes'
  BY <1>1, <1>2, <1>4 DEF RTypes, Places
<1>7. Counted'
  BY <1>1, <1>2, <1>3, CountRemoved
<1>8. Covered'
  <2>1. \A u \in Threads : u # t => HoldsOf(u)' = HoldsOf(u)
    BY <1>2, <1>3 DEF HoldsOf
  <2> QED
    BY <1>1, <1>4, <2>1 DEF Covered
<1>9. UnaryBare' /\ Known'
  BY <1>1, <1>4, <1>5 DEF UnaryBare, Known, RTypes, Claimed
<1> QED
  BY <1>6, <1>7, <1>8, <1>9

(* The load of started_ proves that StartCall() was called. *)
LEMMA LoadStartedStep ==
  ASSUME RInv, NEW t \in Threads, LoadStarted(t)
  PROVE  RInv'
<1> USE DEF RInv
<1>1. UNCHANGED <<kind, started, buffered, holds, done, held, added, op, ondone>>
  BY DEF LoadStarted, atomics
<1>2. Called' = Called
  BY <1>1 DEF Called
<1>3. Counted' /\ Covered' /\ Quiet' = Quiet
  BY <1>1, <1>2, Undisturbed
<1>4. /\ pc[t] = "load started"
      /\ \/ Called /\ pc' = [pc EXCEPT ![t] = "load holds"]
         \/ pc' = [pc EXCEPT ![t] = "idle"]
  BY DEF LoadStarted, Goto, Called
<1>5. RTypes'
  BY <1>1, <1>4 DEF RTypes, Places
<1>6. UnaryBare'
  BY <1>1, <1>4 DEF UnaryBare, RTypes
<1>7. Known'
  BY <1>1, <1>2, <1>3, <1>4 DEF Known, RTypes, Claimed
<1> QED
  BY <1>3, <1>5, <1>6, <1>7

(* The load of holds_ after that of started_ proves that all is quiet: the *)
(* threads that could add a hold again have none, and it is too late for   *)
(* the one that needs none.                                                *)
LEMMA LoadHoldsStep ==
  ASSUME RInv, NEW t \in Threads, LoadHolds(t)
  PROVE  RInv'
<1> USE DEF RInv
<1>1. UNCHANGED <<kind, started, buffered, holds, done, held, added, op, ondone>>
  BY DEF LoadHolds, atomics
<1>2. Called' = Called
  BY <1>1 DEF Called
<1>3. Counted' /\ Covered' /\ Quiet' = Quiet
  BY <1>1, <1>2, Undisturbed
<1>4. pc[t] = "load holds" /\ Called
  BY DEF LoadHolds, Known
<1>5. holds <= 0 => Quiet
  <2>1. SUFFICES ASSUME holds <= 0 PROVE Quiet
    OBVIOUS
  <2>2. held = {}
    BY <2>1, CountZero
  <2>3. \A u \in Threads : op[u] = <<>>
    BY <1>4, <2>2 DEF Covered, HoldsOf
  <2> QED
    BY <1>4, <2>2, <2>3 DEF Quiet
<1>6. \/ Quiet /\ pc' = [pc EXCEPT ![t] = "exchange"]
      \/ pc' = [pc EXCEPT ![t] = "idle"]
  BY <1>5 DEF LoadHolds, Goto
<1>7. RTypes'
  BY <1>1, <1>6 DEF RTypes, Places
<1>8. UnaryBare'
  BY <1>1, <1>4, <1>6 DEF UnaryBare, RTypes
<1>9. Known'
  BY <1>1, <1>2, <1>3, <1>4, <1>6 DEF Known, RTypes, Claimed
<1> QED
  BY <1>3, <1>7, <1>8, <1>9

(* The exchange of done_ lets one thread through. *)
LEMMA ExchangeDoneStep ==
  ASSUME RInv, NEW t \in Threads, ExchangeDone(t)
  PROVE  RInv'
<1> USE DEF RInv
<1>1. UNCHANGED <<kind, holds, held, added, op, ondone>> /\ done' = TRUE
  BY DEF ExchangeDone
<1>2. Called' = Called /\ started' \in BOOLEAN /\ buffered' \in BOOLEAN
  BY FenceKeepsCalled DEF ExchangeDone
<1>3. Counted' /\ Covered' /\ Quiet' = Quiet
  BY <1>1, <1>2, Undisturbed
<1>4. pc[t] = "exchange" /\ Quiet /\ kind # "unary"
  BY DEF ExchangeDone, Known, UnaryBare
<1>5. \/ ~done /\ pc' = [pc EXCEPT ![t] = "deliver"]
      \/ pc' = [pc EXCEPT ![t] = "idle"]
  BY DEF ExchangeDone, Goto
<1>6. RTypes'
  BY <1>1, <1>2, <1>5 DEF RTypes, Places
<1>7. UnaryBare'
  BY <1>1, <1>4 DEF UnaryBare
<1>8. ~done => ondone = 0 /\ \A u \in Threads : pc[u] # "deliver"
  BY <1>4 DEF Known, Claimed, RTypes
<1>9. Known'
  BY <1>1, <1>2, <1>3, <1>4, <1>5, <1>8 DEF Known, RTypes, Claimed
<1> QED
  BY <1>3, <1>6, <1>7, <1>9

(* OnDone() is called by the one thread that was let through. *)
LEMMA DeliverDoneStep ==
  ASSUME RInv, NEW t \in Threads, DeliverDone(t)
  PROVE  RInv'
<1> USE DEF RInv
<1>1. UNCHANGED <<kind, started, buffered, holds, done, held, added, op>>
  BY DEF DeliverDone, atomics
<1>2. Called' = Called
  BY <1>1 DEF Called
<1>3. Counted' /\ Covered' /\ Quiet' = Quiet
  BY <1>1, <1>2, Undisturbed
<1>4. /\ pc[t] = "deliver" /\ ondone' = ondone + 1 /\ pc' = [pc EXCEPT ![t] = "idle"]
  BY DEF DeliverDone, Goto
<1>5. ondone = 0 /\ Claimed /\ Quiet /\ \A u \in Threads : pc[u] = "deliver" => u = t
  BY <1>4 DEF Known
<1>6. ondone' = 1
  BY <1>4, <1>5
<1>7. RTypes'
  BY <1>1, <1>4, <1>6 DEF RTypes, Places
<1>8. UnaryBare'
  BY <1>1, <1>4 DEF UnaryBare, RTypes
<1>9. Known'
  BY <1>1, <1>2, <1>3, <1>4, <1>5, <1>6 DEF Known, RTypes, Claimed
<1> QED
  BY <1>3, <1>7, <1>8, <1>9

(* A store that reaches memory changes nothing that the invariant sees. *)
LEMMA FlushStep == ASSUME RInv, Flush PROVE RInv'
<1> USE DEF RInv
<1>1. /\ UNCHANGED <<kind, holds, done, held, added, op, pc, ondone>>
      /\ buffered /\ started' = TRUE /\ buffered' = FALSE
  BY DEF Flush
<1>2. Called' = Called
  BY <1>1 DEF Called
<1>3. Counted' /\ Covered' /\ Quiet' = Quiet
  BY <1>1, <1>2, Undisturbed
<1>4. RTypes' /\ UnaryBare'
  BY <1>1 DEF RTypes, UnaryBare
<1>5. Known'
  BY <1>1, <1>2, <1>3 DEF Known, Claimed
<1> QED
  BY <1>3, <1>4, <1>5

(* Every step of every thread keeps the invariant. *)
LEMMA ReactorStep == RInv /\ [Next]_vars => RInv'
<1> SUFFICES ASSUME RInv, [Next]_vars PROVE RInv'
  OBVIOUS
<1>1. CASE UNCHANGED vars
  <2>1. UNCHANGED <<kind, started, buffered, holds, done, held, added, op, pc, ondone>>
    BY <1>1 DEF vars, atomics
  <2>2. Called' = Called
    BY <2>1 DEF Called
  <2>3. Counted' /\ Covered' /\ Quiet' = Quiet
    BY <2>1, <2>2, Undisturbed
  <2>4. RTypes' /\ UnaryBare' /\ Known'
    BY <2>1, <2>2, <2>3 DEF RInv, RTypes, UnaryBare, Known, Claimed
  <2> QED
    BY <2>3, <2>4 DEF RInv
<1>2. CASE StartCall \/ Flush
  BY <1>2, StartCallStep, FlushStep
<1>3. CASE \E t, u \in Threads, n \in 1..MaxHolds : AddHolds(t, u, n)
  BY <1>3, AddHoldsStep
<1>4. CASE \E t \in Threads : StartOperation(t) \/ Callback(t) \/ RemoveHold(t)
  BY <1>4, StartOperationStep, CallbackStep, RemoveHoldStep
<1>5. CASE \E t \in Threads : MaybeDone(t)
  BY <1>5, LoadStartedStep, LoadHoldsStep, ExchangeDoneStep, DeliverDoneStep DEF MaybeDone
<1> QED
  BY <1>1, <1>2, <1>3, <1>4, <1>5 DEF Next

(* The invariant of a reactor. *)
THEOREM ReactorInvariance == Spec => []RInv
BY ReactorInit, ReactorStep, PTL DEF Spec

(* OnDone() is called at most once, after StartCall() and when no hold is  *)
(* left and no operation is in progress, whatever the threads and holds.   *)
THEOREM DoneAtMostOnce == Spec => []DoneOnceAfterHolds
<1>1. RInv => DoneOnceAfterHolds
  <2> SUFFICES ASSUME RInv PROVE DoneOnceAfterHolds
    OBVIOUS
  <2>1. ondone <= 1
    BY DEF RInv, RTypes
  <2>2. ondone = 1 \/ Delivering => Quiet
    BY DEF RInv, Known, Delivering
  <2>3. Quiet => holds = 0
    BY ZeroCount DEF RInv, Quiet
  <2> QED
    BY <2>1, <2>2, <2>3 DEF DoneOnceAfterHolds, Quiet
<1> QED
  BY <1>1, ReactorInvariance, PTL

----------------------------------------------------------------------------
(* AsyncStubs *)

(* Everything enqueued is queued or delivered, and nothing else is. *)
Accounted ==
  /\ queue \in Seq(Tags) /\ got \in Seq(Tags) /\ enqueued \in Seq(Tags)
  /\ shutdown \in BOOLEAN
  /\ Members(enqueued) = Members(got) \cup Members(queue)

(* What a tag stands for: a failed operation, or a Finish that has written *)
(* its Status.                                                             *)
Meant ==
  /\ Members(enqueued) \subseteq failed \cup finished
  /\ finishing \cup finished # {} => deposited
  /\ finishing # {} => finished = {}

AInv == Accounted /\ DrainedBeforeFalse /\ Meant

(* Append adds one member, as when a tag is enqueued or handed out. *)
LEMMA MembersAppend ==
  ASSUME NEW S, NEW s \in Seq(S), NEW x \in S
  PROVE  Append(s, x) \in Seq(S) /\ Members(Append(s, x)) = Members(s) \cup {x}
<1>1. Append(s, x) \in Seq(S) /\ DOMAIN Append(s, x) = DOMAIN s \cup {Len(s) + 1}
  OBVIOUS
<1>2. /\ \A i \in DOMAIN s : Append(s, x)[i] = s[i]
      /\ Append(s, x)[Len(s) + 1] = x
  OBVIOUS
<1> QED
  BY <1>1, <1>2 DEF Members

(* Head takes one member away and Tail leaves the others (queue_.front()   *)
(* and pop_front()).                                                       *)
LEMMA MembersTail ==
  ASSUME NEW S, NEW s \in Seq(S), s # <<>>
  PROVE  /\ Head(s) \in S /\ Tail(s) \in Seq(S)
         /\ Members(s) = {Head(s)} \cup Members(Tail(s))
<1>1. Head(s) \in S /\ Tail(s) \in Seq(S)
  OBVIOUS
<1>2. /\ DOMAIN s = 1..Len(s) /\ DOMAIN Tail(s) = 1 .. Len(s) - 1
      /\ Len(s) \in Nat \ {0} /\ Head(s) = s[1]
      /\ \A i \in 1 .. Len(s) - 1 : Tail(s)[i] = s[i + 1]
  OBVIOUS
<1>3. Members(s) \subseteq {Head(s)} \cup Members(Tail(s))
  <2>1. SUFFICES ASSUME NEW i \in 1..Len(s), i # 1
                 PROVE  s[i] \in Members(Tail(s))
    BY <1>2 DEF Members
  <2>2. i - 1 \in 1 .. Len(s) - 1 /\ Tail(s)[i - 1] = s[i]
    BY <1>2, <2>1
  <2> QED
    BY <1>2, <2>2, Zenon DEF Members
<1>4. {Head(s)} \cup Members(Tail(s)) \subseteq Members(s)
  BY <1>2 DEF Members
<1> QED
  BY <1>1, <1>3, <1>4

(* An empty queue has no members. *)
LEMMA MembersEmpty == Members(<<>>) = {}
BY DEF Members

(* Handing out a tag moves it from the queue to the delivered ones. *)
LEMMA DeliverMoves ==
  ASSUME Accounted, Deliver, UNCHANGED <<shutdown, enqueued>>
  PROVE  Accounted' /\ Members(got) \subseteq Members(got')
<1>1. /\ Head(queue) \in Tags /\ queue' \in Seq(Tags)
      /\ Members(queue) = {Head(queue)} \cup Members(queue')
  BY MembersTail DEF Accounted, Deliver
<1>2. got' \in Seq(Tags) /\ Members(got') = Members(got) \cup {Head(queue)}
  BY <1>1, MembersAppend DEF Accounted, Deliver
<1>3. Members(enqueued') = Members(enqueued)
  OBVIOUS
<1> QED
  BY <1>1, <1>2, <1>3 DEF Accounted

(* EgrpcEnqueueTag adds its tag to the queue, and late if it is late. *)
LEMMA EnqueueAdds ==
  ASSUME Accounted, DrainedBeforeFalse, NEW tag \in Tags, EgrpcEnqueueTag(tag)
  PROVE  /\ Accounted' /\ DrainedBeforeFalse'
         /\ Members(enqueued') = Members(enqueued) \cup {tag}
<1>1. /\ queue' \in Seq(Tags) /\ Members(queue') = Members(queue) \cup {tag}
      /\ enqueued' \in Seq(Tags) /\ Members(enqueued') = Members(enqueued) \cup {tag}
  BY MembersAppend DEF Accounted, EgrpcEnqueueTag
<1>2. UNCHANGED <<got, shutdown, ended>> /\ Members(got') = Members(got)
  BY DEF EgrpcEnqueueTag
<1>3. Accounted'
  BY <1>1, <1>2 DEF Accounted
<1>4. DrainedBeforeFalse'
  BY <1>1, <1>2 DEF DrainedBeforeFalse, EgrpcEnqueueTag
<1> QED
  BY <1>1, <1>3, <1>4

(* Nothing is queued, delivered or reported at the start. *)
LEMMA Initially == AsyncInit => AInv
<1> SUFFICES ASSUME AsyncInit PROVE AInv
  OBVIOUS
<1>1. queue = <<>> /\ got = <<>> /\ enqueued = <<>> /\ shutdown = FALSE /\ ended = {}
  BY DEF AsyncInit, QueueInit
<1>2. Accounted
  <2>1. <<>> \in Seq(Tags)
    OBVIOUS
  <2>2. Members(enqueued) = {} /\ Members(got) = {} /\ Members(queue) = {}
    BY <1>1, MembersEmpty
  <2> QED
    BY <1>1, <2>1, <2>2, Zenon DEF Accounted
<1> QED
  BY <1>1, <1>2, MembersEmpty DEF AInv, DrainedBeforeFalse, Meant, AsyncInit

(* Every step of a producer, a consumer or the one that shuts the queue    *)
(* down keeps the invariant.                                               *)
LEMMA Inductive == AInv /\ [StubNext]_async_vars => AInv'
<1> SUFFICES ASSUME AInv, [StubNext]_async_vars PROVE AInv'
  OBVIOUS
<1>0. Accounted /\ DrainedBeforeFalse /\ Meant
  BY DEF AInv
<1>1. ASSUME NEW tag \in Tags, EnqueueFailedOp(tag) PROVE AInv'
  <2>1. EgrpcEnqueueTag(tag) /\ failed' = failed \cup {tag}
        /\ UNCHANGED <<finishing, finished, deposited>>
    BY <1>1 DEF EnqueueFailedOp
  <2> QED
    BY <1>0, <2>1, EnqueueAdds DEF AInv, Meant
<1>2. ASSUME NEW tag \in Tags, EnqueueFinish(tag) PROVE AInv'
  <2>1. CASE /\ UNCHANGED <<queue_vars, failed, finished>> /\ deposited' = TRUE
             /\ finished = {}
    <3>1. Accounted' /\ DrainedBeforeFalse' /\ Members(enqueued') = Members(enqueued)
      BY <1>0, <2>1, ZenonT(30) DEF Accounted, DrainedBeforeFalse, Members, queue_vars
    <3> QED
      BY <1>0, <2>1, <3>1 DEF AInv, Meant
  <2>2. CASE /\ finishing = {tag} /\ EgrpcEnqueueTag(tag)
             /\ finishing' = {} /\ finished' = {tag} /\ UNCHANGED <<failed, deposited>>
    <3>1. Accounted' /\ DrainedBeforeFalse'
          /\ Members(enqueued') = Members(enqueued) \cup {tag}
      BY <1>0, <2>2, EnqueueAdds
    <3> QED
      BY <1>0, <2>2, <3>1 DEF AInv, Meant
  <2> QED
    BY <1>2, <2>1, <2>2, Zenon DEF EnqueueFinish
<1>3. ASSUME UNCHANGED <<stub_vars, enqueued, late, shutdown, ended>>, Deliver
      PROVE  AInv'
  <2>1. Accounted' /\ Members(got) \subseteq Members(got')
        /\ Members(enqueued') = Members(enqueued)
    BY <1>0, <1>3, DeliverMoves
  <2> QED
    BY <1>0, <1>3, <2>1 DEF AInv, DrainedBeforeFalse, Meant, stub_vars
<1>4. ASSUME NEW t \in Waiters, NextTag(t), UNCHANGED stub_vars PROVE AInv'
  <2>1. CASE Deliver /\ UNCHANGED <<waiting, ready, ended>>
    BY <1>3, <1>4, <2>1 DEF NextTag
  <2>2. CASE queue = <<>> /\ shutdown /\ ReturnFalse(t)
    <3>1. UNCHANGED <<queue, got, enqueued, shutdown, late>>
      BY <1>4, <2>2 DEF NextTag, ReturnFalse
    <3>2. Members(enqueued) \subseteq Members(got)
      BY <1>0, <2>2, MembersEmpty DEF Accounted
    <3>3. Accounted' /\ Members(enqueued') = Members(enqueued)
          /\ Members(got') = Members(got)
      BY <1>0, <3>1 DEF Accounted
    <3> QED
      BY <1>0, <1>4, <2>2, <3>1, <3>2, <3>3
      DEF AInv, DrainedBeforeFalse, Meant, stub_vars
  <2>3. CASE Wait(t)
    <3>1. UNCHANGED <<queue, got, enqueued, shutdown, late, ended>>
      BY <1>4, <2>3 DEF NextTag, Wait
    <3>2. Accounted' /\ Members(enqueued') = Members(enqueued)
          /\ Members(got') = Members(got)
      BY <1>0, <3>1 DEF Accounted
    <3> QED
      BY <1>0, <1>4, <3>1, <3>2 DEF AInv, DrainedBeforeFalse, Meant, stub_vars
  <2> QED
    BY <1>4, <2>1, <2>2, <2>3 DEF NextTag
<1>5. ASSUME AsyncNext, UNCHANGED stub_vars PROVE AInv'
  BY <1>3, <1>5 DEF AsyncNext
<1>6. ASSUME Shutdown, UNCHANGED stub_vars PROVE AInv'
  <2>1. UNCHANGED <<queue, got, enqueued, late, ended>> /\ shutdown' = TRUE
    BY <1>6 DEF Shutdown
  <2>2. Accounted' /\ Members(enqueued') = Members(enqueued)
        /\ Members(got') = Members(got)
    BY <1>0, <2>1 DEF Accounted
  <2> QED
    BY <1>0, <1>6, <2>1, <2>2 DEF AInv, DrainedBeforeFalse, Meant, stub_vars
<1>7. ASSUME UNCHANGED async_vars PROVE AInv'
  <2>1. UNCHANGED <<queue, got, enqueued, shutdown, late, ended, stub_vars>>
    BY <1>7 DEF async_vars, queue_vars
  <2>2. Accounted' /\ Members(enqueued') = Members(enqueued)
        /\ Members(got') = Members(got)
    BY <1>0, <2>1 DEF Accounted
  <2> QED
    BY <1>0, <2>1, <2>2 DEF AInv, DrainedBeforeFalse, Meant, stub_vars
<1> QED
  BY <1>1, <1>2, <1>4, <1>5, <1>6, <1>7 DEF StubNext

(* The invariant holds always. *)
THEOREM AsyncInvariance == AsyncSpec => []AInv
BY Initially, Inductive, PTL DEF AsyncSpec

(* Next() reports the end of the queue (returns false) only after every    *)
(* tag from before Shutdown() has been delivered.                          *)
THEOREM DrainsBeforeFalse == AsyncSpec => []DrainedBeforeFalse
<1>1. AInv => DrainedBeforeFalse
  BY DEF AInv
<1> QED
  BY <1>1, AsyncInvariance, PTL

(* EnqueueFinish has written the Status when its event is delivered, and   *)
(* every other event is that of an operation that failed.                  *)
THEOREM StatusComesFirst == AsyncSpec => []StatusBeforeTag
<1>1. AInv => StatusBeforeTag
  BY DEF AInv, Accounted, Meant, StatusBeforeTag
<1> QED
  BY <1>1, AsyncInvariance, PTL
=============================================================================
