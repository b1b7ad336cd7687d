------------------------- MODULE EventThreadProofs -------------------------
(***************************************************************************)
(* Proofs about EventThread for any sets of posters, stoppers and timers   *)
(* and any bounds.                                                         *)
(*                                                                         *)
(* The invariants of EventThread are not inductive on their own.  They     *)
(* follow from IInv, which says where the op tickets are (Tickets), when   *)
(* the loop is sure to have seen the queue and the stop flag (Seen), that  *)
(* whoever published after that is still going to write the eventfd        *)
(* (Wakeable), and which stopper owns the join (Joiner).                   *)
(***************************************************************************)
EXTENDS EventThread, TLAPS

(* The queue and the batch hold the consecutive tickets that follow the    *)
(* last op run, up to the last one given.                                  *)
Tickets ==
  /\ posted = last_ran + Len(batch) + Len(ops)
  /\ \A i \in 1..Len(batch) : batch[i] = last_ran + i
  /\ \A i \in 1..Len(ops) : ops[i] = last_ran + Len(batch) + i

(* A batch exists only while RunPendingOps runs it; the flag read with the *)
(* swap is a stop request after which nothing was queued.                  *)
Seen ==
  /\ (loop = "none") = ~started
  /\ started => eventfd # NoFd
  /\ batch # <<>> => loop = "run"
  /\ loop = "run" /\ stopping => stop_requested /\ ops = <<>>
  /\ loop = "exited" => stop_requested /\ ops = <<>>
  /\ loop = "dead" => PollCanFail

(* From the swap to the end of poll(): what was published since then has   *)
(* been or will be notified.                                               *)
Wakeable ==
  /\ \/ loop = "run" /\ ~stopping
     \/ loop \in {"timers", "poll"}
  /\ ops # <<>> \/ stop_requested
  => eventfd > 0 \/ Notifying

(* Only the stopper that set joined_ has must_join. *)
Joiner ==
  /\ \A s \in Stoppers : stopper[s] = "join" => must_join[s]
  /\ \A s \in Stoppers : must_join[s] => joined
  /\ \A r, s \in Stoppers : must_join[r] /\ must_join[s] => r = s

IInv == TypeOK /\ Tickets /\ Seen /\ Wakeable /\ Joiner

(* Every step keeps the types. *)
LEMMA TypeStep ==
  ASSUME TypeOK, [Next]_vars
  PROVE  TypeOK'
<1> USE MaxPostsAssumption, EventFdMaxAssumption DEF TypeOK, NoFd, LoopStates, vars, muVars, loopVars, cbVars, threadVars, history
<1>1. CASE Start
  BY <1>1 DEF Start
<1>2. ASSUME NEW p \in Posters, Post(p)
      PROVE  TypeOK'
  BY <1>2 DEF Post
<1>3. ASSUME NEW p \in Posters, PostNotify(p)
      PROVE  TypeOK'
  BY <1>3 DEF PostNotify, Notify
<1>4. ASSUME NEW s \in Stoppers, Stop(s)
      PROVE  TypeOK'
  BY <1>4 DEF Stop
<1>5. ASSUME NEW s \in Stoppers, StopNotify(s)
      PROVE  TypeOK'
  BY <1>5 DEF StopNotify, Notify
<1>6. ASSUME NEW s \in Stoppers, Join(s)
      PROVE  TypeOK'
  BY <1>6 DEF Join
<1>7. CASE SwapOps
  BY <1>7 DEF SwapOps
<1>8. CASE RunOp
  <2>1. batch' \in Seq(Nat) /\ last_ran' \in Nat
    BY <1>8 DEF RunOp
  <2>2. /\ timers' \in SUBSET Timers /\ due' \in SUBSET timers'
        /\ watched' \in BOOLEAN /\ sock_ready' \in BOOLEAN
    BY <1>8, Zenon DEF RunOp, CallbackEffect
  <2>3. QED
    BY <1>8, <2>1, <2>2 DEF RunOp
<1>9. CASE OpsDone
  BY <1>9 DEF OpsDone
<1>10. CASE RunDue
  BY <1>10, ZenonT(30) DEF RunDue, CallbackEffect
<1>11. CASE PollReturns
  BY <1>11 DEF PollReturns, PollReady
<1>12. CASE PollInterrupted
  BY <1>12 DEF PollInterrupted
<1>13. CASE PollFails
  BY <1>13 DEF PollFails
<1>14. CASE DrainWakeup
  BY <1>14 DEF DrainWakeup, Drain
<1>15. CASE OnReady
  BY <1>15, ZenonT(30) DEF OnReady, CallbackEffect
<1>16. ASSUME NEW t \in Timers, Expire(t)
      PROVE  TypeOK'
  BY <1>16 DEF Expire
<1>17. CASE SocketEvent
  BY <1>17 DEF SocketEvent
<1>18. CASE Terminated
  BY <1>18 DEF Terminated
<1>19. CASE UNCHANGED vars
  BY <1>19
<1>20. QED
  BY <1>1, <1>2, <1>3, <1>4, <1>5, <1>6, <1>7, <1>8, <1>9, <1>10, <1>11, <1>12, <1>13, <1>14, <1>15, <1>16, <1>17, <1>18, <1>19 DEF Next, LoopStep

(* No step drops, duplicates or reorders a ticket. *)
LEMMA TicketsStep ==
  ASSUME TypeOK, Tickets, Seen, [Next]_vars
  PROVE  Tickets'
<1> USE DEF TypeOK, Tickets, Seen, vars, muVars, loopVars, cbVars, threadVars, history
<1>1. CASE Start
  BY <1>1 DEF Start
<1>2. ASSUME NEW p \in Posters, Post(p)
      PROVE  Tickets'
  BY <1>2 DEF Post
<1>3. ASSUME NEW p \in Posters, PostNotify(p)
      PROVE  Tickets'
  BY <1>3 DEF PostNotify
<1>4. ASSUME NEW s \in Stoppers, Stop(s)
      PROVE  Tickets'
  BY <1>4 DEF Stop
<1>5. ASSUME NEW s \in Stoppers, StopNotify(s)
      PROVE  Tickets'
  BY <1>5 DEF StopNotify
<1>6. ASSUME NEW s \in Stoppers, Join(s)
      PROVE  Tickets'
  BY <1>6 DEF Join
<1>7. CASE SwapOps
  <2>1. Len(batch) = 0
    BY <1>7 DEF SwapOps
  <2>2. batch' = ops /\ Len(ops') = 0 /\ posted' = posted /\ last_ran' = last_ran
    BY <1>7 DEF SwapOps
  <2>3. QED
    BY <2>1, <2>2
<1>8. CASE RunOp
  <2>1. Len(batch) > 0
    BY <1>8 DEF RunOp
  <2>2. last_ran' = last_ran + 1
    BY <1>8, <2>1 DEF RunOp
  <2>3. /\ Len(batch') = Len(batch) - 1
        /\ \A i \in 1..Len(batch') : batch'[i] = batch[i + 1]
    BY <1>8, <2>1 DEF RunOp
  <2>4. ops' = ops /\ posted' = posted
    BY <1>8 DEF RunOp
  <2>5. posted' = last_ran' + Len(batch') + Len(ops')
    BY <2>1, <2>2, <2>3, <2>4
  <2>6. \A i \in 1..Len(batch') : batch'[i] = last_ran' + i
    BY <2>1, <2>2, <2>3
  <2>7. \A i \in 1..Len(ops') : ops'[i] = last_ran' + Len(batch') + i
    BY <2>1, <2>2, <2>3, <2>4
  <2>8. QED
    BY <2>5, <2>6, <2>7
<1>9. CASE OpsDone
  BY <1>9 DEF OpsDone
<1>10. CASE RunDue
  BY <1>10 DEF RunDue
<1>11. CASE PollReturns
  BY <1>11 DEF PollReturns
<1>12. CASE PollInterrupted
  BY <1>12 DEF PollInterrupted
<1>13. CASE PollFails
  BY <1>13 DEF PollFails
<1>14. CASE DrainWakeup
  BY <1>14 DEF DrainWakeup
<1>15. CASE OnReady
  BY <1>15 DEF OnReady
<1>16. ASSUME NEW t \in Timers, Expire(t)
      PROVE  Tickets'
  BY <1>16 DEF Expire
<1>17. CASE SocketEvent
  BY <1>17 DEF SocketEvent
<1>18. CASE Terminated
  BY <1>18 DEF Terminated
<1>19. CASE UNCHANGED vars
  BY <1>19, SMTT(30)
<1>20. QED
  BY <1>1, <1>2, <1>3, <1>4, <1>5, <1>6, <1>7, <1>8, <1>9, <1>10, <1>11, <1>12, <1>13, <1>14, <1>15, <1>16, <1>17, <1>18, <1>19 DEF Next, LoopStep

(* A stop that RunPendingOps saw leaves the queue empty for good. *)
LEMMA SeenStep ==
  ASSUME TypeOK, Seen, [Next]_vars
  PROVE  Seen'
<1> USE DEF TypeOK, Seen, NoFd, vars, muVars, loopVars, cbVars, threadVars, history
<1>1. CASE Start
  BY <1>1 DEF Start
<1>2. ASSUME NEW p \in Posters, Post(p)
      PROVE  Seen'
  BY <1>2 DEF Post
<1>3. ASSUME NEW p \in Posters, PostNotify(p)
      PROVE  Seen'
  BY <1>3 DEF PostNotify, Notify
<1>4. ASSUME NEW s \in Stoppers, Stop(s)
      PROVE  Seen'
  BY <1>4 DEF Stop
<1>5. ASSUME NEW s \in Stoppers, StopNotify(s)
      PROVE  Seen'
  BY <1>5 DEF StopNotify, Notify
<1>6. ASSUME NEW s \in Stoppers, Join(s)
      PROVE  Seen'
  BY <1>6 DEF Join
<1>7. CASE SwapOps
  BY <1>7 DEF SwapOps
<1>8. CASE RunOp
  BY <1>8 DEF RunOp
<1>9. CASE OpsDone
  BY <1>9 DEF OpsDone
<1>10. CASE RunDue
  BY <1>10 DEF RunDue
<1>11. CASE PollReturns
  BY <1>11 DEF PollReturns
<1>12. CASE PollInterrupted
  BY <1>12 DEF PollInterrupted
<1>13. CASE PollFails
  BY <1>13 DEF PollFails
<1>14. CASE DrainWakeup
  BY <1>14 DEF DrainWakeup, Drain
<1>15. CASE OnReady
  BY <1>15 DEF OnReady
<1>16. ASSUME NEW t \in Timers, Expire(t)
      PROVE  Seen'
  BY <1>16 DEF Expire
<1>17. CASE SocketEvent
  BY <1>17 DEF SocketEvent
<1>18. CASE Terminated
  BY <1>18 DEF Terminated
<1>19. CASE UNCHANGED vars
  BY <1>19, SMTT(30)
<1>20. QED
  BY <1>1, <1>2, <1>3, <1>4, <1>5, <1>6, <1>7, <1>8, <1>9, <1>10, <1>11, <1>12, <1>13, <1>14, <1>15, <1>16, <1>17, <1>18, <1>19, Zenon DEF Next, LoopStep

(* Whoever publishes after the swap is going to notify. *)
LEMMA WakeableStep ==
  ASSUME TypeOK, Seen, Wakeable, [Next]_vars
  PROVE  Wakeable'
<1> USE EventFdMaxAssumption DEF TypeOK, Seen, Wakeable, Notifying, NoFd, vars, muVars, loopVars, cbVars, threadVars, history
<1>1. CASE Start
  BY <1>1 DEF Start
<1>2. ASSUME NEW p \in Posters, Post(p)
      PROVE  Wakeable'
  BY <1>2 DEF Post
<1>3. ASSUME NEW p \in Posters, PostNotify(p)
      PROVE  Wakeable'
  BY <1>3 DEF PostNotify, Notify
<1>4. ASSUME NEW s \in Stoppers, Stop(s)
      PROVE  Wakeable'
  BY <1>4 DEF Stop
<1>5. ASSUME NEW s \in Stoppers, StopNotify(s)
      PROVE  Wakeable'
  BY <1>5 DEF StopNotify, Notify
<1>6. ASSUME NEW s \in Stoppers, Join(s)
      PROVE  Wakeable'
  BY <1>6 DEF Join
<1>7. CASE SwapOps
  BY <1>7 DEF SwapOps
<1>8. CASE RunOp
  BY <1>8 DEF RunOp
<1>9. CASE OpsDone
  BY <1>9 DEF OpsDone
<1>10. CASE RunDue
  BY <1>10 DEF RunDue
<1>11. CASE PollReturns
  BY <1>11 DEF PollReturns, PollReady
<1>12. CASE PollInterrupted
  BY <1>12 DEF PollInterrupted
<1>13. CASE PollFails
  BY <1>13 DEF PollFails
<1>14. CASE DrainWakeup
  BY <1>14 DEF DrainWakeup, Drain
<1>15. CASE OnReady
  BY <1>15 DEF OnReady
<1>16. ASSUME NEW t \in Timers, Expire(t)
      PROVE  Wakeable'
  BY <1>16 DEF Expire
<1>17. CASE SocketEvent
  BY <1>17 DEF SocketEvent
<1>18. CASE Terminated
  BY <1>18 DEF Terminated
<1>19. CASE UNCHANGED vars
  BY <1>19, SMTT(30)
<1>20. QED
  BY <1>1, <1>2, <1>3, <1>4, <1>5, <1>6, <1>7, <1>8, <1>9, <1>10, <1>11, <1>12, <1>13, <1>14, <1>15, <1>16, <1>17, <1>18, <1>19 DEF Next, LoopStep

(* The join has one owner. *)
LEMMA JoinerStep ==
  ASSUME TypeOK, Joiner, [Next]_vars
  PROVE  Joiner'
<1> USE DEF TypeOK, Joiner, vars, muVars, loopVars, cbVars, threadVars, history
<1>1. CASE Start
  BY <1>1 DEF Start
<1>2. ASSUME NEW p \in Posters, Post(p)
      PROVE  Joiner'
  BY <1>2 DEF Post
<1>3. ASSUME NEW p \in Posters, PostNotify(p)
      PROVE  Joiner'
  BY <1>3 DEF PostNotify
<1>4. ASSUME NEW s \in Stoppers, Stop(s)
      PROVE  Joiner'
  BY <1>4 DEF Stop
<1>5. ASSUME NEW s \in Stoppers, StopNotify(s)
      PROVE  Joiner'
  BY <1>5 DEF StopNotify
<1>6. ASSUME NEW s \in Stoppers, Join(s)
      PROVE  Joiner'
  BY <1>6 DEF Join
<1>7. CASE SwapOps
  BY <1>7 DEF SwapOps
<1>8. CASE RunOp
  BY <1>8 DEF RunOp
<1>9. CASE OpsDone
  BY <1>9 DEF OpsDone
<1>10. CASE RunDue
  BY <1>10 DEF RunDue
<1>11. CASE PollReturns
  BY <1>11 DEF PollReturns
<1>12. CASE PollInterrupted
  BY <1>12 DEF PollInterrupted
<1>13. CASE PollFails
  BY <1>13 DEF PollFails
<1>14. CASE DrainWakeup
  BY <1>14 DEF DrainWakeup
<1>15. CASE OnReady
  BY <1>15 DEF OnReady
<1>16. ASSUME NEW t \in Timers, Expire(t)
      PROVE  Joiner'
  BY <1>16 DEF Expire
<1>17. CASE SocketEvent
  BY <1>17 DEF SocketEvent
<1>18. CASE Terminated
  BY <1>18 DEF Terminated
<1>19. CASE UNCHANGED vars
  BY <1>19
<1>20. QED
  BY <1>1, <1>2, <1>3, <1>4, <1>5, <1>6, <1>7, <1>8, <1>9, <1>10, <1>11, <1>12, <1>13, <1>14, <1>15, <1>16, <1>17, <1>18, <1>19 DEF Next, LoopStep

(* IInv is an inductive invariant of the event thread. *)
THEOREM Invariance == Spec => []IInv
<1>1. Init => IInv
  <2> SUFFICES ASSUME Init PROVE IInv
    OBVIOUS
  <2>1. TypeOK
    <3>1. eventfd \in {NoFd} \cup 0..EventFdMax
      BY EventFdMaxAssumption DEF Init
    <3>2. ops \in Seq(Nat) /\ batch \in Seq(Nat)
      BY DEF Init
    <3>3. revents \in [wake : BOOLEAN, sock : BOOLEAN]
      BY DEF Init
    <3>4. /\ poster \in [Posters -> {"idle", "notify"}]
          /\ stopper \in [Stoppers -> {"idle", "notify", "join", "done"}]
          /\ must_join \in [Stoppers -> BOOLEAN]
      BY DEF Init
    <3>5. QED
      BY <3>1, <3>2, <3>3, <3>4, ZenonT(30) DEF Init, TypeOK, LoopStates
  <2>2. Tickets
    BY DEF Init, Tickets
  <2>3. Seen /\ Wakeable
    <3>1. (loop = "none") = ~started
      BY DEF Init
    <3>2. QED
      BY <3>1 DEF Init, Seen, Wakeable
  <2>4. Joiner
    BY DEF Init, Joiner
  <2>5. QED
    BY <2>1, <2>2, <2>3, <2>4 DEF IInv
<1>2. IInv /\ [Next]_vars => IInv'
  BY TypeStep, TicketsStep, SeenStep, WakeableStep, JoinerStep DEF IInv
<1>3. QED
  BY <1>1, <1>2, PTL DEF Spec

(* The event thread's variables keep their types; in particular the        *)
(* eventfd counter stays within what the kernel holds.                     *)
THEOREM KeepsTypes == Spec => []TypeOK
<1>1. IInv => TypeOK
  BY DEF IInv
<1>2. QED
  BY <1>1, Invariance, PTL

(* The loop never sleeps through an op or a stop that has been published. *)
THEOREM NeverLosesWakeup == Spec => []NoLostWakeup
<1>1. IInv => NoLostWakeup
  BY DEF IInv, Wakeable, NoLostWakeup
<1>2. QED
  BY <1>1, Invariance, PTL

(* A stopped loop has run every op that was accepted. *)
THEOREM StopDrains == Spec => []DrainedOnExit
<1>1. IInv => DrainedOnExit
  <2> SUFFICES ASSUME IInv, loop = "exited"
               PROVE  ops = <<>> /\ last_ran = posted
    BY DEF DrainedOnExit
  <2>1. ops = <<>> /\ batch = <<>>
    BY DEF IInv, Seen
  <2>2. QED
    BY <2>1 DEF IInv, TypeOK, Tickets
<1>2. QED
  BY <1>1, Invariance, PTL

(* Two Stop() calls never join the same thread. *)
THEOREM JoinsOnce == Spec => []SingleJoin
<1>1. IInv => SingleJoin
  BY DEF IInv, Joiner, SingleJoin
<1>2. QED
  BY <1>1, Invariance, PTL

(* Every step of the event thread is a step of the abstract op queue or    *)
(* invisible to it; poll() failing is the queue's loop dying.              *)
THEOREM RefinesOpQueue == Spec => Abstract!QSafety
<1>1. Init => Abstract!QInit
  BY DEF Init, Abstract!QInit, Phase
<1>2. ASSUME IInv, IInv', [Next]_vars
      PROVE  [Abstract!QNext]_(Abstract!qvars)
  <2> USE <1>2 DEF IInv, Abstract!QNext, Abstract!qvars, Phase,
                   vars, muVars, loopVars, cbVars, threadVars, history
  <2>1. CASE Start
    BY <2>1 DEF Start, Abstract!Open, Seen
  <2>2. ASSUME NEW p \in Posters, Post(p)
        PROVE  [Abstract!QNext]_(Abstract!qvars)
    BY <2>2 DEF Post, Abstract!Accept, Seen
  <2>3. ASSUME NEW s \in Stoppers, Stop(s)
        PROVE  [Abstract!QNext]_(Abstract!qvars)
    BY <2>3 DEF Stop, Abstract!Close, Seen, TypeOK
  <2>4. CASE RunOp
    <3>1. last_ran' = last_ran + 1 /\ last_ran < posted
      <4>1. Len(batch) > 0
        BY <2>4 DEF RunOp, TypeOK
      <4>2. batch[1] = last_ran + 1
        BY <4>1 DEF TypeOK, Tickets
      <4>3. last_ran' = batch[1]
        BY <2>4 DEF RunOp
      <4>4. last_ran < posted
        BY <4>1 DEF TypeOK, Tickets
      <4>5. QED
        BY <4>2, <4>3, <4>4
    <3>2. Abstract!Run
      BY <2>4, <3>1 DEF RunOp, Abstract!Run
    <3>3. QED
      BY <3>2
  <2>5. CASE OpsDone
    <3>1. CASE stopping
      <4>1. last_ran = posted
        BY <2>5, <3>1 DEF OpsDone, Seen, Tickets, TypeOK
      <4>2. Abstract!Finish
        BY <2>5, <3>1, <4>1 DEF OpsDone, Abstract!Finish, Seen
      <4>3. QED
        BY <4>2
    <3>2. CASE ~stopping
      BY <2>5, <3>2, SMTT(30) DEF OpsDone
    <3>3. QED
      BY <3>1, <3>2
  <2>6. CASE SwapOps \/ RunDue \/ PollReturns \/ PollInterrupted
             \/ DrainWakeup \/ OnReady
    BY <2>6 DEF SwapOps, RunDue, PollReturns, PollInterrupted, DrainWakeup,
                OnReady
  <2>7. CASE PollFails
    BY <2>7, SMTT(30) DEF PollFails, Abstract!Die
  <2>8. CASE \/ \E p \in Posters : PostNotify(p)
             \/ \E s \in Stoppers : StopNotify(s) \/ Join(s)
             \/ \E t \in Timers : Expire(t)
             \/ SocketEvent \/ Terminated \/ UNCHANGED vars
    BY <2>8 DEF PostNotify, StopNotify, Join, Expire, SocketEvent, Terminated
  <2>9. QED
    BY <2>1, <2>2, <2>3, <2>4, <2>5, <2>6, <2>7, <2>8 DEF Next, LoopStep
<1>3. QED
  BY <1>1, <1>2, Invariance, PTL DEF Spec, Abstract!QSafety
=============================================================================
