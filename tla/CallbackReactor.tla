-------------------------- MODULE CallbackReactor --------------------------
(***************************************************************************)
(* The reactors of the callback API (include/grpcpp/support/               *)
(* client_callback.h): stubs whose operations all fail, but which promise  *)
(* the order and the number of a reactor's callbacks.                      *)
(*                                                                         *)
(* started_, holds_ and done_ are separate atomics, and each access to one *)
(* is a step of its own.  The store to started_ is a release, so that it   *)
(* may sit in the store buffer of its thread, as on x86, while the thread  *)
(* goes on to read holds_; read-modify-writes empty the buffer.            *)
(*                                                                         *)
(* The application is a reactor as upstream asks for: one thread makes the *)
(* call, operations are started before StartCall() or by a thread that has *)
(* a hold, holds are added in the same places, and each is removed once.   *)
(***************************************************************************)
EXTENDS Integers, Sequences, FiniteSets

CONSTANTS
  Threads,     \* threads of the application
  Starter,     \* the one that calls StartCall()
  Reactors,    \* which kinds of reactor: "unary", "read", "write", "bidi"
  MaxHolds     \* bound: holds that are added

ASSUME ReactorAssumption ==
  /\ Starter \in Threads /\ MaxHolds \in Nat
  /\ Reactors \subseteq {"unary", "read", "write", "bidi"}

VARIABLES
  kind,      \* the kind of reactor
  started,   \* started_, as the other threads see it
  buffered,  \* the store to it is in Starter's store buffer
  holds,     \* holds_
  done,      \* done_
  held,      \* holds that are not removed: the thread that will, a number
  added,     \* holds added so far
  op,        \* callbacks that the operation a thread has started still owes
  pc,        \* where a thread is in RemoveHold() or StartCall()
  ondone     \* how often OnDone() was called

atomics == <<started, buffered, holds, done>>
vars == <<kind, atomics, held, added, op, pc, ondone>>

(* The callbacks of each operation of a reactor, in their order. *)
ReadOps == {<<"OnReadDone">>}
WriteOps == {<<"OnWriteDone">>, <<"OnWritesDoneDone">>,
             <<"OnWriteDone", "OnWritesDoneDone">>}
BidiOps == ReadOps \cup WriteOps
Operations ==
  [read |-> ReadOps, write |-> WriteOps, bidi |-> BidiOps, unary |-> {}]

Init ==
  /\ kind \in Reactors
  /\ started = FALSE /\ buffered = FALSE /\ holds = 0 /\ done = FALSE
  /\ held = {} /\ added = 0
  /\ op = [t \in Threads |-> <<>>]
  /\ pc = [t \in Threads |-> "idle"]
  /\ ondone = 0

Called == started \/ buffered
Idle(t) == pc[t] = "idle" /\ op[t] = <<>>
Goto(t, place) == pc' = [pc EXCEPT ![t] = place]

HoldsOf(t) == {h \in held : h[1] = t}

(* A thread that may use the reactor. *)
MayUse(t) == Idle(t) /\ (HoldsOf(t) # {} \/ (t = Starter /\ ~Called))

(* Starter's store buffer is emptied by its own atomic read-modify-writes. *)
Fence(t) ==
  IF t = Starter /\ buffered THEN started' = TRUE /\ buffered' = FALSE
  ELSE UNCHANGED <<started, buffered>>

----------------------------------------------------------------------------

(* Hold: AddHold() or AddMultipleHolds() on thread t; thread u will remove *)
(* them.                                                                   *)
AddHolds(t, u, n) ==
  /\ MayUse(t) /\ kind # "unary" /\ added + n <= MaxHolds
  /\ holds' = holds + n /\ added' = added + n
  /\ held' = held \cup ({u} \X (added + 1 .. added + n))
  /\ Fence(t)
  /\ UNCHANGED <<kind, done, op, pc, ondone>>

(* StartRead, StartWrite, StartWriteLast, StartWritesDone: the callbacks   *)
(* are made before the call returns.                                       *)
StartOperation(t) ==
  /\ MayUse(t)
  /\ \E callbacks \in Operations[kind] : op' = [op EXCEPT ![t] = callbacks]
  /\ UNCHANGED <<kind, atomics, held, added, pc, ondone>>

Callback(t) ==
  /\ op[t] # <<>>
  /\ op' = [op EXCEPT ![t] = Tail(@)]
  /\ UNCHANGED <<kind, atomics, held, added, pc, ondone>>

(* MarkStarted, and on to MaybeDone.  A unary reactor has no atomics, and  *)
(* is done at once; buffered only says that it was called.                 *)
StartCall ==
  /\ Idle(Starter) /\ ~Called
  /\ buffered' = TRUE
  /\ Goto(Starter, IF kind = "unary" THEN "deliver" ELSE "load started")
  /\ UNCHANGED <<kind, started, holds, done, held, added, op, ondone>>

(* Unhold, and on to MaybeDone. *)
RemoveHold(t) ==
  /\ Idle(t)
  /\ \E h \in HoldsOf(t) : held' = held \ {h}
  /\ holds' = holds - 1
  /\ Fence(t)
  /\ Goto(t, "load started")
  /\ UNCHANGED <<kind, done, added, op, ondone>>

(* ConsumeDeliverDone: the three tests, one after the other. *)
LoadStarted(t) ==
  /\ pc[t] = "load started"
  /\ Goto(t, IF started \/ (t = Starter /\ buffered) THEN "load holds"
             ELSE "idle")
  /\ UNCHANGED <<kind, atomics, held, added, op, ondone>>

LoadHolds(t) ==
  /\ pc[t] = "load holds"
  /\ Goto(t, IF holds <= 0 THEN "exchange" ELSE "idle")
  /\ UNCHANGED <<kind, atomics, held, added, op, ondone>>

(* Variant: done_ is set without looking at what it was. *)
ExchangeDoneBlind(t) ==
  /\ pc[t] = "exchange"
  /\ done' = TRUE
  /\ Goto(t, "deliver")
  /\ Fence(t)
  /\ UNCHANGED <<kind, holds, held, added, op, ondone>>

ExchangeDone(t) ==
  /\ pc[t] = "exchange"
  /\ done' = TRUE
  /\ Goto(t, IF done THEN "idle" ELSE "deliver")
  /\ Fence(t)
  /\ UNCHANGED <<kind, holds, held, added, op, ondone>>

(* OnDone(UNIMPLEMENTED). *)
DeliverDone(t) ==
  /\ pc[t] = "deliver"
  /\ ondone' = ondone + 1
  /\ Goto(t, "idle")
  /\ UNCHANGED <<kind, atomics, held, added, op>>

(* The processor writes the store buffer to memory. *)
Flush ==
  /\ buffered /\ started' = TRUE /\ buffered' = FALSE
  /\ UNCHANGED <<kind, holds, done, held, added, op, pc, ondone>>

MaybeDone(t) ==
  LoadStarted(t) \/ LoadHolds(t) \/ ExchangeDone(t) \/ DeliverDone(t)

Next ==
  \/ StartCall \/ Flush
  \/ \E t \in Threads :
       \/ \E u \in Threads, n \in 1..MaxHolds : AddHolds(t, u, n)
       \/ StartOperation(t) \/ Callback(t) \/ RemoveHold(t) \/ MaybeDone(t)

Spec == Init /\ [][Next]_vars

(* Threads go on with the calls they are in, whoever has a hold removes it *)
(* (the reactor's side of the contract), and stores reach memory.          *)
FairSpec ==
  /\ Spec /\ WF_vars(Flush)
  /\ \A t \in Threads :
       WF_vars(Callback(t)) /\ SF_vars(RemoveHold(t)) /\ WF_vars(MaybeDone(t))

----------------------------------------------------------------------------

Delivering == \E t \in Threads : pc[t] = "deliver"

(* OnDone() is called at most once, and only after StartCall(), when every *)
(* hold has been given back and every operation that was started has made  *)
(* its callbacks.                                                          *)
DoneOnceAfterHolds ==
  /\ ondone <= 1
  /\ ondone = 1 \/ Delivering =>
       /\ Called /\ holds = 0 /\ held = {}
       /\ \A t \in Threads : op[t] = <<>>

(* client_callback.h:7-8: "OnDone(UNIMPLEMENTED) fires exactly once, only  *)
(* after StartCall() AND after every hold is removed".  So it does fire.   *)
DoneFires == Called ~> ondone = 1
=============================================================================
