-------------------------- MODULE CompletionQueue --------------------------
(***************************************************************************)
(* grpc::CompletionQueue (include/grpcpp/completion_queue.h), shared by    *)
(* threads that start tagged operations (see AsyncStubs), threads that     *)
(* call Next() until it returns false, one that polls with AsyncNext() and *)
(* one that shuts the queue down.                                          *)
(*                                                                         *)
(* The condition variable is a set of waiting threads: notify_one wakes    *)
(* any one of them, notify_all all of them, and a woken thread tests the   *)
(* predicate again once it has the mutex.                                  *)
(***************************************************************************)
EXTENDS Naturals, Sequences

CONSTANTS
  Waiters,   \* threads that call Next()
  Tags       \* tags of the operations that may be started

VARIABLES
  queue,      \* queue_
  shutdown,   \* shutdown_
  waiting,    \* threads that wait on cv_
  ready,      \* threads in Next() that are to test the predicate
  ended,      \* threads whose Next() has returned false
  enqueued,   \* tags that were enqueued, in order
  late,       \* tags that were enqueued after the shutdown
  got         \* tags that were delivered, in order

queue_vars == <<queue, shutdown, waiting, ready, ended, enqueued, late, got>>

QueueInit ==
  /\ queue = <<>> /\ shutdown = FALSE
  /\ waiting = {} /\ ready = Waiters /\ ended = {}
  /\ enqueued = <<>> /\ late = {} /\ got = <<>>

Members(s) == {s[i] : i \in DOMAIN s}

----------------------------------------------------------------------------

Deliver ==
  /\ queue # <<>>
  /\ queue' = Tail(queue) /\ got' = Append(got, Head(queue))

Wait(t) ==
  /\ queue = <<>> /\ ~shutdown
  /\ waiting' = waiting \cup {t} /\ ready' = ready \ {t}
  /\ UNCHANGED <<queue, got, ended>>

ReturnFalse(t) ==
  /\ ended' = ended \cup {t} /\ ready' = ready \ {t}
  /\ UNCHANGED <<queue, got, waiting>>

(* Variant: shutdown_ is looked at before the queue. *)
NextDropsOnShutdown(t) ==
  /\ t \in ready
  /\ \/ ~shutdown /\ Deliver /\ UNCHANGED <<waiting, ready, ended>>
     \/ shutdown /\ ReturnFalse(t)
     \/ Wait(t)
  /\ UNCHANGED <<shutdown, enqueued, late>>

(* Next(), from the moment the thread has the mutex: it takes a tag (and   *)
(* calls Next() again), returns false, or waits.                           *)
NextTag(t) ==
  /\ t \in ready
  /\ \/ Deliver /\ UNCHANGED <<waiting, ready, ended>>
     \/ queue = <<>> /\ shutdown /\ ReturnFalse(t)
     \/ Wait(t)
  /\ UNCHANGED <<shutdown, enqueued, late>>

(* AsyncNext() that gets an event; otherwise it changes nothing. *)
AsyncNext ==
  /\ Deliver
  /\ UNCHANGED <<shutdown, waiting, ready, ended, enqueued, late>>

Shutdown ==
  /\ ~shutdown /\ shutdown' = TRUE
  /\ waiting' = {} /\ ready' = ready \cup waiting
  /\ UNCHANGED <<queue, ended, enqueued, late, got>>

(* Variant: a waiter is told only if the queue has run up. *)
EgrpcEnqueueTagIfBacklog(tag) ==
  /\ tag \notin Members(enqueued)
  /\ queue' = Append(queue, tag) /\ enqueued' = Append(enqueued, tag)
  /\ late' = IF shutdown THEN late \cup {tag} ELSE late
  /\ IF waiting = {} \/ queue = <<>> THEN UNCHANGED <<waiting, ready>>
     ELSE \E t \in waiting : waiting' = waiting \ {t} /\ ready' = ready \cup {t}
  /\ UNCHANGED <<shutdown, ended, got>>

(* EgrpcEnqueueTag, at the start of an operation, which nothing prevents   *)
(* from coming after the shutdown.                                         *)
EgrpcEnqueueTag(tag) ==
  /\ tag \notin Members(enqueued)
  /\ queue' = Append(queue, tag) /\ enqueued' = Append(enqueued, tag)
  /\ late' = IF shutdown THEN late \cup {tag} ELSE late
  /\ IF waiting = {} THEN UNCHANGED <<waiting, ready>>
     ELSE \E t \in waiting : waiting' = waiting \ {t} /\ ready' = ready \cup {t}
  /\ UNCHANGED <<shutdown, ended, got>>

----------------------------------------------------------------------------

(* Next() reports the end only when everything enqueued before the         *)
(* shutdown has been delivered: an empty queue that races a producer is    *)
(* not taken for the end.                                                  *)
DrainedBeforeFalse ==
  ended # {} => shutdown /\ Members(enqueued) \ late \subseteq Members(got)

(* Nobody sleeps through what is for them: a tag that is enqueued before   *)
(* the shutdown is delivered, also when the thread that is woken for it    *)
(* finds that another one took a tag first, and every thread in Next()     *)
(* returns after a shutdown.                                               *)
NobodyOversleeps ==
  /\ \A tag \in Tags :
       (tag \in Members(enqueued) \ late) ~> (tag \in Members(got))
  /\ shutdown ~> ended = Waiters
=============================================================================
