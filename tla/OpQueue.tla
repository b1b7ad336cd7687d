------------------------------ MODULE OpQueue ------------------------------
(***************************************************************************)
(* What an EventThread promises to the threads that Post() to it: ops are  *)
(* numbered in the order they are accepted, they run one at a time in that *)
(* order, none is dropped or run twice, and a queue that is closed still   *)
(* runs everything it accepted before it finishes.  The one exception is a *)
(* loop that dies: it runs nothing any more.  How posters wake the         *)
(* loop, what the loop does between ops and how the queue is locked are    *)
(* not visible here; EventThread.tla is shown to implement this module.    *)
(***************************************************************************)
EXTENDS Naturals

CONSTANT MaxPosts   \* bound on the number of accepted ops

VARIABLES
  accepted,         \* number of ops accepted so far
  done,             \* number of the op that ran last
  phase             \* life of the loop that runs the ops

qvars == <<accepted, done, phase>>

Phases == {"unstarted", "open", "closing", "closed", "abandoned",
           "dead"}

QInit ==
  /\ accepted = 0
  /\ done = 0
  /\ phase = "unstarted"

Open ==
  /\ phase = "unstarted"
  /\ phase' = "open"
  /\ UNCHANGED <<accepted, done>>

Accept ==
  /\ phase \in {"unstarted", "open", "dead"}
  /\ accepted < MaxPosts
  /\ accepted' = accepted + 1
  /\ UNCHANGED <<done, phase>>

Run ==
  /\ phase \in {"open", "closing"}
  /\ done < accepted
  /\ done' = done + 1
  /\ UNCHANGED <<accepted, phase>>

(* The loop dies; the queue is not told and goes on accepting ops. *)
Die ==
  /\ phase \in {"open", "closing"}
  /\ phase' = "dead"
  /\ UNCHANGED <<accepted, done>>

(* Closing a queue whose loop never started abandons what it holds. *)
Close ==
  /\ \/ phase = "open" /\ phase' = "closing"
     \/ phase = "unstarted" /\ phase' = "abandoned"
  /\ UNCHANGED <<accepted, done>>

Finish ==
  /\ phase = "closing"
  /\ done = accepted
  /\ phase' = "closed"
  /\ UNCHANGED <<accepted, done>>

QNext == Open \/ Accept \/ Run \/ Close \/ Finish \/ Die

QSafety == QInit /\ [][QNext]_qvars

QSpec == QSafety /\ WF_qvars(Run) /\ WF_qvars(Finish)
=============================================================================
