---------------------------- MODULE EventThread ----------------------------
(***************************************************************************)
(* The per-channel event thread (src/core/event_thread.cc) together with   *)
(* the eventfd it sleeps on (src/transport/wakeup.cc).                     *)
(*                                                                         *)
(* Any thread may Post() an op or Stop() the loop.  Both publish under mu_ *)
(* and write the eventfd after unlocking, so the two halves are separate   *)
(* steps here.  The loop runs ops, then due timers, then sleeps in poll()  *)
(* over the eventfd and one watched socket, then drains the eventfd and    *)
(* calls the socket's on_ready.  Each critical section, each system call   *)
(* and each callback of the loop is one action.                            *)
(*                                                                         *)
(* What a callback does is left open: it may arm, re-arm or cancel timers  *)
(* and watch or unwatch the socket.  Which timer is due when is decided by *)
(* the environment (Expire); the order among timers is the heap's affair.  *)
(***************************************************************************)
EXTENDS Integers, Sequences

CONSTANTS
  Posters,      \* threads that call Post()
  Stoppers,     \* threads that call Stop()
  Timers,       \* timers the callbacks of the loop may arm
  MaxPosts,     \* bound on the number of accepted ops
  EventFdMax,   \* largest value the eventfd counter holds
  PollCanFail   \* whether poll() may fail with an error other than EINTR

ASSUME MaxPostsAssumption == MaxPosts \in Nat
ASSUME EventFdMaxAssumption == EventFdMax \in Nat \ {0}
ASSUME PollCanFailAssumption == PollCanFail \in BOOLEAN

VARIABLES
  ops,             \* ops_: tickets of the queued ops            (under mu_)
  stop_requested,  \* stop_requested_                            (under mu_)
  started,         \* started_                                   (under mu_)
  joined,          \* joined_                                    (under mu_)
  eventfd,         \* the eventfd counter, NoFd if it was not created
  loop,            \* where the event thread is in Loop()
  batch,           \* RunPendingOps: the ops swapped out, not yet run
  stopping,        \* RunPendingOps: stop_requested_ as read with the swap
  revents,         \* what the last poll() reported
  timers,          \* armed timers
  due,             \* armed timers whose deadline has passed
  watched,         \* watched_fd_ >= 0
  sock_ready,      \* the watched socket has an event poll() would report
  poster,          \* where each poster is in Post()
  stopper,         \* where each stopper is in Stop()
  must_join,       \* Stop: the local must_join of each stopper
  posted,          \* history: number of ops accepted, the last ticket given
  last_ran         \* history: ticket of the op that ran last

muVars == <<ops, stop_requested, started, joined>>
loopVars == <<batch, stopping, revents>>
cbVars == <<timers, due, watched, sock_ready>>
threadVars == <<poster, stopper, must_join>>
history == <<posted, last_ran>>
vars == <<muVars, eventfd, loop, loopVars, cbVars, threadVars, history>>

NoFd == -1

LoopStates == {"none", "ops", "run", "timers", "poll", "drain", "ready",
               "exited", "dead"}

(* The eventfd may fail to be created; Start() then refuses. *)
Init ==
  /\ ops = <<>> /\ stop_requested = FALSE /\ started = FALSE /\ joined = FALSE
  /\ eventfd \in {NoFd, 0}
  /\ loop = "none"
  /\ batch = <<>> /\ stopping = FALSE
  /\ revents = [wake |-> FALSE, sock |-> FALSE]
  /\ timers = {} /\ due = {} /\ watched = FALSE /\ sock_ready = FALSE
  /\ poster = [p \in Posters |-> "idle"]
  /\ stopper = [s \in Stoppers |-> "idle"]
  /\ must_join = [s \in Stoppers |-> FALSE]
  /\ posted = 0 /\ last_ran = 0

----------------------------------------------------------------------------
(* Wakeup *)

(* write(fd, 1): a saturated counter (EAGAIN) already wakes the poller. *)
Notify ==
  eventfd' = IF eventfd \in 0..(EventFdMax - 1) THEN eventfd + 1 ELSE eventfd

(* read(fd): resets the counter. *)
Drain ==
  eventfd' = IF eventfd = NoFd THEN NoFd ELSE 0

----------------------------------------------------------------------------
(* Threads outside the loop *)

(* Start(): mu_ is held across pthread_create, so the whole call is one    *)
(* step.  A refused or failed Start changes nothing.                       *)
Start ==
  /\ ~started /\ ~stop_requested
  /\ eventfd # NoFd
  /\ started' = TRUE
  /\ loop' = "ops"
  /\ UNCHANGED <<ops, stop_requested, joined, eventfd, loopVars, cbVars,
                 threadVars, history>>

(* Post(), critical section.  A Post() refused after Stop() changes        *)
(* nothing.                                                                *)
Post(p) ==
  /\ poster[p] = "idle"
  /\ posted < MaxPosts
  /\ ~stop_requested
  /\ posted' = posted + 1
  /\ ops' = Append(ops, posted + 1)
  /\ poster' = [poster EXCEPT ![p] = "notify"]
  /\ UNCHANGED <<stop_requested, started, joined, eventfd, loop, loopVars,
                 cbVars, stopper, must_join, last_ran>>

(* Variant: the write is skipped unless the loop is seen asleep. *)
PostNotifyIfAsleep(p) ==
  /\ poster[p] = "notify"
  /\ IF loop = "poll" THEN Notify ELSE UNCHANGED eventfd
  /\ poster' = [poster EXCEPT ![p] = "idle"]
  /\ UNCHANGED <<muVars, loop, loopVars, cbVars, stopper, must_join, history>>

(* Post(), after the unlock. *)
PostNotify(p) ==
  /\ poster[p] = "notify"
  /\ Notify
  /\ poster' = [poster EXCEPT ![p] = "idle"]
  /\ UNCHANGED <<muVars, loop, loopVars, cbVars, stopper, must_join, history>>

(* Variant: joined_ is not consulted. *)
StopAlwaysJoins(s) ==
  /\ stopper[s] = "idle"
  /\ stop_requested' = TRUE
  /\ must_join' = [must_join EXCEPT ![s] = started]
  /\ joined' = (joined \/ started)
  /\ stopper' = [stopper EXCEPT ![s] = "notify"]
  /\ UNCHANGED <<ops, started, eventfd, loop, loopVars, cbVars, poster,
                 history>>

(* Stop(), critical section: the first stopper of a started loop joins. *)
Stop(s) ==
  /\ stopper[s] = "idle"
  /\ stop_requested' = TRUE
  /\ must_join' = [must_join EXCEPT ![s] = started /\ ~joined]
  /\ joined' = (joined \/ started)
  /\ stopper' = [stopper EXCEPT ![s] = "notify"]
  /\ UNCHANGED <<ops, started, eventfd, loop, loopVars, cbVars, poster,
                 history>>

(* Variant: Stop() forgets to wake the loop. *)
StopWithoutNotify(s) ==
  /\ stopper[s] = "notify"
  /\ stopper' = [stopper EXCEPT ![s] = IF must_join[s] THEN "join" ELSE "done"]
  /\ UNCHANGED <<muVars, eventfd, loop, loopVars, cbVars, poster, must_join,
                 history>>

(* Stop(), after the unlock. *)
StopNotify(s) ==
  /\ stopper[s] = "notify"
  /\ Notify
  /\ stopper' = [stopper EXCEPT ![s] = IF must_join[s] THEN "join" ELSE "done"]
  /\ UNCHANGED <<muVars, loop, loopVars, cbVars, poster, must_join, history>>

(* pthread_join returns once the thread has left Loop(). *)
Join(s) ==
  /\ stopper[s] = "join"
  /\ loop \in {"exited", "dead"}
  /\ stopper' = [stopper EXCEPT ![s] = "done"]
  /\ UNCHANGED <<muVars, eventfd, loop, loopVars, cbVars, poster, must_join,
                 history>>

----------------------------------------------------------------------------
(* The loop *)

(* What an op, a timer callback or on_ready may do to the loop's timers    *)
(* and watch.  A timer it re-arms is no longer due, a socket it services   *)
(* or unwatches is no longer ready.                                        *)
CallbackEffect ==
  /\ timers' \in SUBSET Timers
  /\ due' \in SUBSET (due \cap timers')
  /\ watched' \in BOOLEAN
  /\ sock_ready' \in {FALSE, sock_ready /\ watched'}

(* RunPendingOps(), critical section: the queue is taken and the stop flag *)
(* is read under the same lock.                                            *)
SwapOps ==
  /\ loop = "ops"
  /\ batch' = ops
  /\ ops' = <<>>
  /\ stopping' = stop_requested
  /\ loop' = "run"
  /\ UNCHANGED <<stop_requested, started, joined, eventfd, revents, cbVars,
                 threadVars, history>>

(* RunPendingOps(): one op of the batch. *)
RunOp ==
  /\ loop = "run"
  /\ batch # <<>>
  /\ last_ran' = Head(batch)
  /\ batch' = Tail(batch)
  /\ CallbackEffect
  /\ UNCHANGED <<muVars, eventfd, loop, stopping, revents, threadVars, posted>>

(* Variant: the stop flag is read after the ops ran, not with the swap. *)
OpsDoneRereadsFlag ==
  /\ loop = "run"
  /\ batch = <<>>
  /\ loop' = IF stop_requested THEN "exited" ELSE "timers"
  /\ UNCHANGED <<muVars, eventfd, loopVars, cbVars, threadVars, history>>

(* RunPendingOps() returns; Loop() leaves if a stop was seen. *)
OpsDone ==
  /\ loop = "run"
  /\ batch = <<>>
  /\ loop' = IF stopping THEN "exited" ELSE "timers"
  /\ UNCHANGED <<muVars, eventfd, loopVars, cbVars, threadVars, history>>

(* RunDue(now): every timer that is due has run (and is disarmed, unless   *)
(* its callback armed it again) or was cancelled by another callback.      *)
RunDue ==
  /\ loop = "timers"
  /\ IF due = {} THEN UNCHANGED cbVars
                 ELSE CallbackEffect /\ due' = {}
  /\ loop' = "poll"
  /\ UNCHANGED <<muVars, eventfd, loopVars, threadVars, history>>

(* Variant: poll() without a timeout. *)
PollReadyNoTimeout ==
  eventfd > 0 \/ (watched /\ sock_ready)

(* A descriptor has an event, or the timeout computed by PollTimeoutMs has *)
(* run out.                                                                *)
PollReady ==
  \/ eventfd > 0
  \/ watched /\ sock_ready
  \/ due # {}

PollReturns ==
  /\ loop = "poll"
  /\ PollReady
  /\ revents' = [wake |-> eventfd > 0, sock |-> watched /\ sock_ready]
  /\ loop' = "drain"
  /\ UNCHANGED <<muVars, eventfd, batch, stopping, cbVars, threadVars, history>>

(* EINTR: only a poll() that has nothing to report is interrupted. *)
PollInterrupted ==
  /\ loop = "poll"
  /\ ~PollReady
  /\ loop' = "ops"
  /\ UNCHANGED <<muVars, eventfd, loopVars, cbVars, threadVars, history>>

(* Any other error of poll() ends the loop. *)
PollFails ==
  /\ PollCanFail
  /\ loop = "poll"
  /\ loop' = "dead"
  /\ UNCHANGED <<muVars, eventfd, loopVars, cbVars, threadVars, history>>

DrainWakeup ==
  /\ loop = "drain"
  /\ IF revents.wake THEN Drain ELSE UNCHANGED eventfd
  /\ loop' = "ready"
  /\ UNCHANGED <<muVars, loopVars, cbVars, threadVars, history>>

(* on_ready(revents), if the socket had an event; back to the loop's top. *)
OnReady ==
  /\ loop = "ready"
  /\ IF revents.sock /\ watched THEN CallbackEffect /\ ~sock_ready'
                                ELSE UNCHANGED cbVars
  /\ loop' = "ops"
  /\ UNCHANGED <<muVars, eventfd, loopVars, threadVars, history>>

----------------------------------------------------------------------------
(* The environment: time passes, the peer sends *)

Expire(t) ==
  /\ t \in timers \ due
  /\ due' = due \cup {t}
  /\ UNCHANGED <<muVars, eventfd, loop, loopVars, timers, watched, sock_ready,
                 threadVars, history>>

SocketEvent ==
  /\ watched /\ ~sock_ready
  /\ sock_ready' = TRUE
  /\ UNCHANGED <<muVars, eventfd, loop, loopVars, timers, due, watched,
                 threadVars, history>>

(* Everybody has left: the only states in which nothing more may happen. *)
Terminated ==
  /\ \/ loop \in {"exited", "dead"}
     \/ loop = "none" /\ stop_requested
  /\ \A p \in Posters : poster[p] = "idle"
  /\ \A s \in Stoppers : stopper[s] = "done"
  /\ UNCHANGED vars

LoopStep ==
  \/ SwapOps \/ RunOp \/ OpsDone \/ RunDue
  \/ PollReturns \/ DrainWakeup \/ OnReady

Next ==
  \/ Start
  \/ \E p \in Posters : Post(p) \/ PostNotify(p)
  \/ \E s \in Stoppers : Stop(s) \/ StopNotify(s) \/ Join(s)
  \/ LoopStep \/ PollInterrupted \/ PollFails
  \/ \E t \in Timers : Expire(t)
  \/ SocketEvent
  \/ Terminated

Spec == Init /\ [][Next]_vars

(* A thread inside Post(), Stop() or Loop() keeps running, and time        *)
(* passes.  Nobody is obliged to call Start, Post or Stop, and no signal   *)
(* ever has to interrupt poll().                                           *)
Fairness ==
  /\ WF_vars(LoopStep)
  /\ \A p \in Posters : WF_vars(PostNotify(p))
  /\ \A s \in Stoppers : WF_vars(StopNotify(s)) /\ WF_vars(Join(s))
  /\ \A t \in Timers : WF_vars(Expire(t))

FairSpec == Spec /\ Fairness

----------------------------------------------------------------------------
(* Properties *)

(* Every variable keeps its type. *)
TypeOK ==
  /\ ops \in Seq(Nat) /\ batch \in Seq(Nat)
  /\ stop_requested \in BOOLEAN /\ started \in BOOLEAN /\ joined \in BOOLEAN
  /\ eventfd \in {NoFd} \cup 0..EventFdMax
  /\ loop \in LoopStates
  /\ stopping \in BOOLEAN
  /\ revents \in [wake : BOOLEAN, sock : BOOLEAN]
  /\ timers \in SUBSET Timers /\ due \in SUBSET timers
  /\ watched \in BOOLEAN /\ sock_ready \in BOOLEAN
  /\ poster \in [Posters -> {"idle", "notify"}]
  /\ stopper \in [Stoppers -> {"idle", "notify", "join", "done"}]
  /\ must_join \in [Stoppers -> BOOLEAN]
  /\ posted \in Nat /\ last_ran \in Nat

Notifying ==
  \/ \E p \in Posters : poster[p] = "notify"
  \/ \E s \in Stoppers : stopper[s] = "notify"

(* No lost wakeup: while the loop is asleep in poll() with an op queued or *)
(* a stop requested, the eventfd is readable or a thread that published is *)
(* still on its way to Notify() (Post/Stop write the eventfd after mu_ is  *)
(* released, the loop drains it before it swaps the queue).                *)
NoLostWakeup ==
  loop = "poll" /\ (ops # <<>> \/ stop_requested) => eventfd > 0 \/ Notifying

(* Stop() drains: when Loop() returns because of a stop, every op that     *)
(* Post() ever accepted has run, and none is left behind in the queue.     *)
DrainedOnExit ==
  loop = "exited" => ops = <<>> /\ last_ran = posted

(* At most one Stop() joins the thread, however many race: a second        *)
(* pthread_join of the same thread is undefined.                           *)
SingleJoin ==
  \A r, s \in Stoppers :
    stopper[r] = "join" /\ stopper[s] = "join" => r = s

(* A call of Stop() returns, also when the loop has died. *)
StopReturns ==
  \A s \in Stoppers : (stopper[s] = "notify") ~> (stopper[s] = "done")

(* A timer that is due is run (or cancelled), and a readable socket served *)
(* (or unwatched), unless the loop has stopped, whatever else keeps the    *)
(* loop busy and whether or not any op arrives.                            *)
EventsServed ==
  /\ \A t \in Timers :
       (t \in due) ~> (t \notin due \/ loop \in {"exited", "dead"})
  /\ (watched /\ sock_ready)
       ~> (~(watched /\ sock_ready) \/ loop \in {"exited", "dead"})

(* The event thread implements the abstract op queue. *)
Phase ==
  IF loop = "none"
  THEN IF stop_requested THEN "abandoned" ELSE "unstarted"
  ELSE IF loop = "exited" THEN "closed"
  ELSE IF loop = "dead" THEN "dead"
  ELSE IF stop_requested THEN "closing" ELSE "open"

Abstract == INSTANCE OpQueue
              WITH accepted <- posted, done <- last_ran, phase <- Phase

(* Safety and liveness of the abstract queue: ops are accepted until       *)
(* Close, run in order, and all run before Finish unless the loop dies.    *)
ImplementsOpQueue == Abstract!QSpec
=============================================================================
