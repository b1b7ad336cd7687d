------------------------------ MODULE Channel ------------------------------
(***************************************************************************)
(* One channel (src/core/channel_impl.cc) with what it drives: the HTTP/2  *)
(* session's streams, drain flag, sticky error and keepalive               *)
(* (src/transport/http2_session.cc) and the completion of its calls        *)
(* (src/core/call_state.cc).                                               *)
(*                                                                         *)
(* Caller threads enter through UnaryCall() and Shutdown(); both post to   *)
(* the op queue of the event thread and block.  The queue is the one       *)
(* OpQueue.tla specifies and EventThread.tla implements: FIFO, one op at a *)
(* time, closed by Stop(), drained before the loop exits.  The event       *)
(* thread runs one handler at a time, so each handler is one action: an op *)
(* it takes from the queue, a timer that fires, a socket that is ready.    *)
(*                                                                         *)
(* Everything the event thread owns is the record ch.  A function of the   *)
(* code that changes it is an operator from ch to its next value, or to    *)
(* the set of its next values where nghttp2, the socket or the allocator   *)
(* has a say; a handler composes the operators in the order of its calls.  *)
(*                                                                         *)
(* Payloads, headers and messages are abstracted: a call ends with the     *)
(* status its stream carried ("Server") or with one set locally.  Time is  *)
(* abstracted to which deadline the keepalive timer was armed for.         *)
(***************************************************************************)
EXTENDS Naturals, Sequences

CONSTANTS
  Calls,                 \* unary calls, one caller thread each
  Shutdowners,           \* threads that call Shutdown()
  Permits,               \* values of keepalive_permit_without_calls
  Faults                 \* which calls into nghttp2 may fail ("free": memory
                         \* that was freed may be reused before it is read)

(* The op that runs DoShutdown is not that of a call. *)
DoShutdownOp == "DoShutdown"

ASSUME CallsAssumption == DoShutdownOp \notin Calls
ASSUME PermitsAssumption == Permits \subseteq BOOLEAN
ASSUME FaultsAssumption ==
  Faults \subseteq {"session", "submit", "send", "recv", "ping", "free"}

VARIABLES
  ch,              \* the channel as the event thread owns it
  ops,             \* op queue of the event thread: calls and DoShutdown
  stop_requested,  \* the event thread's stop flag
  loop,            \* "running", "exited", or "failed" if it never started
  caller,          \* where each caller is in UnaryCall()
  shutter,         \* where each thread is in Shutdown()
  shutdown_done,   \* shutdown_done_ (under shutdown_mu_)
  finished,        \* the promise that the posted DoShutdown fulfils
  silent           \* the peer's process hangs: it will never send again

threads == <<caller, shutter, shutdown_done, finished>>
vars == <<ch, ops, stop_requested, loop, threads, silent>>

(* Http2Session::error() after each kind of failure; the strings live in   *)
(* the session.  Every other detail is a string of the socket or a literal.*)
SessionErrors == {"session", "submit", "send", "recv", "ping", "draining"}

NewCall == [st |-> "Created", code |-> "Unknown", msg |-> "none"]

(* ping is ping_outstanding_ with the outcome of last_read_ >= ping_sent_: *)
(* "answered" is a PING still outstanding though something was read since. *)
NoSession ==
  [live |-> FALSE, streams |-> {}, draining |-> FALSE, error |-> "none",
   ping |-> "none", out |-> FALSE]

(* A new session has the preface and SETTINGS to send. *)
NewSession == [NoSession EXCEPT !.live = TRUE, !.out = TRUE]

(* The constructor: if the loop does not start the channel is Failed. *)
Init ==
  /\ loop \in {"running", "failed"}
  /\ \E permit \in Permits :
     ch = [permit |-> permit,  \* options_.keepalive_permit_without_calls
           state |-> IF loop = "running" THEN "Idle" ELSE "Failed",
           detail |-> IF loop = "running" THEN "none" ELSE "start",
           pending |-> {}, active |-> {},
           connect_timer |-> FALSE, keepalive_timer |-> "none",
           watch |-> "none", sock |-> "Idle", h2 |-> NoSession,
           call |-> [c \in Calls |-> NewCall]]
  /\ ops = <<>> /\ stop_requested = FALSE
  /\ caller = [c \in Calls |-> "start"]
  /\ shutter = [t \in Shutdowners |-> "start"]
  /\ shutdown_done = FALSE /\ finished = FALSE
  /\ silent = FALSE

----------------------------------------------------------------------------
(* CallState *)

OnSubmitted(call) ==
  IF call.st = "Created" THEN [call EXCEPT !.st = "HeadersSent"] ELSE call

OnResponseHeaders(call) ==
  IF call.st = "Closed" THEN call ELSE [call EXCEPT !.st = "Open"]

(* Variant: no test for a call that is already closed. *)
OnCloseUnguarded(call) ==
  [st |-> "Closed", code |-> "Server", msg |-> "stream"]

(* OnClose with FinalizeLocked and CloseLocked: the stream decides. *)
OnClose(call) ==
  IF call.st = "Closed" THEN call
  ELSE [st |-> "Closed", code |-> "Server", msg |-> "stream"]

FailLocal(call, code, msg) ==
  IF call.st = "Closed" THEN call
  ELSE [st |-> "Closed", code |-> code, msg |-> msg]

(* FailLocal for every call of S. *)
FailAll(s, S, msg) ==
  [s EXCEPT !.call = [c \in Calls |->
     IF c \in S THEN FailLocal(@[c], "Unavailable", msg) ELSE @[c]]]

----------------------------------------------------------------------------
(* Http2Session *)

(* OnStreamClose for every stream of S: the session forgets the stream,    *)
(* the call is closed, the channel drops its reference.                    *)
CloseStreams(s, S) ==
  LET closed == S \cap s.h2.streams IN
  [s EXCEPT !.h2.streams = @ \ closed,
            !.active = @ \ closed,
            !.call = [c \in Calls |->
                        IF c \in closed THEN OnClose(@[c]) ELSE @[c]]]

(* What a frame of the peer does.  Any frame is a read.  GOAWAY closes the *)
(* streams it refuses; "other" (SETTINGS, PING) has to be answered.        *)
Frames ==
  [kind : {"headers", "close"}, on : {{c} : c \in Calls}]
    \cup [kind : {"goaway"}, on : SUBSET Calls]
    \cup [kind : {"pingack", "other"}, on : {{}}]

ReadBytes(s) ==
  [s EXCEPT !.h2.ping = IF @ = "outstanding" THEN "answered" ELSE @]

Receive(s, f) ==
  LET r == ReadBytes(s) IN
  CASE f.kind = "headers" ->
         [r EXCEPT !.call = [c \in Calls |->
            IF c \in f.on \cap r.h2.streams THEN OnResponseHeaders(@[c])
                                            ELSE @[c]]]
    [] f.kind = "close" -> CloseStreams(r, f.on)
    [] f.kind = "goaway" -> CloseStreams([r EXCEPT !.h2.draining = TRUE], f.on)
    [] f.kind = "pingack" -> [r EXCEPT !.h2.ping = "none"]
    [] OTHER -> [r EXCEPT !.h2.out = TRUE]

(* NextKeepaliveDeadline and CheckKeepalive: no PINGs without streams. *)
Gated(s) == ~s.permit /\ s.h2.streams = {}

(* Variant: an outstanding PING has no deadline of its own. *)
NextKeepaliveDeadlineIdleOnly(s) ==
  IF Gated(s) THEN "none" ELSE "idle"

(* NextKeepaliveDeadline: which deadline, if any. *)
NextKeepaliveDeadline(s) ==
  IF Gated(s) THEN "none"
  ELSE IF s.h2.ping # "none" THEN "ping" ELSE "idle"

(* CheckKeepalive, past the test for a dead peer: a PING that a read has   *)
(* answered is forgotten, and a new one is queued if the connection has    *)
(* been idle for keepalive_time.                                           *)
SendPing(s, idle) ==
  IF ~idle \/ Gated(s) THEN {[s EXCEPT !.h2.ping = "none"]}
  ELSE {[s EXCEPT !.h2.ping = "outstanding", !.h2.out = TRUE]}
         \cup {[s EXCEPT !.h2.ping = "none", !.h2.error = e] : e \in {"ping"} \cap Faults}

----------------------------------------------------------------------------
(* ChannelImpl: what the handlers are made of *)

(* All results of Op on the members of S. *)
Each(S, Op(_)) == UNION {Op(s) : s \in S}

(* What the calls get to read of a detail.  The details taken from         *)
(* h2_->error() are references into the session that h2_.reset() destroys  *)
(* before the calls are failed: the old text or what has overwritten it.   *)
Readings(detail) ==
  IF detail \in SessionErrors /\ "free" \in Faults
  THEN {detail, "overwritten"} ELSE {detail}

(* Variant: the keepalive timer is not cancelled. *)
TearDownKeepsTimer(s, detail) ==
  LET down == [s EXCEPT !.state = "Failed", !.detail = detail,
                        !.connect_timer = FALSE, !.watch = "none",
                        !.sock = IF @ = "Failed" THEN @ ELSE "Closed",
                        !.h2 = NoSession, !.active = {}, !.pending = {}]
  IN IF s.state \in {"Failed", "Shutdown"} THEN {s}
     ELSE {FailAll(down, s.active \cup s.pending, seen) : seen \in Readings(detail)}

(* TearDown(detail), with CancelTimersAndUnwatch. *)
TearDown(s, detail) ==
  LET down == [s EXCEPT !.state = "Failed", !.detail = detail,
                        !.connect_timer = FALSE, !.keepalive_timer = "none",
                        !.watch = "none",
                        !.sock = IF @ = "Failed" THEN @ ELSE "Closed",
                        !.h2 = NoSession, !.active = {}, !.pending = {}]
  IN IF s.state \in {"Failed", "Shutdown"} THEN {s}
     ELSE {FailAll(down, s.active \cup s.pending, seen) : seen \in Readings(detail)}

(* PendingOutput: nghttp2 may finish a stream while it produces output     *)
(* (the peer had ended it first).                                          *)
PendingOutput(s) ==
  IF s.h2.out
  THEN {CloseStreams(s, ends) : ends \in {{}} \cup {{c} : c \in s.h2.streams}}
  ELSE {s}

(* The loop of FlushOutput, from what PendingOutput left: the socket stops *)
(* taking bytes or fails, nghttp2 fails, or everything is written.  An     *)
(* error the session recorded, whenever that was, is acted on then.        *)
WriteOutput(s) ==
  (IF s.h2.out THEN {s} \cup TearDown(s, "io") ELSE {})
    \cup Each({"send"} \cap Faults, LAMBDA e : TearDown(s, e))
    \cup (IF s.h2.error # "none" THEN TearDown(s, s.h2.error)
                                 ELSE {[s EXCEPT !.h2.out = FALSE]})

FlushOutput(s) ==
  IF s.state # "Ready" THEN {s} ELSE Each(PendingOutput(s), WriteOutput)

(* Variant: a refused call is dropped without a verdict. *)
SubmitCallsDropsRefused(s, S, refused) ==
  LET yes == IF s.h2.draining THEN {} ELSE S \ refused IN
  [s EXCEPT !.active = @ \cup yes,
            !.h2.streams = @ \cup yes,
            !.h2.out = @ \/ yes # {},
            !.call = [c \in Calls |->
                        IF c \in yes THEN OnSubmitted(@[c]) ELSE @[c]]]

(* SubmitCall with SubmitUnaryRequest, for the calls of S: a draining      *)
(* session refuses all of them, nghttp2_submit_request those of refused;   *)
(* a refusal is also recorded as the session's error.                      *)
SubmitCalls(s, S, refused) ==
  LET no == IF s.h2.draining THEN S ELSE S \cap refused
      why == IF s.h2.draining THEN "draining" ELSE "submit"
      yes == S \ no
      t == FailAll(s, no, why)
  IN
  [t EXCEPT !.active = @ \cup yes,
            !.h2.streams = @ \cup yes,
            !.h2.out = @ \/ yes # {},
            !.h2.error = IF no = {} THEN @ ELSE why,
            !.call = [c \in Calls |->
                        IF c \in yes THEN OnSubmitted(@[c]) ELSE @[c]]]

(* SubmitCalls with every choice of refusals. *)
Submit(s, S) ==
  {SubmitCalls(s, S, refused) :
     refused \in IF "submit" \in Faults THEN SUBSET S ELSE {{}}}

RearmKeepalive(s) ==
  IF s.state # "Ready" THEN s
  ELSE [s EXCEPT !.keepalive_timer = NextKeepaliveDeadline(s)]

Rearmed(S) == {RearmKeepalive(s) : s \in S}

StartConnecting(s) ==
  LET t == [s EXCEPT !.state = "Connecting", !.connect_timer = TRUE] IN
  {[t EXCEPT !.sock = "Connecting", !.watch = "connect"]}
    \cup TearDown([t EXCEPT !.sock = "Failed"], "connect")

(* The pending calls are submitted after the first flush; if that tore the *)
(* channel down it has failed them all and none is left to submit.         *)
StartSession(s) ==
  LET up == [s EXCEPT !.h2 = NewSession, !.watch = "session",
                      !.state = "Ready"]
      SubmitPending(t) == Submit([t EXCEPT !.pending = {}], t.pending)
  IN Each({"session"} \cap Faults, LAMBDA e : TearDown(s, e))
       \cup Each(Each(Rearmed(FlushOutput(up)), SubmitPending), FlushOutput)

(* DrainSocket: a frame or none is read, then the socket has no more for   *)
(* now, ends, or fails, or the session rejects what it reads next.         *)
DrainSocket(s, f, end) ==
  LET r == IF f.kind = "nothing" THEN s ELSE Receive(s, f) IN
  IF end = "again" THEN {r} ELSE TearDown(r, end)

(* DoShutdown: all waiters are released first; then a GOAWAY and one       *)
(* best-effort flush, in which streams may still end.                      *)
DoShutdown(s, ends) ==
  LET released == FailAll([s EXCEPT !.state = "Shutdown",
                                    !.active = {}, !.pending = {},
                                    !.connect_timer = FALSE,
                                    !.keepalive_timer = "none",
                                    !.watch = "none"],
                          s.active \cup s.pending, "shut down")
      flushed == CloseStreams(released, ends)
  IN
  IF s.state = "Shutdown" THEN s
  ELSE [flushed EXCEPT !.sock = IF @ = "Failed" THEN @ ELSE "Closed",
                       !.h2 = NoSession]

HandleNewCall(s, c) ==
  CASE s.state = "Shutdown" -> {FailAll(s, {c}, "shut down")}
    [] s.state = "Failed" -> {FailAll(s, {c}, s.detail)}
    [] s.state = "Idle" -> StartConnecting([s EXCEPT !.pending = @ \cup {c}])
    [] s.state = "Connecting" -> {[s EXCEPT !.pending = @ \cup {c}]}
    [] s.state = "Ready" -> Each(Submit(s, {c}), FlushOutput)

----------------------------------------------------------------------------
(* The event thread: one handler per action *)

EventThreadRuns == loop = "running" /\ UNCHANGED <<stop_requested, loop, silent>>

(* The next op of the queue. *)
RunNewCall ==
  /\ EventThreadRuns
  /\ ops # <<>> /\ Head(ops) # DoShutdownOp
  /\ ch' \in HandleNewCall(ch, Head(ops))
  /\ ops' = Tail(ops)
  /\ UNCHANGED threads

(* Variant: a channel that has failed is shut down without an answer. *)
RunShutdownEarlyReturn ==
  /\ EventThreadRuns
  /\ ops # <<>> /\ Head(ops) = DoShutdownOp
  /\ \E ends \in SUBSET Calls : ch' = DoShutdown(ch, ends)
  /\ ops' = Tail(ops)
  /\ finished' = (ch.state # "Failed")
  /\ UNCHANGED <<caller, shutter, shutdown_done>>

RunShutdown ==
  /\ EventThreadRuns
  /\ ops # <<>> /\ Head(ops) = DoShutdownOp
  /\ \E ends \in SUBSET Calls : ch' = DoShutdown(ch, ends)
  /\ ops' = Tail(ops)
  /\ finished' = TRUE
  /\ UNCHANGED <<caller, shutter, shutdown_done>>

(* The timer StartConnecting set. *)
ConnectTimeout ==
  /\ EventThreadRuns
  /\ ch.connect_timer
  /\ ch' \in TearDown([ch EXCEPT !.connect_timer = FALSE], "connect timeout")
  /\ UNCHANGED <<ops, threads>>

(* ContinueConnect has an answer; while it wants to read or write more     *)
(* nothing changes.  A hung peer does not finish the handshake.            *)
OnConnectProgress ==
  LET t == [ch EXCEPT !.connect_timer = FALSE] IN
  /\ EventThreadRuns
  /\ ch.watch = "connect"
  /\ \/ ~silent /\ ch' \in StartSession([t EXCEPT !.sock = "Connected"])
     \/ ch' \in TearDown([t EXCEPT !.sock = "Failed"], "connect")
  /\ UNCHANGED <<ops, threads>>

(* poll() reports the socket: with something to read (or an error), or     *)
(* only writable, which it asks for while there is output.                 *)
OnSocketReady(f, end) ==
  /\ EventThreadRuns
  /\ ch.watch = "session"
  /\ \/ ~silent
     \/ f.kind = "nothing" /\ end = "again" /\ ch.h2.out
  /\ ch' \in Rearmed(Each(DrainSocket(ch, f, end), FlushOutput))
  /\ UNCHANGED <<ops, threads>>

(* The keepalive timer.  It was armed for the deadline of the PING, or for *)
(* the end of the idle time; after an answered PING the idle time may or   *)
(* may not be over.                                                        *)
KeepaliveFires ==
  LET t == [ch EXCEPT !.keepalive_timer = "none"]
      dead == ch.h2.ping = "outstanding" /\ ch.keepalive_timer = "ping"
  IN
  /\ EventThreadRuns
  /\ ch.keepalive_timer # "none"
  /\ IF dead THEN ch' \in TearDown(t, "keepalive")
     ELSE \E idle \in {TRUE, ch.keepalive_timer = "idle"} :
            ch' \in Rearmed(Each(SendPing(t, idle), FlushOutput))
  /\ UNCHANGED <<ops, threads>>

LoopExit ==
  /\ loop = "running" /\ stop_requested /\ ops = <<>>
  /\ loop' = "exited"
  /\ UNCHANGED <<ch, ops, stop_requested, threads, silent>>

----------------------------------------------------------------------------
(* Caller threads *)

(* Variant: the op is queued whatever the state of the loop. *)
UnaryCallIgnoresStop(c) ==
  /\ caller[c] = "start"
  /\ caller' = [caller EXCEPT ![c] = "waiting"]
  /\ ops' = Append(ops, c) /\ ch' = ch
  /\ UNCHANGED <<stop_requested, loop, shutter, shutdown_done, finished, silent>>

(* UnaryCall: a request over the send limit never gets a CallState; a call *)
(* the loop does not accept is failed by its own thread.                   *)
UnaryCall(c) ==
  /\ caller[c] = "start"
  /\ \/ /\ ch' = [ch EXCEPT !.call[c] =
                    FailLocal(@, "ResourceExhausted", "too large")]
        /\ caller' = [caller EXCEPT ![c] = "done"]
        /\ ops' = ops
     \/ /\ caller' = [caller EXCEPT ![c] = "waiting"]
        /\ IF loop # "failed" /\ ~stop_requested
           THEN ops' = Append(ops, c) /\ ch' = ch
           ELSE /\ ops' = ops
                /\ ch' = [ch EXCEPT !.call[c] =
                     FailLocal(@, "Unavailable",
                       IF loop = "failed" THEN "start" ELSE "shut down")]
  /\ UNCHANGED <<stop_requested, loop, shutter, shutdown_done, finished, silent>>

(* Wait() returns. *)
UnaryReturn(c) ==
  /\ caller[c] = "waiting" /\ ch.call[c].st = "Closed"
  /\ caller' = [caller EXCEPT ![c] = "done"]
  /\ UNCHANGED <<ch, ops, stop_requested, loop, shutter, shutdown_done,
                 finished, silent>>

(* Shutdown() takes shutdown_mu_ and, the first time, posts DoShutdown.    *)
Shutdown(t) ==
  /\ shutter[t] = "start"
  /\ \A u \in Shutdowners : shutter[u] \in {"start", "done"}
  /\ shutdown_done' = TRUE
  /\ IF shutdown_done \/ loop = "failed"
     THEN ops' = ops /\ shutter' = [shutter EXCEPT ![t] = "done"]
     ELSE /\ ops' = Append(ops, DoShutdownOp)
          /\ shutter' = [shutter EXCEPT ![t] = "waiting"]
  /\ UNCHANGED <<ch, stop_requested, loop, caller, finished, silent>>

(* finished.wait() returns and Stop() closes the queue. *)
ShutdownStop(t) ==
  /\ shutter[t] = "waiting" /\ finished
  /\ stop_requested' = TRUE
  /\ shutter' = [shutter EXCEPT ![t] = "joining"]
  /\ UNCHANGED <<ch, ops, loop, caller, shutdown_done, finished, silent>>

(* Stop() has joined the thread; shutdown_mu_ is released. *)
ShutdownReturn(t) ==
  /\ shutter[t] = "joining" /\ loop = "exited"
  /\ shutter' = [shutter EXCEPT ![t] = "done"]
  /\ UNCHANGED <<ch, ops, stop_requested, loop, caller, shutdown_done,
                 finished, silent>>

(* The environment: the peer's process hangs.  Its kernel keeps the        *)
(* connection up, so nothing arrives and nothing fails.                    *)
PeerHangs ==
  /\ ~silent /\ silent' = TRUE
  /\ UNCHANGED <<ch, ops, stop_requested, loop, threads>>

(* Everyone has returned. *)
Terminated ==
  /\ \A c \in Calls : caller[c] = "done"
  /\ \A t \in Shutdowners : shutter[t] = "done"
  /\ UNCHANGED vars

----------------------------------------------------------------------------

Nothing == [kind |-> "nothing", on |-> {}]

(* How DrainSocket's loop ends. *)
Ends == {"again", "eof", "io"} \cup
          (IF "recv" \in Faults THEN {"recv"} ELSE {})

EventThreadStep ==
  \/ RunNewCall
  \/ RunShutdown
  \/ ConnectTimeout
  \/ OnConnectProgress
  \/ \E f \in Frames \cup {Nothing}, end \in Ends : OnSocketReady(f, end)
  \/ KeepaliveFires
  \/ LoopExit

CallerStep ==
  \/ \E c \in Calls : UnaryCall(c) \/ UnaryReturn(c)
  \/ \E t \in Shutdowners : Shutdown(t) \/ ShutdownStop(t) \/ ShutdownReturn(t)

Next == EventThreadStep \/ CallerStep \/ PeerHangs \/ Terminated

Spec == Init /\ [][Next]_vars

(* A peer that is not hung ends every stream sooner or later. *)
PeerEnds(c) ==
  /\ c \in ch.h2.streams
  /\ OnSocketReady([kind |-> "close", on |-> {c}], "again")

(* The loop runs the ops it was handed and the timers that are due, and    *)
(* threads that can go on do (EventThread.tla: ImplementsOpQueue,          *)
(* EventsServed, StopReturns).  The keepalive timer is put off by every    *)
(* read, so it is only sure to fire once nothing is read any more.  Nobody *)
(* is obliged to call, to shut down or to hang.                            *)
Fairness ==
  /\ WF_vars(RunNewCall) /\ WF_vars(RunShutdown) /\ WF_vars(LoopExit)
  /\ WF_vars(ConnectTimeout)
  /\ WF_vars(silent /\ KeepaliveFires)
  /\ \A c \in Calls : WF_vars(UnaryReturn(c)) /\ WF_vars(PeerEnds(c))
  /\ \A t \in Shutdowners : /\ WF_vars(Shutdown(t) /\ shutdown_done)
                            /\ WF_vars(ShutdownStop(t))
                            /\ WF_vars(ShutdownReturn(t))

FairSpec == Spec /\ Fairness

----------------------------------------------------------------------------
(* Safety *)

Queued(c) == \E i \in DOMAIN ops : ops[i] = c

Unanswered(c) == caller[c] = "waiting" /\ ch.call[c].st # "Closed"

(* A blocked caller is never forgotten and never answered twice: a call    *)
(* without a verdict is held in exactly one place, its op, pending_calls_  *)
(* or active_calls_, and nothing holds a call that has its verdict.        *)
(* active_calls_ and the session's streams are the same calls.             *)
OneOwner ==
  /\ \A c \in Calls :
       /\ Unanswered(c) <=> Queued(c) \/ c \in ch.pending \cup ch.active
       /\ ~(Queued(c) /\ c \in ch.pending \cup ch.active)
  /\ ch.pending \cap ch.active = {}
  /\ ch.active = ch.h2.streams

(* state_ tells which timers, watch, socket and session exist: whichever   *)
(* way the channel ends (timeout, error, keepalive, shutdown), no timer or *)
(* callback is left that could run against a transport that is gone.       *)
ResourcesMatchState ==
  /\ ch.connect_timer <=> ch.state = "Connecting"
  /\ ch.watch = CASE ch.state = "Connecting" -> "connect"
                  [] ch.state = "Ready" -> "session"
                  [] OTHER -> "none"
  /\ ch.h2.live <=> ch.state = "Ready"
  /\ ch.keepalive_timer # "none" => ch.state = "Ready"
  /\ ch.state = "Ready" => ch.sock = "Connected"
  /\ ch.pending # {} => ch.state = "Connecting"

(* Once Shutdown() has returned to anyone, nobody is blocked in a call any *)
(* more, and no later call will block: calls whose Post raced with Stop    *)
(* were either run by the draining loop or refused.                        *)
ShutdownUnblocksAll ==
  (\E t \in Shutdowners : shutter[t] = "done")
    => \A c \in Calls : ~Unanswered(c)

(* The step that shuts the channel down gives every call it still holds    *)
(* the verdict UNAVAILABLE "channel is shut down", even one whose stream   *)
(* ends in the flush that follows.                                         *)
ShutdownVerdict ==
  [][ch.state # "Shutdown" /\ ch'.state = "Shutdown"
       => \A c \in ch.active \cup ch.pending :
            ch'.call[c] = [st |-> "Closed", code |-> "Unavailable",
                           msg |-> "shut down"]]_vars

(* Liveness *)

(* Every call returns, as long as a peer that is alive ends its streams;   *)
(* if the peer hangs, the connect timer or keepalive sees to it, the       *)
(* latter if it is permitted without calls.                                *)
CallsReturn ==
  \A c \in Calls :
    caller[c] = "waiting" ~> caller[c] = "done" \/ (silent /\ ~ch.permit)

(* Shutdown() returns, also when several threads call it, when the channel *)
(* has already failed, and when the peer hangs.                            *)
ShutdownReturns ==
  \A t \in Shutdowners : shutter[t] = "waiting" ~> shutter[t] = "done"

----------------------------------------------------------------------------
(* What comments in the code say of it *)

(* channel_impl.cc:139-141: on a draining session "in-flight calls run to  *)
(* completion, new submits fail".  So a refused submit fails no call that  *)
(* is in flight.                                                           *)
RefusalSparesInFlight ==
  [][\A c \in ch.active :
       ch'.call[c].st = "Closed" => ch'.detail # "draining"]_vars

(* channel_impl.h:97-98: TearDown "fails every pending and in-flight call  *)
(* with kUnavailable(detail)".                                             *)
CallsGetDetail ==
  [][ch.state # "Failed" /\ ch'.state = "Failed"
       => \A c \in ch.active \cup ch.pending :
            ch'.call[c].code = "Unavailable"
              => ch'.call[c].msg = ch'.detail]_vars

(* http2_session.h:13-15: "after keepalive_time with no reads, submit a    *)
(* PING; if no PING ack — or any read — within keepalive_timeout, declare  *)
(* the connection dead".  So no call in flight waits for ever on a peer    *)
(* that hangs, whatever permit_without_calls says: there is a call.        *)
KeepaliveCoversCalls ==
  \A c \in Calls : silent /\ c \in ch.active ~> c \notin ch.active

=============================================================================
