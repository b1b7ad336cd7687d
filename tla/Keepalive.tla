----------------------------- MODULE Keepalive -----------------------------
(***************************************************************************)
(* Keepalive in time: NextKeepaliveDeadline and CheckKeepalive             *)
(* (src/transport/http2_session.cc), the timer that drives them            *)
(* (RearmKeepalive in src/core/channel_impl.cc) and the turns of the event *)
(* loop, in which the socket is served before ops and ops before timers.   *)
(*                                                                         *)
(* The channel is Ready throughout, until the peer is declared dead.  The  *)
(* peer acknowledges a PING within PeerDelay, unless it has hung; a turn   *)
(* of the loop takes at most LoopDelay.  PINGs are written at once.        *)
(***************************************************************************)
EXTENDS Integers

CONSTANTS
  Options,    \* keepalive options a channel may have
  PeerDelay,  \* a live peer acknowledges a PING within this
  LoopDelay,  \* a turn of the loop takes no longer than this
  MaxClock    \* bound: time

ASSUME OptionsAssumption ==
  Options \subseteq [time : Nat \ {0}, timeout : Nat \ {0}, permit : BOOLEAN]
ASSUME DelaysAssumption == {PeerDelay, LoopDelay, MaxClock} \subseteq Nat

VARIABLES
  options,    \* options_: keepalive_time, _timeout, _permit_without_calls
  clock,
  last_read, ping_sent, ping_outstanding,  \* as in Http2Session
  streams,    \* active_streams_ # 0
  timer,      \* deadline of the keepalive timer, None if there is none
  dead,       \* CheckKeepalive said kDead
  phase,      \* of the loop: "poll", "serve", "ops" or "due"
  woke,       \* when poll() last returned
  arrived,    \* what has arrived and is not read yet: "data", "ack"
  ack_by,     \* when a PING that was sent will be acknowledged at the latest
  silent      \* the peer has hung

session == <<options, last_read, ping_sent, ping_outstanding, streams>>
peer == <<arrived, ack_by, silent>>
vars == <<clock, session, timer, dead, phase, woke, peer>>

None == -1

(* NextKeepaliveDeadline, for a session in this state; also the deadline   *)
(* RearmKeepalive sets the timer for.                                      *)
Deadline(busy, outstanding, sent, read) ==
  IF ~options.permit /\ ~busy THEN None
  ELSE IF outstanding THEN sent + options.timeout ELSE read + options.time

(* StartSession has armed the timer, and then submitted the calls that     *)
(* were waiting for the connection, if there were any.                     *)
Init ==
  /\ options \in Options
  /\ clock = 0 /\ last_read = 0 /\ ping_sent = 0 /\ ping_outstanding = FALSE
  /\ streams \in BOOLEAN /\ timer = Deadline(FALSE, FALSE, 0, 0)
  /\ dead = FALSE /\ phase = "poll" /\ woke = 0
  /\ arrived = {} /\ ack_by = None /\ silent = FALSE

----------------------------------------------------------------------------
(* The loop *)

TimerDue == timer # None /\ timer <= clock

(* poll() returns: for the socket, a timer, or an op that was posted.      *)
(* Only what has arrived by now is reported and read in this turn.         *)
Wake ==
  /\ phase = "poll" /\ ~dead
  /\ phase' = IF arrived = {} THEN "ops" ELSE "serve"
  /\ woke' = clock
  /\ UNCHANGED <<clock, session, timer, dead, peer>>

(* Variant: only DATA counts as a sign of life. *)
ServeCountsDataOnly ==
  /\ phase = "serve" /\ phase' = "ops"
  /\ last_read' = IF "data" \in arrived THEN clock ELSE last_read
  /\ streams' \in IF "data" \in arrived THEN {streams, FALSE} ELSE {streams}
  /\ timer' = Deadline(streams', ping_outstanding, ping_sent, last_read')
  /\ arrived' = {}
  /\ UNCHANGED <<options, clock, ping_sent, ping_outstanding, dead, woke, ack_by,
                 silent>>

(* OnSocketReady: DrainSocket reads everything, which may end the stream,  *)
(* and the timer is set anew.                                              *)
Serve ==
  /\ phase = "serve" /\ phase' = "ops"
  /\ last_read' = clock
  /\ ping_outstanding' = (ping_outstanding /\ "ack" \notin arrived)
  /\ streams' \in IF "data" \in arrived THEN {streams, FALSE} ELSE {streams}
  /\ timer' = Deadline(streams', ping_outstanding', ping_sent, last_read')
  /\ arrived' = {}
  /\ UNCHANGED <<options, clock, ping_sent, dead, woke, ack_by, silent>>

(* Ops run; HandleNewCall may submit a stream.  It does not touch the      *)
(* timer.                                                                  *)
RunOps ==
  /\ phase = "ops" /\ phase' = "due"
  /\ streams' \in {streams, TRUE}
  /\ UNCHANGED <<options, clock, last_read, ping_sent, ping_outstanding, timer,
                 dead, woke, peer>>

(* RunDue finds nothing to do. *)
NoneDue ==
  /\ phase = "due" /\ ~TimerDue
  /\ phase' = "poll"
  /\ UNCHANGED <<clock, session, timer, dead, woke, peer>>

(* The PING that CheckKeepalive still waits for. *)
Unanswered == ping_outstanding /\ last_read < ping_sent

(* Variant: the idle time is not looked at again. *)
PingDueUnchecked ==
  /\ ~Unanswered
  /\ options.permit \/ streams

(* CheckKeepalive sends a PING. *)
PingDue ==
  /\ ~Unanswered
  /\ options.permit \/ streams
  /\ clock - last_read >= options.time

Expired == Unanswered /\ clock - ping_sent >= options.timeout

(* Variant: the timer is not set again after a PING. *)
KeepaliveFiresOnce ==
  /\ phase = "due" /\ TimerDue
  /\ phase' = "poll"
  /\ dead' = Expired
  /\ ping_outstanding' = (Unanswered \/ PingDue)
  /\ ping_sent' = IF PingDue THEN clock ELSE ping_sent
  /\ ack_by' = IF PingDue /\ ~silent THEN clock + PeerDelay ELSE ack_by
  /\ timer' = None
  /\ UNCHANGED <<options, clock, last_read, streams, woke, arrived, silent>>

(* The timer's callback: CheckKeepalive, and unless the peer is dead the   *)
(* PING is flushed and the timer set anew.                                 *)
KeepaliveFires ==
  /\ phase = "due" /\ TimerDue
  /\ phase' = "poll"
  /\ dead' = Expired
  /\ ping_outstanding' = (Unanswered \/ PingDue)
  /\ ping_sent' = IF PingDue THEN clock ELSE ping_sent
  /\ ack_by' = IF PingDue /\ ~silent THEN clock + PeerDelay ELSE ack_by
  /\ timer' = IF Expired THEN None
              ELSE Deadline(streams, ping_outstanding', ping_sent', last_read)
  /\ UNCHANGED <<options, clock, last_read, streams, woke, arrived, silent>>

----------------------------------------------------------------------------
(* The peer and time *)

PeerSends ==
  /\ ~silent /\ ~dead
  /\ arrived' = arrived \cup {"data"}
  /\ UNCHANGED <<clock, session, timer, dead, phase, woke, ack_by, silent>>

PeerAcks ==
  /\ ~silent /\ ack_by # None
  /\ arrived' = arrived \cup {"ack"} /\ ack_by' = None
  /\ UNCHANGED <<clock, session, timer, dead, phase, woke, silent>>

PeerHangs ==
  /\ ~silent /\ silent' = TRUE /\ ack_by' = None
  /\ UNCHANGED <<clock, session, timer, dead, phase, woke, arrived>>

(* Time does not pass over what must happen by now: an acknowledgement, a  *)
(* wakeup of poll(), the end of a turn.                                    *)
Tick ==
  /\ clock < MaxClock /\ ~dead
  /\ ack_by # None => clock < ack_by
  /\ IF phase = "poll" THEN arrived = {} /\ ~TimerDue
                       ELSE clock - woke < LoopDelay
  /\ clock' = clock + 1
  /\ UNCHANGED <<session, timer, dead, phase, woke, peer>>

Ended == (dead \/ clock = MaxClock) /\ UNCHANGED vars

Next ==
  \/ Wake \/ Serve \/ RunOps \/ NoneDue \/ KeepaliveFires
  \/ PeerSends \/ PeerAcks \/ PeerHangs \/ Tick \/ Ended

Spec == Init /\ [][Next]_vars

----------------------------------------------------------------------------

(* A peer that answers PINGs in time is never declared dead, as long as    *)
(* its delay and a turn of the loop together stay below the timeout, even  *)
(* though the loop runs timers before it looks at the socket again.        *)
LivePeerNeverDead ==
  PeerDelay + LoopDelay < options.timeout => (dead => silent)

Longest == IF options.time > options.timeout THEN options.time
                                             ELSE options.timeout

(* A dead peer is found out in bounded time: with permit_without_calls, no *)
(* more than the idle time (or the deadline of an earlier PING, if that is *)
(* longer) and the timeout pass without a read, plus a turn for each.      *)
DeadPeerFound ==
  options.permit /\ ~dead
    => clock <= last_read + Longest + options.timeout + 2 * LoopDelay

(* The client never floods the peer with PINGs (for which servers answer   *)
(* GOAWAY too_many_pings): two of them are keepalive_time apart at least.  *)
PingsSpaced ==
  [][ping_sent' # ping_sent /\ ping_sent # 0
       => ping_sent' - ping_sent >= options.time]_vars
=============================================================================
