-------------------------- MODULE KeepaliveProofs --------------------------
(***************************************************************************)
(* Proofs about Keepalive, for any options, delays of the peer and of the  *)
(* loop, and for a run of any length.                                      *)
(***************************************************************************)
EXTENDS Keepalive, TLAPS

Phases == {"poll", "serve", "ops", "due"}

TypeInv ==
  /\ options \in Options
  /\ clock \in Nat /\ last_read \in Nat /\ ping_sent \in Nat /\ woke \in Nat
  /\ ping_outstanding \in BOOLEAN /\ streams \in BOOLEAN /\ dead \in BOOLEAN
  /\ silent \in BOOLEAN /\ timer \in Int /\ ack_by \in Nat \cup {None}
  /\ phase \in Phases /\ arrived \in SUBSET {"data", "ack"}

(* What was read or sent, and when the loop woke, is past; a turn takes at *)
(* most LoopDelay; what was read in answer to a PING was read after it.    *)
PastInv ==
  /\ last_read <= clock /\ ping_sent <= clock /\ woke <= clock
  /\ phase # "poll" => clock <= woke + LoopDelay
  /\ phase = "serve" => arrived # {}
  /\ dead => phase = "poll"
  /\ ~ping_outstanding => ping_sent <= last_read

(* A live peer's acknowledgement is under way until PeerDelay after the    *)
(* PING, or has arrived.  If it came too late for this turn of the loop,   *)
(* the turn had begun by then.                                             *)
AckInv ==
  Unanswered /\ ~silent =>
    \/ ack_by = ping_sent + PeerDelay /\ clock <= ack_by
    \/ "ack" \in arrived /\ (phase \in {"ops", "due"} => woke <= ping_sent + PeerDelay)

(* With permit_without_calls the timer is always set, for the deadline of  *)
(* the session's state, and the loop is never more than a turn late.       *)
TimerInv ==
  options.permit /\ ~dead =>
    /\ timer = IF ping_outstanding THEN ping_sent + options.timeout
                                   ELSE last_read + options.time
    /\ IF phase = "poll" THEN clock <= timer ELSE woke <= timer
    /\ ping_outstanding => ping_sent <= last_read + Longest + LoopDelay

KInv == TypeInv /\ PastInv /\ AckInv /\ TimerInv /\ LivePeerNeverDead

USE OptionsAssumption, DelaysAssumption

(* The constants and the options are numbers. *)
LEMMA Numbers ==
  ASSUME TypeInv
  PROVE  /\ options.time \in Nat \ {0} /\ options.timeout \in Nat \ {0}
         /\ options.permit \in BOOLEAN
         /\ PeerDelay \in Nat /\ LoopDelay \in Nat /\ MaxClock \in Nat
         /\ Longest \in Nat /\ options.time <= Longest /\ options.timeout <= Longest
BY DEF TypeInv, Longest

(* The deadline is a time, or there is none. *)
LEMMA DeadlineType ==
  ASSUME TypeInv, NEW busy \in BOOLEAN, NEW outstanding \in BOOLEAN,
         NEW sent \in Nat, NEW read \in Nat
  PROVE  /\ Deadline(busy, outstanding, sent, read) \in Int
         /\ options.permit /\ outstanding
              => Deadline(busy, outstanding, sent, read) = sent + options.timeout
         /\ options.permit /\ ~outstanding
              => Deadline(busy, outstanding, sent, read) = read + options.time
BY Numbers DEF Deadline, None

(* A new session. *)
LEMMA InitInv == Init => KInv
<1> SUFFICES ASSUME Init PROVE KInv
  OBVIOUS
<1>1. /\ options \in Options /\ clock = 0 /\ last_read = 0 /\ ping_sent = 0
      /\ ping_outstanding = FALSE /\ streams \in BOOLEAN
      /\ dead = FALSE /\ phase = "poll" /\ woke = 0
      /\ arrived = {} /\ ack_by = None /\ silent = FALSE
  BY DEF Init
<1>2. /\ options.time \in Nat \ {0} /\ options.timeout \in Nat \ {0}
      /\ options.permit \in BOOLEAN
  BY <1>1
<1>3. timer \in Int /\ (options.permit => timer = options.time)
  BY <1>1, <1>2 DEF Init, Deadline, None
<1>4. TypeInv
  BY <1>1, <1>3, Zenon DEF TypeInv, Phases
<1>5. PastInv /\ AckInv /\ LivePeerNeverDead
  BY <1>1 DEF PastInv, AckInv, Unanswered, LivePeerNeverDead
<1>6. TimerInv
  BY <1>1, <1>2, <1>3 DEF TimerInv
<1> QED
  BY <1>4, <1>5, <1>6 DEF KInv

LEMMA WakeInv ==
  ASSUME KInv, Wake
  PROVE  KInv'
<1>1. TypeInv /\ LoopDelay \in Nat
  BY Numbers DEF KInv
<1>2. TypeInv'
  BY DEF KInv, TypeInv, Phases, Wake, session, peer
<1>3. PastInv'
  BY <1>1 DEF KInv, TypeInv, PastInv, Wake, session, peer
<1>4. AckInv'
  BY <1>1 DEF KInv, AckInv, Unanswered, Wake, session, peer
<1>5. TimerInv' /\ LivePeerNeverDead'
  BY DEF KInv, TimerInv, LivePeerNeverDead, Longest, Wake, session, peer
<1> QED
  BY <1>2, <1>3, <1>4, <1>5 DEF KInv

(* Everything that has arrived is read, so no PING is unanswered. *)
LEMMA ServeInv ==
  ASSUME KInv, Serve
  PROVE  KInv'
<1>1. /\ TypeInv /\ LoopDelay \in Nat /\ PeerDelay \in Nat
      /\ options.time \in Nat \ {0} /\ options.timeout \in Nat \ {0} /\ Longest \in Nat
  BY Numbers DEF KInv
<1>2. /\ phase = "serve" /\ phase' = "ops" /\ last_read' = clock /\ arrived' = {}
      /\ ping_outstanding' \in BOOLEAN /\ (ping_outstanding' => ping_outstanding)
      /\ UNCHANGED <<options, clock, ping_sent, dead, woke, ack_by, silent>>
      /\ timer' = Deadline(streams', ping_outstanding', ping_sent, last_read')
  BY Zenon DEF Serve
<1>3. streams' \in BOOLEAN
  BY Zenon DEF Serve, KInv, TypeInv
<1>4. /\ timer' \in Int
      /\ options.permit => timer' = IF ping_outstanding' THEN ping_sent + options.timeout
                                                         ELSE clock + options.time
  <2>1. clock \in Nat /\ ping_sent \in Nat
    BY <1>1 DEF TypeInv
  <2> QED
    BY <1>1, <1>2, <1>3, <2>1, DeadlineType
<1>5. TypeInv'
  BY <1>1, <1>2, <1>3, <1>4 DEF TypeInv, Phases
<1>6. PastInv'
  BY <1>1, <1>2 DEF KInv, TypeInv, PastInv
<1>7. AckInv' /\ LivePeerNeverDead'
  BY <1>1, <1>2 DEF KInv, TypeInv, PastInv, AckInv, Unanswered, LivePeerNeverDead
<1>8. TimerInv'
  BY <1>1, <1>2, <1>4 DEF KInv, TypeInv, PastInv, TimerInv, Longest
<1> QED
  BY <1>5, <1>6, <1>7, <1>8 DEF KInv

LEMMA RunOpsInv ==
  ASSUME KInv, RunOps
  PROVE  KInv'
<1>1. TypeInv'
  BY Zenon DEF KInv, TypeInv, Phases, RunOps, peer
<1>2. PastInv' /\ AckInv'
  BY DEF KInv, PastInv, AckInv, Unanswered, RunOps, peer
<1>3. TimerInv' /\ LivePeerNeverDead'
  BY DEF KInv, TimerInv, LivePeerNeverDead, Longest, RunOps, peer
<1> QED
  BY <1>1, <1>2, <1>3 DEF KInv

LEMMA NoneDueInv ==
  ASSUME KInv, NoneDue
  PROVE  KInv'
<1>1. TypeInv'
  BY DEF KInv, TypeInv, Phases, NoneDue, session, peer
<1>2. PastInv' /\ AckInv'
  BY DEF KInv, PastInv, AckInv, Unanswered, NoneDue, session, peer
<1>3. TimerInv'
  <2>1. options.permit /\ ~dead => clock <= timer
    <3>1. options.permit /\ ~dead => timer \in Nat
      BY Numbers DEF KInv, TypeInv, TimerInv
    <3> QED
      BY <3>1 DEF NoneDue, TimerDue, None, KInv, TypeInv
  <2> QED
    BY <2>1 DEF KInv, TimerInv, Longest, NoneDue, session, peer
<1>4. LivePeerNeverDead'
  BY DEF KInv, LivePeerNeverDead, NoneDue, session, peer
<1> QED
  BY <1>1, <1>2, <1>3, <1>4 DEF KInv

(* CheckKeepalive.  The peer is dead only if the acknowledgement that was  *)
(* due PeerDelay after the PING did not come by the turn before.           *)
LEMMA KeepaliveFiresInv ==
  ASSUME KInv, KeepaliveFires
  PROVE  KInv' /\ (ping_sent' # ping_sent => ping_sent' - ping_sent >= options.time)
<1>1. /\ TypeInv /\ LoopDelay \in Nat /\ PeerDelay \in Nat /\ options.permit \in BOOLEAN
      /\ options.time \in Nat \ {0} /\ options.timeout \in Nat \ {0} /\ Longest \in Nat
      /\ options.time <= Longest /\ options.timeout <= Longest
  BY Numbers DEF KInv
<1>2. /\ clock \in Nat /\ last_read \in Nat /\ ping_sent \in Nat /\ woke \in Nat
      /\ ping_outstanding \in BOOLEAN /\ streams \in BOOLEAN /\ silent \in BOOLEAN
      /\ last_read <= clock /\ ping_sent <= clock /\ woke <= clock
      /\ clock <= woke + LoopDelay
      /\ (~ping_outstanding => ping_sent <= last_read) /\ ~dead
  BY DEF KInv, TypeInv, PastInv, KeepaliveFires
<1>3. /\ phase = "due" /\ phase' = "poll"
      /\ UNCHANGED <<options, clock, last_read, streams, woke, arrived, silent>>
      /\ ping_outstanding' \in BOOLEAN /\ dead' \in BOOLEAN
  BY DEF KeepaliveFires, Expired, Unanswered, PingDue
<1>4. ~Expired => timer' = Deadline(streams, ping_outstanding', ping_sent', last_read)
  BY DEF KeepaliveFires
<1>5. Expired => timer' = None
  BY DEF KeepaliveFires
(* The three outcomes: a PING is sent, one is waited for, there is none. *)
<1>6. CASE PingDue
  <2>1. last_read >= ping_sent /\ clock - last_read >= options.time
    BY <1>2, <1>6 DEF PingDue, Unanswered
  <2>2. ~Unanswered /\ ~Expired
    BY <1>6 DEF PingDue, Expired
  <2>3. /\ ~dead' /\ ping_outstanding' /\ ping_sent' = clock
        /\ ack_by' = IF ~silent THEN clock + PeerDelay ELSE ack_by
    BY <1>6, <2>2, Zenon DEF KeepaliveFires
  <2>4. timer' \in Int /\ (options.permit => timer' = clock + options.timeout)
    <3> DEFINE d == Deadline(streams, ping_outstanding', ping_sent', last_read)
    <3>1. ping_outstanding' \in BOOLEAN /\ ping_sent' \in Nat /\ timer' = d
      BY <1>2, <1>3, <1>4, <2>2, <2>3
    <3>2. /\ d \in Int
          /\ options.permit /\ ping_outstanding' => d = ping_sent' + options.timeout
      BY <1>1, <1>2, <3>1, DeadlineType, Zenon
    <3> QED
      BY <2>3, <3>1, <3>2, Zenon
  <2>5. TypeInv'
    BY <1>1, <1>2, <1>3, <2>3, <2>4 DEF TypeInv, Phases, None
  <2>6. PastInv'
    BY <1>1, <1>2, <1>3, <2>3 DEF PastInv
  <2>7. AckInv'
    BY <1>1, <1>2, <1>3, <2>3 DEF AckInv
  <2>8. LivePeerNeverDead'
    BY <2>3 DEF LivePeerNeverDead
  <2>9. TimerInv'
    <3>1. options.permit => clock <= last_read + Longest + LoopDelay
      BY <1>1, <1>2, <1>3, <2>1 DEF KInv, TimerInv
    <3> QED
      BY <1>1, <1>2, <1>3, <2>3, <2>4, <3>1 DEF TimerInv, Longest
  <2> QED
    BY <1>1, <1>2, <2>1, <2>3, <2>5, <2>6, <2>7, <2>8, <2>9 DEF KInv
<1>7. CASE Unanswered
  <2>1. ~PingDue
    BY <1>7 DEF PingDue
  <2>2. /\ (dead' <=> Expired) /\ ping_outstanding' /\ ping_sent' = ping_sent
        /\ ack_by' = ack_by
    BY <1>7, <2>1, Zenon DEF KeepaliveFires
  <2>3. /\ dead' => clock - ping_sent >= options.timeout
        /\ ~dead' => ~Expired /\ clock - ping_sent < options.timeout
    BY <1>1, <1>2, <1>7, <2>2 DEF Expired
  <2>4. ping_outstanding /\ last_read < ping_sent
    BY <1>7 DEF Unanswered
  <2>5. timer' \in Int /\ (options.permit /\ ~dead' => timer' = ping_sent + options.timeout)
    <3>1. CASE Expired
      BY <1>5, <2>2, <3>1 DEF None
    <3>2. CASE ~Expired
      <4>1. timer' = Deadline(streams, ping_outstanding', ping_sent, last_read)
        BY <1>4, <2>2, <3>2
      <4> QED
        BY <1>1, <1>2, <1>3, <2>2, <4>1, DeadlineType, Zenon
    <3> QED
      BY <3>1, <3>2
  <2>6. TypeInv'
    BY <1>1, <1>2, <1>3, <2>2, <2>3, <2>5 DEF TypeInv, Phases
  <2>7. PastInv' /\ AckInv'
    BY <1>1, <1>2, <1>3, <1>7, <2>2 DEF KInv, PastInv, AckInv, Unanswered
  <2>8. LivePeerNeverDead'
    <3>1. ~silent => clock <= ping_sent + PeerDelay + LoopDelay
      BY <1>1, <1>2, <1>3, <1>7 DEF KInv, AckInv
    <3> QED
      BY <1>1, <1>2, <1>3, <2>3, <3>1 DEF LivePeerNeverDead
  <2>9. TimerInv'
    BY <1>1, <1>2, <1>3, <2>2, <2>3, <2>4, <2>5 DEF KInv, TimerInv, Longest
  <2> QED
    BY <2>2, <2>6, <2>7, <2>8, <2>9 DEF KInv
<1>8. CASE ~PingDue /\ ~Unanswered
  <2>1. ~Expired
    BY <1>8 DEF Expired
  <2>2. /\ ~dead' /\ ~ping_outstanding' /\ ping_sent' = ping_sent
        /\ ack_by' = ack_by
    BY <1>8, <2>1, Zenon DEF KeepaliveFires
  <2>3. timer' \in Int /\ (options.permit => timer' = last_read + options.time)
    <3>1. ping_outstanding' = FALSE
      BY <1>3, <2>2
    <3>2. timer' = Deadline(streams, FALSE, ping_sent, last_read)
      BY <1>4, <2>1, <2>2, <3>1, Zenon
    <3> QED
      BY <1>1, <1>2, <3>2 DEF Deadline, None
  <2>4. TypeInv'
    BY <1>1, <1>2, <1>3, <2>2, <2>3 DEF TypeInv, Phases
  <2>5. ping_sent <= last_read
    BY <1>2, <1>8 DEF Unanswered
  <2>6. PastInv'
    BY <1>1, <1>2, <1>3, <2>2, <2>5 DEF PastInv
  <2>7. AckInv' /\ LivePeerNeverDead'
    BY <2>2 DEF AckInv, Unanswered, LivePeerNeverDead
  <2>8. options.permit => clock - last_read < options.time
    BY <1>1, <1>2, <1>8 DEF PingDue
  <2>9. TimerInv'
    BY <1>1, <1>2, <1>3, <2>2, <2>3, <2>8 DEF TimerInv
  <2> QED
    BY <2>2, <2>4, <2>6, <2>7, <2>9 DEF KInv
<1> QED
  BY <1>6, <1>7, <1>8

LEMMA PeerInv ==
  ASSUME KInv, PeerSends \/ PeerAcks \/ PeerHangs
  PROVE  KInv'
<1>1. /\ UNCHANGED <<clock, session, timer, dead, phase, woke>>
      /\ arrived \subseteq arrived' /\ arrived' \in SUBSET {"data", "ack"}
      /\ silent' \in BOOLEAN /\ (silent => silent') /\ ack_by' \in {ack_by, None}
  BY Zenon DEF KInv, TypeInv, PeerSends, PeerAcks, PeerHangs
<1>2. TypeInv'
  BY <1>1 DEF KInv, TypeInv, session
<1>3. PastInv'
  BY <1>1, Zenon DEF KInv, PastInv, session
<1>4. AckInv'
  <2>1. CASE PeerSends \/ PeerHangs
    BY <1>1, <2>1 DEF KInv, AckInv, Unanswered, PeerSends, PeerHangs, session
  <2>2. CASE PeerAcks
    <3>1. "ack" \in arrived'
      BY <2>2 DEF PeerAcks
    <3>2. woke <= clock /\ woke \in Nat /\ clock \in Nat /\ ping_sent \in Nat /\ PeerDelay \in Nat
      BY Numbers DEF KInv, TypeInv, PastInv
    <3> QED
      BY <1>1, <3>1, <3>2 DEF KInv, AckInv, Unanswered, session
  <2> QED
    BY <2>1, <2>2
<1>5. TimerInv' /\ LivePeerNeverDead'
  BY <1>1 DEF KInv, TimerInv, LivePeerNeverDead, Longest, session
<1> QED
  BY <1>2, <1>3, <1>4, <1>5 DEF KInv

LEMMA TickInv ==
  ASSUME KInv, Tick
  PROVE  KInv'
<1>1. /\ TypeInv /\ LoopDelay \in Nat /\ PeerDelay \in Nat /\ clock' = clock + 1
      /\ options.time \in Nat \ {0} /\ options.timeout \in Nat \ {0}
      /\ UNCHANGED <<session, timer, dead, phase, woke, peer>> /\ ~dead
  BY Numbers DEF KInv, Tick
<1>2. TypeInv'
  BY <1>1 DEF TypeInv, session, peer
<1>3. PastInv'
  BY <1>1 DEF KInv, TypeInv, PastInv, Tick, session, peer
<1>4. AckInv'
  <2>1. ack_by # None => clock < ack_by
    BY DEF Tick
  <2> QED
    BY <1>1, <2>1 DEF KInv, TypeInv, AckInv, Unanswered, None, session, peer
<1>5. TimerInv'
  <2>1. phase = "poll" => ~(timer # None /\ timer <= clock)
    BY DEF Tick, TimerDue
  <2> QED
    BY <1>1, <2>1 DEF KInv, TypeInv, TimerInv, Longest, None, session, peer
<1>6. LivePeerNeverDead'
  BY <1>1 DEF LivePeerNeverDead
<1> QED
  BY <1>2, <1>3, <1>4, <1>5, <1>6 DEF KInv

(* Every step keeps the invariant, and sends no PING too early. *)
LEMMA NextInv ==
  ASSUME KInv, [Next]_vars
  PROVE  KInv' /\ (ping_sent' # ping_sent => ping_sent' - ping_sent >= options.time)
<1>1. CASE UNCHANGED vars
  BY <1>1 DEF vars, session, peer, KInv, TypeInv, PastInv, AckInv, Unanswered, TimerInv,
              Longest, LivePeerNeverDead
<1>2. CASE Wake \/ Serve \/ RunOps \/ NoneDue
  <2>1. ping_sent' = ping_sent
    BY <1>2, Zenon DEF Wake, Serve, RunOps, NoneDue, session
  <2> QED
    BY <1>2, <2>1, WakeInv, ServeInv, RunOpsInv, NoneDueInv
<1>3. CASE KeepaliveFires
  BY <1>3, KeepaliveFiresInv
<1>4. CASE PeerSends \/ PeerAcks \/ PeerHangs
  <2>1. ping_sent' = ping_sent
    BY <1>4 DEF PeerSends, PeerAcks, PeerHangs, session
  <2> QED
    BY <1>4, <2>1, PeerInv
<1>5. CASE Tick
  BY <1>5, TickInv DEF Tick, session
<1> QED
  BY <1>1, <1>2, <1>3, <1>4, <1>5 DEF Next, Ended

(* The inductive invariant. *)
THEOREM KeepaliveInvariance == Spec => []KInv
BY InitInv, NextInv, PTL DEF Spec

(* A peer that acknowledges within PeerDelay is never declared dead, for   *)
(* any delays that together stay below keepalive_timeout.                  *)
THEOREM LivePeersSurvive == Spec => []LivePeerNeverDead
BY KeepaliveInvariance, PTL DEF KInv

(* With permit_without_calls a peer that stays silent is found out, no     *)
(* later than the bound says, for any options and delay of the loop.       *)
THEOREM SilenceIsBounded == Spec => []DeadPeerFound
<1>1. KInv => DeadPeerFound
  <2> SUFFICES ASSUME KInv, options.permit, ~dead
               PROVE  clock <= last_read + Longest + options.timeout + 2 * LoopDelay
    BY DEF DeadPeerFound
  <2>1. /\ LoopDelay \in Nat /\ options.time \in Nat /\ options.timeout \in Nat
        /\ Longest \in Nat /\ options.time <= Longest
    BY Numbers DEF KInv
  <2>2. /\ clock \in Nat /\ last_read \in Nat /\ ping_sent \in Nat /\ woke \in Nat
        /\ timer \in Int /\ ping_outstanding \in BOOLEAN
    BY DEF KInv, TypeInv
  <2>3. clock <= timer + LoopDelay
    BY <2>1, <2>2 DEF KInv, PastInv, TimerInv
  <2>4. timer <= last_read + Longest + options.timeout + LoopDelay
    BY <2>1, <2>2 DEF KInv, TimerInv
  <2> QED
    BY <2>1, <2>2, <2>3, <2>4
<1> QED
  BY <1>1, KeepaliveInvariance, PTL

(* PINGs are keepalive_time apart. *)
THEOREM PingsNeverFlood == Spec => PingsSpaced
<1>1. KInv /\ [Next]_vars =>
        [ping_sent' # ping_sent /\ ping_sent # 0
           => ping_sent' - ping_sent >= options.time]_vars
  BY NextInv
<1> QED
  BY <1>1, KeepaliveInvariance, PTL DEF PingsSpaced, Spec
=============================================================================
