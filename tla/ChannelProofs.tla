--------------------------- MODULE ChannelProofs ---------------------------
(***************************************************************************)
(* Proofs about Channel, for any calls, threads that shut it down, options *)
(* and faults.                                                             *)
(*                                                                         *)
(* A handler composes operators on the record ch, so most lemmas are about *)
(* those: from a sound record each makes sound ones, and what happens to   *)
(* the calls that the channel holds is always the same (Takes).            *)
(***************************************************************************)
EXTENDS Channel, TLAPS

Codes == {"Unknown", "Server", "Unavailable", "ResourceExhausted"}
Details ==
  {"none", "start", "connect", "connect timeout", "io", "eof", "keepalive",
   "shut down", "too large", "stream", "overwritten"} \cup SessionErrors

CallRecords ==
  [st : {"Created", "HeadersSent", "Open", "Closed"}, code : Codes, msg : Details]

Sessions ==
  [live : BOOLEAN, streams : SUBSET Calls, draining : BOOLEAN, error : Details,
   ping : {"none", "outstanding", "answered"}, out : BOOLEAN]

Sockets == {"Idle", "Connecting", "Connected", "Failed", "Closed"}

Channels ==
  [permit : BOOLEAN,
   state : {"Idle", "Connecting", "Ready", "Failed", "Shutdown"},
   detail : Details, pending : SUBSET Calls, active : SUBSET Calls,
   connect_timer : BOOLEAN, keepalive_timer : {"none", "idle", "ping"},
   watch : {"none", "connect", "session"},
   sock : Sockets,
   h2 : Sessions, call : [Calls -> CallRecords]]

(* The calls that a channel in state s has to answer. *)
Held(s) == s.pending \cup s.active

(* The calls it holds are not answered, and are held once. *)
Owned(s) ==
  /\ s.pending \cap s.active = {} /\ s.active = s.h2.streams
  /\ \A c \in Held(s) : s.call[c].st # "Closed"

(* Timers, watch, socket and session are those of the state. *)
Fits(s) ==
  /\ s.connect_timer <=> s.state = "Connecting"
  /\ s.state = "Connecting" => s.watch = "connect"
  /\ s.state = "Ready" => s.watch = "session" /\ s.sock = "Connected" /\ s.h2.live
  /\ s.state \notin {"Connecting", "Ready"} => s.watch = "none" /\ s.pending = {}
  /\ s.state # "Ready" => s.h2 = NoSession /\ s.keepalive_timer = "none"

Sound(s) == s \in Channels /\ Owned(s) /\ Fits(s)

(* From s the channel, which is handed the calls of S, gets to t: a call   *)
(* it was to answer is still held or is answered, the others are not       *)
(* touched.                                                                *)
Takes(s, S, t) ==
  /\ Held(t) \subseteq Held(s) \cup S
  /\ \A c \in Calls : IF c \in Held(s) \cup S
                      THEN c \in Held(t) \/ t.call[c].st = "Closed"
                      ELSE t.call[c] = s.call[c]

(* What a part of a handler does, DoShutdown aside. *)
Handles(s, S, t) ==
  /\ Sound(t) /\ Takes(s, S, t) /\ t.pending \subseteq s.pending \cup S
  /\ t.state = "Shutdown" <=> s.state = "Shutdown"

(* t has the timers, watch, socket, state and waiting calls of s. *)
SameFrame(s, t) ==
  /\ t.state = s.state /\ t.detail = s.detail /\ t.pending = s.pending
  /\ t.connect_timer = s.connect_timer /\ t.keepalive_timer = s.keepalive_timer
  /\ t.watch = s.watch /\ t.sock = s.sock /\ t.permit = s.permit

(* What FailAll does with the calls of S. *)
Fails(s, S, msg, t) ==
  /\ t \in Channels /\ SameFrame(s, t) /\ t.active = s.active /\ t.h2 = s.h2
  /\ \A c \in Calls : IF c \in S THEN t.call[c].st = "Closed"
                      ELSE t.call[c] = s.call[c]
  /\ \A c \in S : s.call[c].st # "Closed" =>
       t.call[c] = [st |-> "Closed", code |-> "Unavailable", msg |-> msg]

(* What CloseStreams does with the streams of S. *)
Closes(s, S, t) ==
  /\ t \in Channels /\ SameFrame(s, t) /\ t.active = s.active \ S
  /\ t.h2.streams = s.h2.streams \ S /\ t.h2.live = s.h2.live
  /\ s.h2.streams = {} => t.h2 = s.h2
  /\ \A c \in Calls : IF c \in S THEN t.call[c].st = "Closed"
                      ELSE t.call[c] = s.call[c]
  /\ \A c \in Calls : s.call[c].st = "Closed" => t.call[c] = s.call[c]

USE PermitsAssumption, FaultsAssumption

(* One part of a handler follows another. *)
LEMMA HandlesThen ==
  ASSUME NEW s, NEW t, NEW u, NEW S \in SUBSET Calls,
         Handles(s, S, t), Handles(t, {}, u)
  PROVE  Handles(s, S, u)
BY DEF Handles, Takes

(* CallState's functions make calls of calls. *)
LEMMA FailLocalFacts ==
  ASSUME NEW call \in CallRecords, NEW code \in Codes, NEW msg \in Details
  PROVE  /\ FailLocal(call, code, msg) \in CallRecords
         /\ FailLocal(call, code, msg).st = "Closed"
BY DEF CallRecords, FailLocal

(* The hooks of a stream. *)
LEMMA HookFacts ==
  ASSUME NEW call \in CallRecords
  PROVE  /\ OnClose(call) \in CallRecords /\ OnClose(call).st = "Closed"
         /\ OnSubmitted(call) \in CallRecords
         /\ OnResponseHeaders(call) \in CallRecords
         /\ call.st # "Closed" => /\ OnSubmitted(call).st # "Closed"
                                  /\ OnResponseHeaders(call).st # "Closed"
<1>1. OnClose(call) \in CallRecords /\ OnClose(call).st = "Closed"
  BY Zenon DEF CallRecords, OnClose, Codes, Details
<1>2. /\ OnSubmitted(call) \in CallRecords
      /\ call.st # "Closed" => OnSubmitted(call).st # "Closed"
  BY DEF CallRecords, OnSubmitted
<1>3. /\ OnResponseHeaders(call) \in CallRecords
      /\ call.st # "Closed" => OnResponseHeaders(call).st # "Closed"
  BY DEF CallRecords, OnResponseHeaders
<1> QED
  BY <1>1, <1>2, <1>3

(* FailAll answers the calls of S and leaves all else alone. *)
LEMMA FailAllFacts ==
  ASSUME NEW s \in Channels, NEW S \in SUBSET Calls, NEW msg \in Details
  PROVE  Fails(s, S, msg, FailAll(s, S, msg))
<1> DEFINE f == [c \in Calls |-> IF c \in S THEN FailLocal(s.call[c], "Unavailable", msg)
                                 ELSE s.call[c]]
<1>1. s.call \in [Calls -> CallRecords]
  BY DEF Channels, Sockets
<1>2. f \in [Calls -> CallRecords]
  BY <1>1, FailLocalFacts DEF Codes
<1>3. \A c \in Calls : IF c \in S THEN f[c].st = "Closed" ELSE f[c] = s.call[c]
  BY <1>1 DEF FailLocal
<1>4. \A c \in S : s.call[c].st # "Closed" =>
        f[c] = [st |-> "Closed", code |-> "Unavailable", msg |-> msg]
  BY DEF FailLocal
<1>5. FailAll(s, S, msg) = [s EXCEPT !.call = f]
  BY DEF FailAll
<1> HIDE DEF f
<1>6. [s EXCEPT !.call = f] \in Channels /\ [s EXCEPT !.call = f].call = f
  BY <1>2 DEF Channels, Sockets
<1>7. /\ SameFrame(s, FailAll(s, S, msg))
      /\ FailAll(s, S, msg).active = s.active /\ FailAll(s, S, msg).h2 = s.h2
  BY <1>5 DEF SameFrame, Channels
<1> QED
  BY <1>3, <1>4, <1>5, <1>6, <1>7 DEF Fails

(* CloseStreams answers the calls of the streams that end. *)
LEMMA CloseStreamsFacts ==
  ASSUME NEW s \in Channels, NEW S
  PROVE  Closes(s, S \cap s.h2.streams, CloseStreams(s, S))
<1> DEFINE closed == S \cap s.h2.streams
           f == [c \in Calls |-> IF c \in closed THEN OnClose(s.call[c]) ELSE s.call[c]]
           t == CloseStreams(s, S)
<1>1. s.call \in [Calls -> CallRecords] /\ closed \subseteq Calls
  BY DEF Channels, Sessions
<1>2. f \in [Calls -> CallRecords]
  BY <1>1, HookFacts
<1>3. \A c \in Calls : IF c \in closed THEN f[c].st = "Closed" ELSE f[c] = s.call[c]
  BY <1>1 DEF OnClose
<1>4. \A c \in Calls : s.call[c].st = "Closed" => f[c] = s.call[c]
  BY <1>1 DEF OnClose
<1>5. t = [s EXCEPT !.h2.streams = @ \ closed, !.active = @ \ closed, !.call = f]
  BY DEF CloseStreams
<1> HIDE DEF f, closed, t
<1>6. t.call = f
  BY <1>5 DEF Channels, Sockets
<1>7. t \in Channels
  BY <1>2, <1>5, Zenon DEF Channels, Sessions
<1>8. /\ SameFrame(s, t) /\ t.active = s.active \ closed
      /\ s.h2.streams = {} => t.h2 = s.h2
      /\ t.h2.streams = s.h2.streams \ closed /\ t.h2.live = s.h2.live
  BY <1>5 DEF SameFrame, Channels, Sessions
<1> QED
  BY <1>3, <1>4, <1>6, <1>7, <1>8 DEF Closes, closed, t

(* What the calls read of a detail is a detail. *)
LEMMA ReadingsFacts ==
  ASSUME NEW detail \in Details
  PROVE  Readings(detail) \subseteq Details
BY Zenon DEF Readings, Details

(* TearDown answers all calls and leaves nothing running, whatever state   *)
(* the handler was in the middle of.                                       *)
LEMMA TearDownFacts ==
  ASSUME NEW s \in Channels, Owned(s), s.state \in {"Failed", "Shutdown"} => Fits(s),
         NEW detail \in Details, NEW t \in TearDown(s, detail)
  PROVE  /\ Handles(s, {}, t) /\ t.state \in {s.state, "Failed"}
         /\ s.state # "Shutdown" => t.state = "Failed"
<1>1. CASE s.state \in {"Failed", "Shutdown"}
  <2>1. t = s
    BY <1>1 DEF TearDown
  <2> QED
    BY <1>1, <2>1 DEF Handles, Sound, Takes
<1>2. CASE s.state \notin {"Failed", "Shutdown"}
  <2> DEFINE down == [s EXCEPT !.state = "Failed", !.detail = detail,
                        !.connect_timer = FALSE, !.keepalive_timer = "none",
                        !.watch = "none",
                        !.sock = IF @ = "Failed" THEN @ ELSE "Closed",
                        !.h2 = NoSession, !.active = {}, !.pending = {}]
  <2>1. PICK seen \in Details : t = FailAll(down, Held(s), seen)
    BY <1>2, ReadingsFacts, Zenon DEF TearDown, Held
  <2>2. NoSession \in Sessions /\ NoSession.streams = {} /\ ~NoSession.live
    BY Zenon DEF NoSession, Sessions, Details
  <2>3. down \in Channels /\ Held(s) \in SUBSET Calls
    BY <2>2, ZenonT(30) DEF Channels, Sockets, Held
  <2>4. /\ down.state = "Failed" /\ down.pending = {} /\ down.active = {}
        /\ down.h2 = NoSession /\ down.watch = "none" /\ ~down.connect_timer
        /\ down.keepalive_timer = "none" /\ down.call = s.call
    BY DEF Channels, Sockets
  <2> HIDE DEF down
  <2>5. /\ t \in Channels /\ SameFrame(down, t)
        /\ t.active = down.active /\ t.h2 = down.h2
        /\ \A c \in Calls : IF c \in Held(s) THEN t.call[c].st = "Closed"
                            ELSE t.call[c] = s.call[c]
    <3>1. Fails(down, Held(s), seen, t)
      BY <2>1, <2>3, FailAllFacts
    <3> QED
      BY <2>4, <3>1 DEF Fails
  <2>6. /\ t.state = "Failed" /\ t.pending = {} /\ t.active = {}
        /\ t.h2 = NoSession /\ t.watch = "none" /\ ~t.connect_timer
        /\ t.keepalive_timer = "none"
    BY <2>4, <2>5 DEF SameFrame
  <2>7. Sound(t)
    BY <2>2, <2>5, <2>6 DEF Sound, Owned, Fits, Held
  <2>8. Takes(s, {}, t)
    BY <2>5, <2>6 DEF Takes, Held
  <2> QED
    BY <1>2, <2>6, <2>7, <2>8 DEF Handles
<1> QED
  BY <1>1, <1>2

----------------------------------------------------------------------------
(* Parts of the handlers of a ready channel *)

(* A part that does nothing. *)
LEMMA HandlesNothing ==
  ASSUME NEW s, Sound(s)
  PROVE  Handles(s, {}, s)
BY DEF Handles, Takes

(* A part that changes something of the session, but not its streams. *)
LEMMA SessionUpdate ==
  ASSUME NEW s, Sound(s), s.state = "Ready",
         NEW h \in Sessions, h.streams = s.h2.streams, h.live
  PROVE  LET t == [s EXCEPT !.h2 = h] IN Handles(s, {}, t) /\ t.state = "Ready"
<1> DEFINE t == [s EXCEPT !.h2 = h]
<1>1. s \in Channels
  BY DEF Sound
<1>2. t \in Channels
  BY <1>1 DEF Channels, Sockets
<1>3. SameFrame(s, t) /\ t.active = s.active /\ t.h2 = h /\ t.call = s.call
  BY <1>1 DEF Channels, SameFrame
<1> HIDE DEF t
<1>4. Sound(t)
  BY <1>2, <1>3 DEF Sound, Owned, Fits, Held, SameFrame
<1>5. Takes(s, {}, t)
  BY <1>3 DEF Takes, Held, SameFrame
<1> QED
  BY <1>3, <1>4, <1>5 DEF Handles, SameFrame, t

(* Streams end, and their calls are answered. *)
LEMMA StreamsEnd ==
  ASSUME NEW s, Sound(s), NEW S
  PROVE  Handles(s, {}, CloseStreams(s, S)) /\ CloseStreams(s, S).state = s.state
<1> DEFINE t == CloseStreams(s, S)
           closed == S \cap s.h2.streams
<1>1. Closes(s, closed, t)
  BY CloseStreamsFacts DEF Sound
<1> HIDE DEF t, closed
<1>2. t.active = t.h2.streams /\ t.pending = s.pending /\ t.pending \cap t.active = {}
  BY <1>1 DEF Closes, Sound, Owned, SameFrame
<1>3. \A c \in Held(t) : t.call[c].st # "Closed"
  <2>1. \A c \in Held(t) : c \in Held(s) /\ c \in Calls
    BY <1>1, Zenon DEF Closes, SameFrame, Held, Sound, Channels
  <2>2. \A c \in Held(t) : c \notin closed
    BY <1>1, Zenon DEF Closes, SameFrame, Held, Sound, Owned, closed
  <2> QED
    BY <1>1, <2>1, <2>2, Zenon DEF Closes, Sound, Owned
<1>4. Fits(t)
  <2>1. s.state # "Ready" => s.h2.streams = {}
    BY DEF Sound, Fits, NoSession
  <2> QED
    BY <1>1, <2>1 DEF Closes, SameFrame, Sound, Fits
<1>5. Sound(t)
  BY <1>1, <1>2, <1>3, <1>4 DEF Closes, Sound, Owned
<1>6. Takes(s, {}, t)
  <2>1. closed \subseteq Held(s)
    BY DEF closed, Held, Sound, Owned
  <2> QED
    BY <1>1, <2>1 DEF Closes, SameFrame, Takes, Held
<1> QED
  BY <1>1, <1>5, <1>6 DEF Handles, Closes, SameFrame, t

(* PendingOutput may end a stream. *)
LEMMA PendingOutputFacts ==
  ASSUME NEW s, Sound(s), s.state = "Ready", NEW t \in PendingOutput(s)
  PROVE  Handles(s, {}, t) /\ t.state = "Ready"
BY StreamsEnd, HandlesNothing DEF PendingOutput

(* The loop of FlushOutput. *)
LEMMA WriteOutputFacts ==
  ASSUME NEW s, Sound(s), s.state = "Ready", NEW t \in WriteOutput(s)
  PROVE  Handles(s, {}, t) /\ t.state \in {"Ready", "Failed"}
<1>1. s \in Channels /\ Owned(s) /\ s.h2 \in Sessions /\ s.h2.error \in Details
  BY DEF Sound, Channels, Sessions
<1>2. ASSUME NEW detail \in Details, t \in TearDown(s, detail)
      PROVE  Handles(s, {}, t) /\ t.state \in {"Ready", "Failed"}
  BY <1>1, <1>2, TearDownFacts
<1>3. CASE t = s
  BY <1>3, HandlesNothing
<1>4. CASE t = [s EXCEPT !.h2.out = FALSE]
  <2> DEFINE h == [s.h2 EXCEPT !.out = FALSE]
  <2>1. h \in Sessions /\ h.streams = s.h2.streams /\ h.live
    BY <1>1, Zenon DEF Sessions, Sound, Fits
  <2>2. t = [s EXCEPT !.h2 = h]
    BY <1>4
  <2> HIDE DEF h
  <2> QED
    BY <2>1, <2>2, SessionUpdate
<1>5. "io" \in Details /\ "send" \in Details
  BY DEF Details, SessionErrors
<1>6. \/ t = s \/ t = [s EXCEPT !.h2.out = FALSE]
      \/ \E detail \in Details : t \in TearDown(s, detail)
  BY <1>1, <1>5 DEF WriteOutput, Each
<1> QED
  BY <1>2, <1>3, <1>4, <1>6

(* FlushOutput. *)
LEMMA FlushOutputFacts ==
  ASSUME NEW s, Sound(s), NEW t \in FlushOutput(s)
  PROVE  Handles(s, {}, t) /\ t.state \in {s.state, "Failed"}
<1>1. CASE s.state # "Ready"
  BY <1>1, HandlesNothing DEF FlushOutput
<1>2. CASE s.state = "Ready"
  <2>1. PICK u \in PendingOutput(s) : t \in WriteOutput(u)
    BY <1>2 DEF FlushOutput, Each
  <2>2. Handles(s, {}, u) /\ u.state = "Ready"
    BY <1>2, PendingOutputFacts
  <2>3. Handles(u, {}, t) /\ t.state \in {"Ready", "Failed"}
    BY <2>1, <2>2, WriteOutputFacts DEF Handles
  <2> QED
    BY <1>2, <2>2, <2>3, HandlesThen
<1> QED
  BY <1>1, <1>2

(* RearmKeepalive. *)
LEMMA RearmFacts ==
  ASSUME NEW s, Sound(s)
  PROVE  Handles(s, {}, RearmKeepalive(s)) /\ RearmKeepalive(s).state = s.state
<1>1. CASE s.state # "Ready"
  BY <1>1, HandlesNothing DEF RearmKeepalive
<1>2. CASE s.state = "Ready"
  <2> DEFINE k == NextKeepaliveDeadline(s)
             t == [s EXCEPT !.keepalive_timer = k]
  <2>1. s \in Channels /\ k \in {"none", "idle", "ping"}
    BY DEF Sound, NextKeepaliveDeadline
  <2>2. t = RearmKeepalive(s)
    BY <1>2 DEF RearmKeepalive
  <2> HIDE DEF k
  <2>3. /\ t \in Channels /\ t.state = s.state /\ t.pending = s.pending
        /\ t.active = s.active /\ t.connect_timer = s.connect_timer
        /\ t.watch = s.watch /\ t.sock = s.sock /\ t.h2 = s.h2 /\ t.call = s.call
    BY <2>1 DEF Channels, Sockets
  <2> HIDE DEF t
  <2>4. Sound(t)
    BY <1>2, <2>3 DEF Sound, Owned, Fits, Held
  <2>5. Takes(s, {}, t)
    BY <2>3 DEF Takes, Held
  <2> QED
    BY <2>2, <2>3, <2>4, <2>5 DEF Handles
<1> QED
  BY <1>1, <1>2

(* Response headers for the calls of S. *)
WithHeaders(s, S) ==
  [s EXCEPT !.call = [c \in Calls |->
     IF c \in S \cap s.h2.streams THEN OnResponseHeaders(@[c]) ELSE @[c]]]

(* They answer nobody. *)
LEMMA HeadersFacts ==
  ASSUME NEW s, Sound(s), NEW S
  PROVE  Handles(s, {}, WithHeaders(s, S)) /\ WithHeaders(s, S).state = s.state
<1> DEFINE f == [c \in Calls |->
                   IF c \in S \cap s.h2.streams THEN OnResponseHeaders(s.call[c])
                                               ELSE s.call[c]]
           t == WithHeaders(s, S)
<1>1. s \in Channels /\ s.call \in [Calls -> CallRecords]
  BY DEF Sound, Channels
<1>2. f \in [Calls -> CallRecords]
  BY <1>1, HookFacts
<1>3. \A c \in Calls : /\ s.call[c].st # "Closed" => f[c].st # "Closed"
                       /\ c \notin s.h2.streams => f[c] = s.call[c]
  BY <1>1, HookFacts
<1>4. t = [s EXCEPT !.call = f]
  BY DEF WithHeaders
<1> HIDE DEF f, t
<1>5. t \in Channels /\ SameFrame(s, t) /\ t.active = s.active /\ t.h2 = s.h2 /\ t.call = f
  BY <1>1, <1>2, <1>4 DEF Channels, SameFrame
<1>6. Held(t) = Held(s) /\ Held(s) \subseteq Calls /\ s.h2.streams \subseteq Held(s)
  BY <1>1, <1>5 DEF Held, SameFrame, Sound, Owned, Channels
<1>7. \A c \in Held(t) : t.call[c].st # "Closed"
  BY <1>3, <1>5, <1>6, Zenon DEF Sound, Owned
<1>8. Sound(t)
  BY <1>5, <1>7 DEF Sound, Owned, Fits, SameFrame
<1>9. Takes(s, {}, t)
  BY <1>3, <1>5, <1>6 DEF Takes
<1> QED
  BY <1>5, <1>8, <1>9 DEF Handles, SameFrame, t

(* A frame is received. *)
LEMMA ReceiveFacts ==
  ASSUME NEW s, Sound(s), s.state = "Ready", NEW f \in Frames
  PROVE  Handles(s, {}, Receive(s, f)) /\ Receive(s, f).state = "Ready"
<1> DEFINE r == ReadBytes(s)
           t == Receive(s, f)
<1>1. Handles(s, {}, r) /\ r.state = "Ready"
  <2> DEFINE h == [s.h2 EXCEPT !.ping = IF @ = "outstanding" THEN "answered" ELSE @]
  <2>1. h \in Sessions /\ h.streams = s.h2.streams /\ h.live
    BY DEF Sessions, Sound, Fits, Channels
  <2>2. r = [s EXCEPT !.h2 = h]
    BY DEF ReadBytes
  <2> HIDE DEF h, r
  <2> QED
    BY <2>1, <2>2, SessionUpdate
<1> HIDE DEF r
<1>2. Sound(r) /\ r.h2 \in Sessions /\ r.h2.live
  BY <1>1 DEF Handles, Sound, Channels, Fits
<1>3. ASSUME NEW h \in Sessions, h.streams = r.h2.streams, h.live
      PROVE  LET u == [r EXCEPT !.h2 = h] IN Handles(s, {}, u) /\ u.state = "Ready"
  <2> DEFINE u == [r EXCEPT !.h2 = h]
  <2>1. Handles(r, {}, u) /\ u.state = "Ready"
    BY <1>1, <1>2, <1>3, SessionUpdate
  <2> HIDE DEF u
  <2>2. Handles(s, {}, u) /\ u.state = "Ready"
    BY <1>1, <2>1, HandlesThen
  <2> QED
    BY <2>2 DEF u
<1>4. CASE f.kind = "headers"
  <2>1. t = WithHeaders(r, f.on)
    BY <1>4 DEF Receive, r, WithHeaders
  <2>2. Handles(r, {}, t) /\ t.state = "Ready"
    BY <1>1, <1>2, <2>1, HeadersFacts
  <2> QED
    BY <1>1, <2>2, HandlesThen
<1>5. CASE f.kind = "close"
  <2>1. t = CloseStreams(r, f.on)
    BY <1>5 DEF Receive, r
  <2>2. Handles(r, {}, t) /\ t.state = "Ready"
    BY <1>1, <1>2, <2>1, StreamsEnd
  <2> QED
    BY <1>1, <2>2, HandlesThen
<1>6. CASE f.kind = "goaway"
  <2> DEFINE h == [r.h2 EXCEPT !.draining = TRUE]
             u == [r EXCEPT !.h2 = h]
  <2>1. t = CloseStreams(u, f.on)
    BY <1>6 DEF Receive, r
  <2>2. h \in Sessions /\ h.streams = r.h2.streams /\ h.live
    BY <1>2, Zenon DEF Sessions
  <2> HIDE DEF h
  <2>3. Handles(s, {}, u) /\ u.state = "Ready"
    BY <1>3, <2>2
  <2> HIDE DEF u
  <2>4. Handles(u, {}, t) /\ t.state = "Ready"
    BY <2>1, <2>3, StreamsEnd DEF Handles
  <2> QED
    BY <2>3, <2>4, HandlesThen
<1>7. CASE f.kind = "pingack"
  <2> DEFINE h == [r.h2 EXCEPT !.ping = "none"]
  <2>1. t = [r EXCEPT !.h2 = h]
    BY <1>7 DEF Receive, r
  <2>2. h \in Sessions /\ h.streams = r.h2.streams /\ h.live
    BY <1>2 DEF Sessions
  <2> HIDE DEF h
  <2> QED
    BY <1>3, <2>1, <2>2
<1>8. CASE f.kind = "other"
  <2> DEFINE h == [r.h2 EXCEPT !.out = TRUE]
  <2>1. t = [r EXCEPT !.h2 = h]
    BY <1>8 DEF Receive, r
  <2>2. h \in Sessions /\ h.streams = r.h2.streams /\ h.live
    BY <1>2, Zenon DEF Sessions
  <2> HIDE DEF h
  <2> QED
    BY <1>3, <2>1, <2>2
<1> QED
  BY <1>4, <1>5, <1>6, <1>7, <1>8 DEF Frames

(* What is read, or the end of the connection. *)
LEMMA DrainSocketFacts ==
  ASSUME NEW s, Sound(s), s.state = "Ready",
         NEW f \in Frames \cup {Nothing}, NEW end \in Ends,
         NEW t \in DrainSocket(s, f, end)
  PROVE  Handles(s, {}, t)
<1> DEFINE r == IF f.kind = "nothing" THEN s ELSE Receive(s, f)
<1>1. Handles(s, {}, r) /\ r.state = "Ready"
  BY HandlesNothing, ReceiveFacts DEF Frames, Nothing
<1>2. t = r \/ (end \in Details /\ t \in TearDown(r, end))
  BY Zenon DEF DrainSocket, Ends, Details, SessionErrors
<1> HIDE DEF r
<1>3. Handles(r, {}, t)
  BY <1>1, <1>2, TearDownFacts, HandlesNothing DEF Handles, Sound
<1> QED
  BY <1>1, <1>3, HandlesThen

(* A PING, or none. *)
LEMMA SendPingFacts ==
  ASSUME NEW s, Sound(s), s.state = "Ready", NEW idle, NEW t \in SendPing(s, idle)
  PROVE  Handles(s, {}, t) /\ t.state = "Ready"
<1>1. s.h2 \in Sessions /\ s.h2.live
  BY DEF Sound, Channels, Fits
<1>2. ASSUME NEW h \in Sessions, h.streams = s.h2.streams, h.live, t = [s EXCEPT !.h2 = h]
      PROVE  Handles(s, {}, t) /\ t.state = "Ready"
  BY <1>2, SessionUpdate
<1>3. CASE t = [s EXCEPT !.h2.ping = "none"]
  <2> DEFINE h == [s.h2 EXCEPT !.ping = "none"]
  <2>1. h \in Sessions /\ h.streams = s.h2.streams /\ h.live /\ t = [s EXCEPT !.h2 = h]
    BY <1>1, <1>3 DEF Sessions
  <2> QED
    BY <1>2, <2>1, Zenon
<1>4. CASE t = [s EXCEPT !.h2.ping = "outstanding", !.h2.out = TRUE]
  <2> DEFINE h == [s.h2 EXCEPT !.ping = "outstanding", !.out = TRUE]
  <2>1. h \in Sessions /\ h.streams = s.h2.streams /\ h.live
    BY <1>1, Zenon DEF Sessions
  <2>2. t = [s EXCEPT !.h2 = h]
    BY <1>4, Zenon DEF Sound, Channels
  <2> QED
    BY <1>2, <2>1, <2>2, Zenon
<1>5. CASE t = [s EXCEPT !.h2.ping = "none", !.h2.error = "ping"]
  <2> DEFINE h == [s.h2 EXCEPT !.ping = "none", !.error = "ping"]
  <2>1. h \in Sessions /\ h.streams = s.h2.streams /\ h.live
    BY <1>1, Zenon DEF Sessions, Details, SessionErrors
  <2>2. t = [s EXCEPT !.h2 = h]
    BY <1>5, Zenon DEF Sound, Channels
  <2> QED
    BY <1>2, <2>1, <2>2, Zenon
<1> QED
  BY <1>3, <1>4, <1>5, Zenon DEF SendPing

----------------------------------------------------------------------------
(* Handlers *)

(* Calls are handed to the session: each becomes a stream or is refused    *)
(* and answered.                                                           *)
LEMMA SubmitCallsFacts ==
  ASSUME NEW s, Sound(s), NEW S \in SUBSET Calls, S # {} => s.state = "Ready",
         S \cap Held(s) = {}, \A c \in S : s.call[c].st # "Closed", NEW refused
  PROVE  LET u == SubmitCalls(s, S, refused) IN
         Handles(s, S, u) /\ u.pending = s.pending /\ u.state = s.state
<1> DEFINE no == IF s.h2.draining THEN S ELSE S \cap refused
           why == IF s.h2.draining THEN "draining" ELSE "submit"
           yes == S \ no
           t == FailAll(s, no, why)
           f == [c \in Calls |-> IF c \in yes THEN OnSubmitted(t.call[c]) ELSE t.call[c]]
           h == [t.h2 EXCEPT !.streams = @ \cup yes, !.out = @ \/ yes # {},
                             !.error = IF no = {} THEN @ ELSE why]
           u == SubmitCalls(s, S, refused)
<1>1. no \in SUBSET S /\ no \in SUBSET Calls /\ why \in Details /\ yes \in SUBSET S
      /\ yes \cap no = {} /\ yes \cup no = S
  BY DEF Details, SessionErrors
<1>2. s \in Channels
  BY DEF Sound
<1> HIDE DEF no, why
<1>3. Fails(s, no, why, t)
  BY <1>1, <1>2, FailAllFacts
<1>4. u = [t EXCEPT !.active = @ \cup yes, !.h2 = h, !.call = f]
  <2>1. u = [t EXCEPT !.active = @ \cup yes, !.h2.streams = @ \cup yes,
                      !.h2.out = @ \/ yes # {}, !.h2.error = IF no = {} THEN @ ELSE why,
                      !.call = f]
    BY DEF SubmitCalls, no, why
  <2>2. t \in Channels
    BY <1>3 DEF Fails
  <2> HIDE DEF t, yes, f, u
  <2> QED
    BY <2>1, <2>2, Zenon DEF Channels, Sessions
<1> HIDE DEF t, yes
<1>5. t \in Channels /\ t.h2 \in Sessions /\ t.h2 = s.h2 /\ SameFrame(s, t) /\ t.active = s.active
      /\ t.call \in [Calls -> CallRecords]
  BY <1>3 DEF Fails, Channels
<1>6. /\ h \in Sessions /\ h.streams = s.h2.streams \cup yes /\ h.live = s.h2.live
      /\ S = {} => h = s.h2
  BY <1>1, <1>5, ZenonT(30) DEF Sessions
<1>7. /\ f \in [Calls -> CallRecords]
      /\ \A c \in Calls : /\ c \notin yes => f[c] = t.call[c]
                          /\ c \in yes => f[c] = OnSubmitted(t.call[c])
  BY <1>1, <1>5, HookFacts
<1>8. \A c \in Calls : /\ c \in yes => f[c].st # "Closed"
                       /\ c \in no => f[c].st = "Closed"
                       /\ c \notin S => f[c] = s.call[c]
  <2>1. \A c \in yes : t.call[c] = s.call[c] /\ t.call[c].st # "Closed" /\ t.call[c] \in CallRecords
    BY <1>1, <1>3, <1>5, Zenon DEF Fails
  <2>2. \A c \in yes : OnSubmitted(t.call[c]).st # "Closed"
    BY <2>1, HookFacts
  <2> QED
    BY <1>1, <1>3, <1>7, <2>2, Zenon DEF Fails
<1> HIDE DEF h, f
<1>9. /\ u \in Channels /\ SameFrame(t, u) /\ u.h2 = h /\ u.call = f
      /\ u.active = t.active \cup yes
  <2>1. t.active \cup yes \in SUBSET Calls
    BY <1>1, <1>5 DEF Channels, Sockets
  <2> QED
    BY <1>4, <1>5, <1>6, <1>7, <2>1, ZenonT(30) DEF Channels, SameFrame
<1> HIDE DEF u
<1>10. /\ SameFrame(s, u) /\ u.active = s.active \cup yes /\ Held(u) = Held(s) \cup yes
  BY <1>5, <1>9 DEF SameFrame, Held
<1>11. Held(s) \subseteq Calls
  BY <1>2 DEF Channels, Held
<1>12. Owned(u)
  <2>1. \A c \in Held(u) : u.call[c].st # "Closed"
    BY <1>1, <1>8, <1>9, <1>10, <1>11, Zenon DEF Sound, Owned
  <2>2. u.pending \cap u.active = {} /\ u.active = u.h2.streams
    BY <1>1, <1>6, <1>9, <1>10 DEF Sound, Owned, SameFrame, Held
  <2> QED
    BY <2>1, <2>2 DEF Owned
<1>13. Fits(u)
  BY <1>6, <1>9, <1>10 DEF Sound, Fits, SameFrame
<1>14. Takes(s, S, u)
  <2>1. \A c \in Held(s) : c \in Held(u)
    BY <1>10
  <2>2. \A c \in S : c \in Held(u) \/ u.call[c].st = "Closed"
    BY <1>1, <1>8, <1>9, <1>10, Zenon
  <2>3. \A c \in Calls : c \notin S => u.call[c] = s.call[c]
    BY <1>8, <1>9
  <2> QED
    BY <1>1, <1>10, <2>1, <2>2, <2>3 DEF Takes
<1> QED
  BY <1>9, <1>10, <1>12, <1>13, <1>14 DEF Handles, Sound, SameFrame, u

(* StartConnecting, for a channel that has been idle: c is the first call. *)
LEMMA StartConnectingFacts ==
  ASSUME NEW s, Sound(s), s.state = "Idle", NEW c \in Calls \ Held(s),
         s.call[c].st # "Closed",
         NEW t \in StartConnecting([s EXCEPT !.pending = @ \cup {c}])
  PROVE  Handles(s, {c}, t) /\ t.state \in {"Connecting", "Failed"}
<1> DEFINE p == [s EXCEPT !.pending = @ \cup {c}, !.state = "Connecting", !.connect_timer = TRUE]
           good == [p EXCEPT !.sock = "Connecting", !.watch = "connect"]
           bad == [p EXCEPT !.sock = "Failed"]
<1>1. s \in Channels /\ s.pending = {} /\ s.active = {} /\ s.h2 = NoSession
      /\ s.keepalive_timer = "none"
  BY DEF Sound, Owned, Fits, NoSession
<1>2. t = good \/ t \in TearDown(bad, "connect")
  BY DEF StartConnecting
<1>3. /\ good \in Channels /\ good.state = "Connecting" /\ good.pending = {c}
      /\ good.active = {} /\ good.h2 = NoSession /\ good.call = s.call
      /\ good.connect_timer /\ good.watch = "connect" /\ good.keepalive_timer = "none"
  BY <1>1, ZenonT(30) DEF Channels, Sockets
<1>4. /\ bad \in Channels /\ bad.state = "Connecting" /\ bad.pending = {c}
      /\ bad.active = {} /\ bad.h2 = NoSession /\ bad.call = s.call
  BY <1>1, Zenon DEF Channels, Sockets
<1> HIDE DEF p, good, bad
<1>5. NoSession.streams = {}
  BY DEF NoSession
<1>6. CASE t = good
  <2>1. Sound(t)
    BY <1>3, <1>5, <1>6, Zenon DEF Sound, Owned, Fits, Held
  <2>2. Takes(s, {c}, t)
    BY <1>1, <1>3, <1>6 DEF Takes, Held
  <2> QED
    BY <1>3, <1>6, <2>1, <2>2 DEF Handles
<1>7. CASE t \in TearDown(bad, "connect")
  <2>1. Owned(bad) /\ "connect" \in Details
    BY <1>4, <1>5 DEF Owned, Held, Details
  <2>2. Handles(bad, {}, t) /\ t.state \in {"Connecting", "Failed"}
    BY <1>4, <1>7, <2>1, TearDownFacts
  <2>3. Takes(s, {c}, t) /\ t.pending \subseteq {c}
    BY <1>1, <1>4, <2>2 DEF Handles, Takes, Held
  <2> QED
    BY <2>2, <2>3 DEF Handles
<1> QED
  BY <1>2, <1>6, <1>7

(* A handler of a channel that is connecting has cancelled the timer and   *)
(* knows what became of the socket.                                        *)
Answered(s, sock) == [s EXCEPT !.connect_timer = FALSE, !.sock = sock]

LEMMA AnsweredFacts ==
  ASSUME NEW s, Sound(s), s.state = "Connecting",
         NEW sock \in Sockets
  PROVE  LET t == Answered(s, sock) IN
         /\ t \in Channels /\ Owned(t) /\ Held(t) = Held(s) /\ t.call = s.call
         /\ t.state = "Connecting" /\ t.pending = s.pending /\ t.active = {}
         /\ t.sock = sock /\ ~t.connect_timer /\ t.keepalive_timer = "none"
<1> DEFINE t == Answered(s, sock)
<1>1. /\ t \in Channels /\ t.state = s.state /\ t.call = s.call /\ t.pending = s.pending
      /\ t.active = s.active /\ t.h2 = s.h2 /\ t.sock = sock /\ ~t.connect_timer
      /\ t.keepalive_timer = s.keepalive_timer
  BY ZenonT(30) DEF Sound, Channels, Sockets, Answered
<1> HIDE DEF t
<1>2. /\ t \in Channels /\ Owned(t) /\ Held(t) = Held(s) /\ t.call = s.call
      /\ t.state = "Connecting" /\ t.pending = s.pending /\ t.active = {}
      /\ t.sock = sock /\ ~t.connect_timer /\ t.keepalive_timer = "none"
  BY <1>1 DEF Sound, Owned, Fits, Held, NoSession
<1> QED
  BY <1>2 DEF t

(* The connection attempt ends without a session. *)
LEMMA ConnectFails ==
  ASSUME NEW s, Sound(s), s.state = "Connecting",
         NEW sock \in Sockets, NEW detail \in Details,
         NEW t \in TearDown(Answered(s, sock), detail)
  PROVE  Handles(s, {}, t) /\ t.state = "Failed"
<1> DEFINE a == Answered(s, sock)
<1>1. /\ a \in Channels /\ Owned(a) /\ Held(a) = Held(s) /\ a.call = s.call
      /\ a.state = "Connecting" /\ a.pending = s.pending
  BY AnsweredFacts
<1> HIDE DEF a
<1>2. Handles(a, {}, t) /\ t.state = "Failed"
  BY <1>1, TearDownFacts DEF a
<1> QED
  BY <1>1, <1>2 DEF Handles, Takes

(* The pending calls are handed to the session. *)
LEMMA SubmitPendingFacts ==
  ASSUME NEW s, Sound(s), s.state \in {"Ready", "Failed"},
         NEW t \in Submit([s EXCEPT !.pending = {}], s.pending)
  PROVE  Handles(s, {}, t) /\ t.pending = {} /\ t.state = s.state
<1> DEFINE p == [s EXCEPT !.pending = {}]
<1>1. PICK refused : t = SubmitCalls(p, s.pending, refused)
  BY DEF Submit
<1>2. s \in Channels /\ s.pending \in SUBSET Calls
  BY DEF Sound, Channels
<1>3. /\ p \in Channels /\ p.pending = {} /\ p.active = s.active /\ p.call = s.call
      /\ p.state = s.state /\ p.h2 = s.h2 /\ p.watch = s.watch /\ p.sock = s.sock
      /\ p.connect_timer = s.connect_timer /\ p.keepalive_timer = s.keepalive_timer
  BY <1>2 DEF Channels, Sockets
<1> HIDE DEF p
<1>4. Sound(p) /\ Held(p) = s.active
  BY <1>3 DEF Sound, Owned, Fits, Held
<1>5. /\ s.pending # {} => p.state = "Ready"
      /\ s.pending \cap Held(p) = {} /\ \A c \in s.pending : p.call[c].st # "Closed"
  BY <1>3, <1>4 DEF Sound, Owned, Fits, Held
<1>6. Handles(p, s.pending, t) /\ t.pending = {} /\ t.state = s.state
  BY <1>1, <1>2, <1>3, <1>4, <1>5, SubmitCallsFacts
<1> QED
  BY <1>3, <1>4, <1>6 DEF Handles, Takes, Held

(* StartSession, of a connection attempt that has succeeded. *)
LEMMA StartSessionFacts ==
  ASSUME NEW s, Sound(s), s.state = "Connecting",
         NEW t \in StartSession(Answered(s, "Connected"))
  PROVE  Handles(s, {}, t) /\ t.pending = {} /\ t.state \in {"Ready", "Failed"}
<1> DEFINE a == Answered(s, "Connected")
           up == [a EXCEPT !.h2 = NewSession, !.watch = "session", !.state = "Ready"]
<1>1. /\ a \in Channels /\ Held(a) = Held(s) /\ a.call = s.call /\ a.active = {}
      /\ a.pending = s.pending /\ a.sock = "Connected" /\ ~a.connect_timer
      /\ \A c \in Held(a) : a.call[c].st # "Closed"
  BY AnsweredFacts DEF Owned, Sockets
<1> HIDE DEF a
<1>2. NewSession \in Sessions /\ NewSession.streams = {} /\ NewSession.live
  BY Zenon DEF NewSession, NoSession, Sessions, Details
<1>3. /\ up \in Channels /\ up.state = "Ready" /\ up.h2 = NewSession
      /\ up.watch = "session" /\ up.sock = "Connected" /\ ~up.connect_timer
      /\ up.pending = a.pending /\ up.active = {} /\ up.call = a.call
  BY <1>1, <1>2, Zenon DEF Channels, Sockets
<1>4. CASE \E e \in {"session"} \cap Faults : t \in TearDown(a, e)
  <2>1. "session" \in Details /\ t \in TearDown(Answered(s, "Connected"), "session")
    BY <1>4 DEF Details, SessionErrors, a
  <2>2. Handles(s, {}, t) /\ t.state = "Failed"
    BY <2>1, ConnectFails DEF Sockets
  <2> QED
    BY <2>2 DEF Handles, Sound, Fits
<1>5. CASE \E r \in Rearmed(FlushOutput(up)) :
             \E p \in Submit([r EXCEPT !.pending = {}], r.pending) : t \in FlushOutput(p)
  <2>1. PICK r \in Rearmed(FlushOutput(up)) :
               \E p \in Submit([r EXCEPT !.pending = {}], r.pending) : t \in FlushOutput(p)
    BY <1>5, Zenon
  <2>2. PICK p \in Submit([r EXCEPT !.pending = {}], r.pending) : t \in FlushOutput(p)
    BY <2>1
  <2>3. PICK o \in FlushOutput(up) : r = RearmKeepalive(o)
    BY <2>1 DEF Rearmed
  <2> HIDE DEF up
  <2>4. Sound(up) /\ Held(up) = Held(s) /\ up.call = s.call /\ up.pending = s.pending
    BY <1>1, <1>2, <1>3 DEF Sound, Owned, Fits, Held
  <2>5. Handles(up, {}, o) /\ o.state \in {"Ready", "Failed"}
    BY <1>3, <2>4, FlushOutputFacts
  <2>6. Handles(o, {}, r) /\ r.state \in {"Ready", "Failed"}
    BY <2>3, <2>5, RearmFacts DEF Handles
  <2>7. Handles(r, {}, p) /\ p.pending = {} /\ p.state \in {"Ready", "Failed"}
    BY <2>2, <2>6, SubmitPendingFacts DEF Handles
  <2>8. Handles(p, {}, t) /\ t.state \in {"Ready", "Failed"}
    BY <2>2, <2>7, FlushOutputFacts DEF Handles
  <2>9. Handles(up, {}, t)
    BY <2>5, <2>6, <2>7, <2>8, HandlesThen
  <2>10. t.pending = {}
    BY <2>7, <2>8 DEF Handles
  <2>11. Handles(s, {}, t)
    BY <2>4, <2>8, <2>9 DEF Handles, Takes
  <2> QED
    BY <2>8, <2>10, <2>11
<1> QED
  BY <1>4, <1>5, ZenonT(30) DEF StartSession, Each, a

(* Calls wait only for a connection. *)
PendingFits(s) == s.pending # {} => s.state = "Connecting"

(* HandleNewCall takes the call over, or answers it. *)
LEMMA HandleNewCallFacts ==
  ASSUME NEW s, Sound(s), PendingFits(s), NEW c \in Calls \ Held(s),
         s.call[c].st # "Closed", NEW t \in HandleNewCall(s, c)
  PROVE  Handles(s, {c}, t) /\ PendingFits(t)
<1>1. s \in Channels
  BY DEF Sound
<1>2. ASSUME NEW detail \in Details, t = FailAll(s, {c}, detail)
      PROVE  Handles(s, {c}, t) /\ PendingFits(t)
  <2>1. Fails(s, {c}, detail, t)
    BY <1>1, <1>2, FailAllFacts
  <2>2. Held(t) = Held(s) /\ \A d \in Held(t) : t.call[d].st # "Closed"
    BY <1>1, <2>1 DEF Fails, SameFrame, Held, Sound, Owned, Channels
  <2>3. Sound(t)
    BY <2>1, <2>2 DEF Fails, SameFrame, Sound, Owned, Fits
  <2>4. Takes(s, {c}, t)
    BY <2>1, <2>2 DEF Fails, Takes
  <2> QED
    BY <2>1, <2>3, <2>4 DEF Handles, Fails, SameFrame, PendingFits
<1>3. CASE s.state \in {"Shutdown", "Failed"}
  <2>1. "shut down" \in Details /\ s.detail \in Details
    BY <1>1, ZenonT(30) DEF Channels, Details
  <2> QED
    BY <1>2, <1>3, <2>1, Zenon DEF HandleNewCall
<1>4. CASE s.state = "Idle"
  <2>1. t \in StartConnecting([s EXCEPT !.pending = @ \cup {c}])
    BY <1>4 DEF HandleNewCall
  <2>2. Handles(s, {c}, t) /\ t.state \in {"Connecting", "Failed"}
    BY <1>4, <2>1, StartConnectingFacts
  <2> QED
    BY <2>2 DEF Handles, Sound, Fits, PendingFits
<1>5. CASE s.state = "Connecting"
  <2>1. t = [s EXCEPT !.pending = @ \cup {c}]
    BY <1>5 DEF HandleNewCall
  <2>2. /\ t \in Channels /\ t.state = "Connecting" /\ t.pending = s.pending \cup {c}
        /\ t.active = s.active /\ t.h2 = s.h2 /\ t.watch = s.watch /\ t.call = s.call
        /\ t.connect_timer = s.connect_timer /\ t.keepalive_timer = s.keepalive_timer
    BY <1>1, <1>5, <2>1 DEF Channels, Sockets
  <2>3. Sound(t)
    BY <1>5, <2>2 DEF Sound, Owned, Fits, Held
  <2>4. Takes(s, {c}, t)
    BY <2>2 DEF Takes, Held
  <2> QED
    BY <1>5, <2>2, <2>3, <2>4 DEF Handles, PendingFits
<1>6. CASE s.state = "Ready"
  <2>1. PICK refused, u : u = SubmitCalls(s, {c}, refused) /\ t \in FlushOutput(u)
    BY <1>6 DEF HandleNewCall, Each, Submit
  <2>2. Handles(s, {c}, u) /\ u.pending = {}
    BY <1>6, <2>1, SubmitCallsFacts DEF PendingFits
  <2>3. Handles(u, {}, t)
    BY <2>1, <2>2, FlushOutputFacts, Zenon DEF Handles
  <2> QED
    BY <2>2, <2>3, HandlesThen DEF Handles, PendingFits
<1> QED
  BY <1>1, <1>3, <1>4, <1>5, <1>6 DEF Channels, Sockets

(* What DoShutdown makes of a channel. *)
ShutsDown(s, t) ==
  /\ Sound(t) /\ t.state = "Shutdown" /\ Takes(s, {}, t) /\ Held(t) = {}
  /\ s.state # "Shutdown" => \A c \in Held(s) :
       t.call[c] = [st |-> "Closed", code |-> "Unavailable", msg |-> "shut down"]

(* DoShutdown answers every call, all of them alike. *)
LEMMA DoShutdownFacts ==
  ASSUME NEW s, Sound(s), NEW ends
  PROVE  ShutsDown(s, DoShutdown(s, ends))
<1>1. s \in Channels /\ Held(s) \in SUBSET Calls
  BY DEF Sound, Channels, Held
<1>2. CASE s.state = "Shutdown"
  <2>1. DoShutdown(s, ends) = s /\ Held(s) = {}
    BY <1>2 DEF DoShutdown, Held, Sound, Owned, Fits, NoSession
  <2> QED
    BY <1>2, <2>1 DEF ShutsDown, Takes
<1>3. CASE s.state # "Shutdown"
  <2> DEFINE u == [s EXCEPT !.state = "Shutdown", !.active = {}, !.pending = {},
                            !.connect_timer = FALSE, !.keepalive_timer = "none",
                            !.watch = "none"]
             r == FailAll(u, Held(s), "shut down")
             w == CloseStreams(r, ends)
             t == [w EXCEPT !.sock = IF @ = "Failed" THEN @ ELSE "Closed", !.h2 = NoSession]
  <2>1. DoShutdown(s, ends) = t
    <3>1. s.active \cup s.pending = Held(s)
      BY DEF Held
    <3> QED
      BY <1>3, <3>1, Zenon DEF DoShutdown
  <2>2. /\ u \in Channels /\ u.state = "Shutdown" /\ u.active = {} /\ u.pending = {}
        /\ ~u.connect_timer /\ u.keepalive_timer = "none" /\ u.watch = "none"
        /\ u.call = s.call /\ u.h2 = s.h2
    BY <1>1, ZenonT(30) DEF Channels, Sockets
  <2> HIDE DEF u
  <2>3. Fails(u, Held(s), "shut down", r)
    BY <1>1, <2>2, FailAllFacts, Zenon DEF Details
  <2> HIDE DEF r
  <2>4. Closes(r, ends \cap r.h2.streams, w)
    BY <2>3, CloseStreamsFacts, Zenon DEF Fails
  <2> HIDE DEF w
  <2>5. NoSession \in Sessions /\ NoSession.streams = {}
    BY DEF NoSession, Sessions, Details
  <2>6. w \in Channels
    BY <2>4 DEF Closes
  <2>7. /\ t \in Channels /\ t.h2 = NoSession /\ t.state = w.state /\ t.active = w.active
        /\ t.pending = w.pending /\ t.connect_timer = w.connect_timer /\ t.watch = w.watch
        /\ t.keepalive_timer = w.keepalive_timer /\ t.call = w.call
    BY <2>5, <2>6, ZenonT(30) DEF Channels, Sockets
  <2> HIDE DEF t
  <2>8. /\ w.state = "Shutdown" /\ w.active = {} /\ w.pending = {}
        /\ ~w.connect_timer /\ w.keepalive_timer = "none" /\ w.watch = "none"
    BY <2>2, <2>3, <2>4, Zenon DEF Fails, Closes, SameFrame
  <2>9. Sound(t) /\ Held(t) = {}
    BY <2>5, <2>7, <2>8 DEF Sound, Owned, Fits, Held
  <2>10. \A c \in Held(s) : t.call[c].st = "Closed" /\
           t.call[c] = [st |-> "Closed", code |-> "Unavailable", msg |-> "shut down"]
    <3>1. \A c \in Held(s) : c \in Calls /\ u.call[c].st # "Closed"
      BY <1>1, <2>2 DEF Sound, Owned
    <3>2. \A c \in Held(s) : r.call[c].st = "Closed" /\
            r.call[c] = [st |-> "Closed", code |-> "Unavailable", msg |-> "shut down"]
      BY <2>3, <3>1, ZenonT(30) DEF Fails
    <3>3. \A c \in Held(s) : w.call[c] = r.call[c]
      BY <2>4, <3>1, <3>2, Zenon DEF Closes
    <3>4. \A c \in Held(s) : t.call[c] = r.call[c]
      BY <2>7, <3>3
    <3>5. \A c \in Held(s) : t.call[c].st = "Closed"
      BY <3>2, <3>4, Zenon
    <3>6. \A c \in Held(s) :
            t.call[c] = [st |-> "Closed", code |-> "Unavailable", msg |-> "shut down"]
      BY <3>2, <3>4, Zenon
    <3> QED
      BY <3>5, <3>6, Zenon
  <2>11. \A c \in Calls \ Held(s) : t.call[c] = s.call[c]
    <3>1. r.h2.streams \subseteq Held(s)
      BY <2>2, <2>3, ZenonT(30) DEF Fails, Sound, Owned, Held
    <3>2. \A c \in Calls \ Held(s) : r.call[c] = s.call[c]
      BY <2>2, <2>3, Zenon DEF Fails
    <3>3. \A c \in Calls \ Held(s) : w.call[c] = r.call[c]
      BY <2>4, <3>1, Zenon DEF Closes
    <3> QED
      BY <2>7, <3>2, <3>3, Zenon
  <2>12. Takes(s, {}, t)
    BY <2>9, <2>10, <2>11, Zenon DEF Takes
  <2> QED
    BY <2>1, <2>7, <2>8, <2>9, <2>10, <2>12, Zenon DEF ShutsDown
<1> QED
  BY <1>2, <1>3

----------------------------------------------------------------------------
(* The channel with its queue and its threads *)

(* x is in the queue q. *)
In(q, x) == \E i \in DOMAIN q : q[i] = x

TypeInv ==
  /\ ch \in Channels /\ ops \in Seq(Calls \cup {DoShutdownOp})
  /\ stop_requested \in BOOLEAN /\ loop \in {"running", "exited", "failed"}
  /\ caller \in [Calls -> {"start", "waiting", "done"}]
  /\ shutter \in [Shutdowners -> {"start", "waiting", "joining", "done"}]
  /\ shutdown_done \in BOOLEAN /\ finished \in BOOLEAN /\ silent \in BOOLEAN

(* A call is queued once, before the channel holds it, and neither before  *)
(* it is made nor after it is answered.                                    *)
QueueInv ==
  /\ \A i, j \in DOMAIN ops : ops[i] = ops[j] /\ ops[i] \in Calls => i = j
  /\ \A c \in Calls :
       /\ caller[c] = "start" => /\ ~In(ops, c) /\ c \notin Held(ch)
                                 /\ ch.call[c].st # "Closed"
       /\ In(ops, c) => /\ caller[c] = "waiting" /\ c \notin Held(ch)
                        /\ ch.call[c].st # "Closed"
       /\ c \in Held(ch) => caller[c] = "waiting"
       /\ Unanswered(c) => In(ops, c) \/ c \in Held(ch)

(* How far a shutdown has come. *)
ShutdownInv ==
  /\ loop = "failed" => ops = <<>> /\ ch.state = "Failed"
  /\ loop = "exited" => ops = <<>> /\ stop_requested
  /\ stop_requested => finished
  /\ finished => ch.state = "Shutdown"
  /\ finished \/ In(ops, DoShutdownOp) => shutdown_done
  /\ shutdown_done => \/ loop # "running"
                      \/ \E t \in Shutdowners : shutter[t] \in {"waiting", "joining"}
  /\ \A t \in Shutdowners : shutter[t] = "done" => loop # "running"

ChInv ==
  TypeInv /\ Sound(ch) /\ PendingFits(ch) /\ QueueInv /\ ShutdownInv

(* Appending to a queue, and taking its head. *)
LEMMA AppendFacts ==
  ASSUME NEW X, NEW q \in Seq(X), NEW x \in X
  PROVE  /\ Append(q, x) \in Seq(X) /\ DOMAIN Append(q, x) = 1..(Len(q) + 1)
         /\ \A i \in 1..(Len(q) + 1) : Append(q, x)[i] = IF i = Len(q) + 1 THEN x ELSE q[i]
         /\ \A y : In(Append(q, x), y) <=> In(q, y) \/ y = x
<1>1. /\ Append(q, x) \in Seq(X) /\ DOMAIN Append(q, x) = 1..(Len(q) + 1)
      /\ \A i \in 1..(Len(q) + 1) : Append(q, x)[i] = IF i = Len(q) + 1 THEN x ELSE q[i]
  OBVIOUS
<1>2. DOMAIN q = 1..Len(q) /\ Len(q) \in Nat
  OBVIOUS
<1>3. \A y : In(Append(q, x), y) <=> In(q, y) \/ y = x
  BY <1>1, <1>2 DEF In
<1> QED
  BY <1>1, <1>3

LEMMA TailFacts ==
  ASSUME NEW X, NEW q \in Seq(X), q # <<>>
  PROVE  /\ Tail(q) \in Seq(X) /\ Head(q) \in X /\ In(q, Head(q))
         /\ DOMAIN Tail(q) = 1..(Len(q) - 1) /\ Len(q) \in Nat /\ Len(q) > 0
         /\ \A i \in 1..(Len(q) - 1) : Tail(q)[i] = q[i + 1]
         /\ \A y : In(q, y) <=> In(Tail(q), y) \/ y = Head(q)
<1>1. /\ Tail(q) \in Seq(X) /\ Head(q) = q[1] /\ Len(q) \in Nat /\ Len(q) > 0
      /\ DOMAIN q = 1..Len(q) /\ Len(Tail(q)) = Len(q) - 1
      /\ \A i \in 1..(Len(q) - 1) : Tail(q)[i] = q[i + 1]
  OBVIOUS
<1>2. DOMAIN Tail(q) = 1..(Len(q) - 1) /\ 1 \in DOMAIN q /\ Head(q) \in X
  BY <1>1
<1>3. ASSUME NEW y, In(q, y), y # Head(q) PROVE In(Tail(q), y)
  <2>1. PICK i \in 1..Len(q) : q[i] = y
    BY <1>1, <1>3 DEF In
  <2>2. i - 1 \in 1..(Len(q) - 1) /\ i = (i - 1) + 1
    BY <1>1, <1>3, <2>1
  <2>3. Tail(q)[i - 1] = q[(i - 1) + 1]
    BY <1>1, <2>2
  <2> QED
    BY <1>2, <2>1, <2>2, <2>3 DEF In
<1>4. ASSUME NEW y, In(Tail(q), y) PROVE In(q, y)
  <2>1. PICK i \in 1..(Len(q) - 1) : Tail(q)[i] = y
    BY <1>2, <1>4 DEF In
  <2>2. i + 1 \in DOMAIN q /\ q[i + 1] = y
    BY <1>1, <2>1
  <2> QED
    BY <2>2 DEF In
<1>5. In(q, Head(q))
  BY <1>1, <1>2 DEF In
<1> QED
  BY <1>1, <1>2, <1>3, <1>4, <1>5

(* The head of the queue, if it is a call, is not queued again. *)
LEMMA QueuedOnce ==
  ASSUME TypeInv, QueueInv, ops # <<>>
  PROVE  /\ Head(ops) \in Calls => ~In(Tail(ops), Head(ops))
         /\ \A i, j \in DOMAIN Tail(ops) :
              Tail(ops)[i] = Tail(ops)[j] /\ Tail(ops)[i] \in Calls => i = j
<1>1. ops \in Seq(Calls \cup {DoShutdownOp})
  BY DEF TypeInv
<1>2. /\ DOMAIN Tail(ops) = 1..(Len(ops) - 1) /\ Len(ops) \in Nat /\ Len(ops) > 0
      /\ \A i \in 1..(Len(ops) - 1) : Tail(ops)[i] = ops[i + 1]
      /\ DOMAIN ops = 1..Len(ops) /\ Head(ops) = ops[1]
  BY <1>1, TailFacts
<1>3. \A i, j \in 1..Len(ops) : ops[i] = ops[j] /\ ops[i] \in Calls => i = j
  BY <1>2 DEF QueueInv
<1>4. \A i \in 1..(Len(ops) - 1) : i + 1 \in 1..Len(ops) /\ i + 1 # 1
  BY <1>2
<1>5. \A i, j \in 1..(Len(ops) - 1) : i + 1 = j + 1 => i = j
  OBVIOUS
<1>6. Head(ops) \in Calls => ~In(Tail(ops), Head(ops))
  BY <1>2, <1>3, <1>4 DEF In
<1> QED
  BY <1>2, <1>3, <1>4, <1>5, <1>6

(* A handler of the event thread, which takes the calls of S from the      *)
(* queue, keeps what is known of the calls.                                *)
LEMMA HandlerKeepsQueue ==
  ASSUME TypeInv, QueueInv, NEW S \in SUBSET Calls, Takes(ch, S, ch'), caller' = caller,
         \A c \in S : In(ops, c),
         \A c \in Calls : In(ops', c) <=> In(ops, c) /\ c \notin S,
         \A i, j \in DOMAIN ops' : ops'[i] = ops'[j] /\ ops'[i] \in Calls => i = j
  PROVE  QueueInv'
<1> SUFFICES ASSUME NEW c \in Calls
             PROVE  /\ caller[c] = "start" => /\ ~In(ops', c) /\ c \notin Held(ch')
                                              /\ ch'.call[c].st # "Closed"
                    /\ In(ops', c) => /\ caller[c] = "waiting" /\ c \notin Held(ch')
                                      /\ ch'.call[c].st # "Closed"
                    /\ c \in Held(ch') => caller[c] = "waiting"
                    /\ caller[c] = "waiting" /\ ch'.call[c].st # "Closed"
                         => In(ops', c) \/ c \in Held(ch')
  BY DEF QueueInv, Unanswered
<1>1. /\ caller[c] = "start" => /\ ~In(ops, c) /\ c \notin Held(ch)
                                /\ ch.call[c].st # "Closed"
      /\ In(ops, c) => /\ caller[c] = "waiting" /\ c \notin Held(ch)
                       /\ ch.call[c].st # "Closed"
      /\ c \in Held(ch) => caller[c] = "waiting"
      /\ caller[c] = "waiting" /\ ch.call[c].st # "Closed" => In(ops, c) \/ c \in Held(ch)
  BY DEF QueueInv, Unanswered
<1>2. CASE c \in Held(ch) \cup S
  <2>1. caller[c] = "waiting" /\ ~In(ops', c)
    BY <1>1, <1>2
  <2>2. c \in Held(ch') \/ ch'.call[c].st = "Closed"
    BY <1>2 DEF Takes
  <2> QED
    BY <2>1, <2>2
<1>3. CASE c \notin Held(ch) \cup S
  <2>1. c \notin Held(ch') /\ ch'.call[c] = ch.call[c] /\ (In(ops', c) <=> In(ops, c))
    BY <1>3 DEF Takes
  <2> QED
    BY <1>1, <1>3, <2>1
<1> QED
  BY <1>2, <1>3

(* A step that does not shut the channel down. *)
StaysUp == ch'.state = "Shutdown" => ch.state = "Shutdown"

(* A handler that leaves the queue alone keeps the invariant. *)
LEMMA HandlerKeepsInv ==
  ASSUME ChInv, EventThreadRuns, UNCHANGED <<ops, threads>>,
         Handles(ch, {}, ch'), PendingFits(ch')
  PROVE  ChInv' /\ StaysUp
<1>1. TypeInv'
  BY DEF ChInv, TypeInv, EventThreadRuns, threads, Handles, Sound
<1>2. QueueInv'
  <2>1. \A i, j \in DOMAIN ops' : ops'[i] = ops'[j] /\ ops'[i] \in Calls => i = j
    BY DEF ChInv, QueueInv
  <2>2. \A c \in Calls : In(ops', c) <=> In(ops, c) /\ c \notin {}
    BY SMTT(30)
  <2> QED
    BY <2>1, <2>2, HandlerKeepsQueue DEF ChInv, threads, Handles
<1>3. ShutdownInv'
  BY DEF ChInv, ShutdownInv, EventThreadRuns, threads, Handles, In
<1> QED
  BY <1>1, <1>2, <1>3 DEF ChInv, Handles, StaysUp

(* One lemma per handler. *)
LEMMA RunNewCallInv ==
  ASSUME ChInv, RunNewCall
  PROVE  ChInv' /\ StaysUp
<1> DEFINE c == Head(ops)
<1>1. /\ ops \in Seq(Calls \cup {DoShutdownOp}) /\ ops # <<>> /\ c # DoShutdownOp
      /\ ops' = Tail(ops) /\ ch' \in HandleNewCall(ch, c) /\ loop = "running"
      /\ UNCHANGED <<stop_requested, loop, silent, threads>>
  BY DEF ChInv, TypeInv, RunNewCall, EventThreadRuns
<1>2. /\ ops' \in Seq(Calls \cup {DoShutdownOp}) /\ c \in Calls /\ In(ops, c)
      /\ \A x : In(ops, x) <=> In(ops', x) \/ x = c
  BY <1>1, TailFacts
<1>3. /\ ~In(ops', c)
      /\ \A i, j \in DOMAIN ops' : ops'[i] = ops'[j] /\ ops'[i] \in Calls => i = j
  BY <1>1, <1>2, QueuedOnce DEF ChInv
<1> HIDE DEF c
<1>4. c \notin Held(ch) /\ ch.call[c].st # "Closed"
  BY <1>2 DEF ChInv, QueueInv
<1>5. Handles(ch, {c}, ch') /\ PendingFits(ch')
  BY <1>1, <1>2, <1>4, HandleNewCallFacts DEF ChInv
<1>6. TypeInv'
  BY <1>1, <1>2, <1>5 DEF ChInv, TypeInv, threads, Handles, Sound
<1>7. QueueInv'
  <2>1. \A x \in Calls : In(ops', x) <=> In(ops, x) /\ x \notin {c}
    BY <1>2, <1>3
  <2>2. {c} \in SUBSET Calls /\ \A x \in {c} : In(ops, x)
    BY <1>2
  <2> QED
    BY <1>1, <1>3, <1>5, <2>1, <2>2, HandlerKeepsQueue DEF ChInv, Handles, threads
<1>8. ShutdownInv'
  <2>1. In(ops', DoShutdownOp) => In(ops, DoShutdownOp)
    BY <1>2
  <2> QED
    BY <1>1, <1>5, <2>1 DEF ChInv, ShutdownInv, threads, Handles
<1> QED
  BY <1>5, <1>6, <1>7, <1>8 DEF ChInv, Handles, StaysUp

LEMMA RunShutdownInv ==
  ASSUME ChInv, RunShutdown
  PROVE  ChInv' /\ ShutsDown(ch, ch')
<1>1. /\ ops \in Seq(Calls \cup {DoShutdownOp}) /\ ops # <<>> /\ Head(ops) = DoShutdownOp
      /\ ops' = Tail(ops) /\ loop = "running" /\ finished' = TRUE
      /\ UNCHANGED <<stop_requested, loop, silent, caller, shutter, shutdown_done>>
  BY DEF ChInv, TypeInv, RunShutdown, EventThreadRuns
<1>2. /\ ops' \in Seq(Calls \cup {DoShutdownOp}) /\ In(ops, DoShutdownOp)
      /\ \A x : In(ops, x) <=> In(ops', x) \/ x = DoShutdownOp
  BY <1>1, TailFacts
<1>3. \A i, j \in DOMAIN ops' : ops'[i] = ops'[j] /\ ops'[i] \in Calls => i = j
  BY <1>1, QueuedOnce DEF ChInv
<1>4. ShutsDown(ch, ch')
  BY DoShutdownFacts DEF RunShutdown, ChInv
<1>5. TypeInv'
  BY <1>1, <1>2, <1>4, ZenonT(30) DEF ChInv, TypeInv, ShutsDown, Sound
<1>6. QueueInv'
  <2>1. \A x \in Calls : In(ops', x) <=> In(ops, x) /\ x \notin {}
    BY <1>2, CallsAssumption
  <2> QED
    BY <1>1, <1>3, <1>4, <2>1, HandlerKeepsQueue, Zenon DEF ChInv, ShutsDown
<1>7. ShutdownInv'
  BY <1>1, <1>2, <1>4, ZenonT(30) DEF ChInv, ShutdownInv, ShutsDown
<1>8. PendingFits(ch')
  BY <1>4, Zenon DEF ShutsDown, Held, PendingFits
<1> QED
  BY <1>4, <1>5, <1>6, <1>7, <1>8, Zenon DEF ChInv, ShutsDown

LEMMA ConnectTimeoutInv ==
  ASSUME ChInv, ConnectTimeout
  PROVE  ChInv' /\ StaysUp
<1>1. ch \in Channels /\ Sound(ch) /\ ch.state = "Connecting" /\ ch.sock \in Sockets
  BY Zenon DEF ChInv, Sound, Fits, Channels, ConnectTimeout
<1>2. [ch EXCEPT !.connect_timer = FALSE] = Answered(ch, ch.sock)
  BY <1>1, Zenon DEF Answered, Channels
<1>3. PICK sock \in Sockets : ch' \in TearDown(Answered(ch, sock), "connect timeout")
  BY <1>1, <1>2, Zenon DEF ConnectTimeout
<1>4. Handles(ch, {}, ch') /\ ch'.state = "Failed"
  BY <1>1, <1>3, ConnectFails, Zenon DEF Details
<1>5. PendingFits(ch')
  BY <1>4 DEF Handles, Sound, Fits, PendingFits
<1> QED
  BY <1>4, <1>5, HandlerKeepsInv, Zenon DEF ConnectTimeout

LEMMA OnConnectProgressInv ==
  ASSUME ChInv, OnConnectProgress
  PROVE  ChInv' /\ StaysUp
<1>1. ch \in Channels /\ Sound(ch) /\ ch.state = "Connecting"
  BY DEF ChInv, Sound, Fits, OnConnectProgress, Channels
<1>2. \A sock \in Sockets :
        [[ch EXCEPT !.connect_timer = FALSE] EXCEPT !.sock = sock] = Answered(ch, sock)
  BY <1>1 DEF Answered
<1>3. \/ ch' \in StartSession(Answered(ch, "Connected"))
      \/ ch' \in TearDown(Answered(ch, "Failed"), "connect") /\ "connect" \in Details
  BY <1>2 DEF OnConnectProgress, Sockets, Details
<1>4. Handles(ch, {}, ch') /\ PendingFits(ch')
  <2>1. CASE ch' \in StartSession(Answered(ch, "Connected"))
    BY <1>1, <2>1, StartSessionFacts DEF PendingFits
  <2>2. CASE ch' \in TearDown(Answered(ch, "Failed"), "connect") /\ "connect" \in Details
    <3>1. Handles(ch, {}, ch') /\ ch'.state = "Failed"
      BY <1>1, <2>2, ConnectFails DEF Sockets
    <3> QED
      BY <3>1 DEF Handles, Sound, Fits, PendingFits
  <2> QED
    BY <1>3, <2>1, <2>2
<1> QED
  BY <1>4, HandlerKeepsInv DEF OnConnectProgress

(* A handler of a ready channel, where no call waits for a connection. *)
LEMMA ReadyHandlerKeepsInv ==
  ASSUME ChInv, EventThreadRuns, UNCHANGED <<ops, threads>>, ch.state = "Ready",
         Handles(ch, {}, ch')
  PROVE  ChInv' /\ StaysUp
<1>1. PendingFits(ch')
  BY DEF ChInv, PendingFits, Handles
<1> QED
  BY <1>1, HandlerKeepsInv

(* Flushing and rearming end the handlers of a ready channel. *)
LEMMA FlushAndRearm ==
  ASSUME NEW s, NEW u, Handles(s, {}, u), NEW t \in Rearmed(FlushOutput(u))
  PROVE  Handles(s, {}, t)
<1>1. PICK o \in FlushOutput(u) : t = RearmKeepalive(o)
  BY DEF Rearmed
<1>2. Handles(u, {}, o)
  BY FlushOutputFacts DEF Handles
<1>3. Handles(o, {}, t)
  BY <1>1, <1>2, RearmFacts DEF Handles
<1> QED
  BY <1>2, <1>3, HandlesThen

LEMMA OnSocketReadyInv ==
  ASSUME ChInv, NEW f \in Frames \cup {Nothing}, NEW end \in Ends, OnSocketReady(f, end)
  PROVE  ChInv' /\ StaysUp
<1>1. Sound(ch) /\ ch.state = "Ready"
  BY DEF ChInv, Sound, Fits, OnSocketReady, Channels
<1>2. PICK u \in DrainSocket(ch, f, end) : ch' \in Rearmed(FlushOutput(u))
  BY DEF OnSocketReady, Rearmed, Each
<1>3. Handles(ch, {}, u)
  BY <1>1, DrainSocketFacts
<1>4. Handles(ch, {}, ch')
  BY <1>2, <1>3, FlushAndRearm
<1> QED
  BY <1>1, <1>4, ReadyHandlerKeepsInv DEF OnSocketReady

LEMMA KeepaliveFiresInv ==
  ASSUME ChInv, KeepaliveFires
  PROVE  ChInv' /\ StaysUp
<1> DEFINE t == [ch EXCEPT !.keepalive_timer = "none"]
<1>1. ch \in Channels /\ Sound(ch) /\ ch.state = "Ready"
  BY DEF ChInv, Sound, Fits, KeepaliveFires
<1>2. /\ t \in Channels /\ t.state = ch.state /\ t.pending = ch.pending
      /\ t.active = ch.active /\ t.h2 = ch.h2 /\ t.call = ch.call /\ t.sock = ch.sock
      /\ t.watch = ch.watch /\ t.connect_timer = ch.connect_timer
  BY <1>1 DEF Channels
<1>3. \/ ch' \in TearDown(t, "keepalive") /\ "keepalive" \in Details
      \/ \E idle : \E u \in SendPing(t, idle) : ch' \in Rearmed(FlushOutput(u))
  <2>1. \/ ch' \in TearDown(t, "keepalive")
        \/ \E idle : ch' \in Rearmed(Each(SendPing(t, idle), FlushOutput))
    BY ZenonT(30) DEF KeepaliveFires
  <2>2. "keepalive" \in Details
    BY DEF Details
  <2> HIDE DEF t
  <2>3. ASSUME NEW idle, ch' \in Rearmed(Each(SendPing(t, idle), FlushOutput))
        PROVE  \E u \in SendPing(t, idle) : ch' \in Rearmed(FlushOutput(u))
    BY <2>3 DEF Rearmed, Each
  <2> QED
    BY <2>1, <2>2, <2>3, Zenon
<1> HIDE DEF t
<1>4. Sound(t) /\ Handles(ch, {}, t) /\ t.state = "Ready"
  BY <1>1, <1>2 DEF Sound, Owned, Fits, Held, Handles, Takes
<1>5. Handles(t, {}, ch')
  <2>1. CASE ch' \in TearDown(t, "keepalive") /\ "keepalive" \in Details
    BY <1>2, <1>4, <2>1, TearDownFacts DEF Sound
  <2>2. CASE \E idle : \E u \in SendPing(t, idle) : ch' \in Rearmed(FlushOutput(u))
    <3>1. PICK idle, u : u \in SendPing(t, idle) /\ ch' \in Rearmed(FlushOutput(u))
      BY <2>2
    <3>2. Handles(t, {}, u)
      BY <1>4, <3>1, SendPingFacts
    <3> QED
      BY <3>1, <3>2, FlushAndRearm
  <2> QED
    BY <1>3, <2>1, <2>2
<1>6. Handles(ch, {}, ch')
  BY <1>4, <1>5, HandlesThen, SMTT(30)
<1> QED
  BY <1>1, <1>6, ReadyHandlerKeepsInv DEF KeepaliveFires

LEMMA LoopExitInv ==
  ASSUME ChInv, LoopExit
  PROVE  ChInv' /\ StaysUp
BY DEF ChInv, LoopExit, TypeInv, QueueInv, ShutdownInv, In, Unanswered, threads, StaysUp

----------------------------------------------------------------------------
(* The caller threads *)

(* A thread fails its own call, which nobody else knows. *)
LEMMA CallerFails ==
  ASSUME NEW s, Sound(s), NEW c \in Calls \ Held(s), NEW code \in Codes, NEW msg \in Details
  PROVE  LET t == [s EXCEPT !.call[c] = FailLocal(@, code, msg)] IN
         /\ Sound(t) /\ SameFrame(s, t) /\ Held(t) = Held(s) /\ t.call[c].st = "Closed"
         /\ \A d \in Calls \ {c} : t.call[d] = s.call[d]
<1> DEFINE f == [s.call EXCEPT ![c] = FailLocal(@, code, msg)]
           t == [s EXCEPT !.call[c] = FailLocal(@, code, msg)]
<1>1. s \in Channels /\ s.call \in [Calls -> CallRecords]
  BY DEF Sound, Channels
<1>2. f \in [Calls -> CallRecords] /\ f[c].st = "Closed"
      /\ \A d \in Calls \ {c} : f[d] = s.call[d]
  BY <1>1, FailLocalFacts
<1>3. t = [s EXCEPT !.call = f]
  BY <1>1 DEF Channels
<1> HIDE DEF f, t
<1>4. t \in Channels /\ SameFrame(s, t) /\ t.active = s.active /\ t.h2 = s.h2 /\ t.call = f
  BY <1>1, <1>2, <1>3 DEF Channels, SameFrame
<1>5. Held(t) = Held(s) /\ Held(s) \subseteq Calls
  BY <1>1, <1>4 DEF Held, SameFrame, Channels
<1>6. Sound(t)
  BY <1>2, <1>4, <1>5 DEF Sound, Owned, Fits, SameFrame
<1> QED
  BY <1>2, <1>4, <1>5, <1>6 DEF t

(* UnaryCall's call is nobody's yet. *)
LEMMA UnaryCallInv ==
  ASSUME ChInv, NEW c \in Calls, UnaryCall(c)
  PROVE  ChInv' /\ StaysUp
<1>1. /\ caller \in [Calls -> {"start", "waiting", "done"}] /\ caller[c] = "start"
      /\ c \notin Held(ch) /\ ~In(ops, c) /\ ch.call[c].st # "Closed"
      /\ UNCHANGED <<stop_requested, loop, shutter, shutdown_done, finished, silent>>
  BY ZenonT(30) DEF ChInv, TypeInv, QueueInv, UnaryCall
<1>2. ASSUME NEW code \in Codes, NEW msg \in Details, NEW w \in {"waiting", "done"},
             ch' = [ch EXCEPT !.call[c] = FailLocal(@, code, msg)],
             caller' = [caller EXCEPT ![c] = w], ops' = ops
      PROVE  ChInv' /\ StaysUp
  <2>1. /\ Sound(ch') /\ SameFrame(ch, ch') /\ Held(ch') = Held(ch)
        /\ ch'.call[c].st = "Closed" /\ \A d \in Calls \ {c} : ch'.call[d] = ch.call[d]
    BY <1>1, <1>2, CallerFails DEF ChInv
  <2>2. /\ caller' \in [Calls -> {"start", "waiting", "done"}] /\ caller'[c] = w
        /\ \A d \in Calls \ {c} : caller'[d] = caller[d]
    BY <1>1, <1>2
  <2>3. TypeInv'
    BY <1>1, <1>2, <2>1, <2>2 DEF ChInv, TypeInv, Sound
  <2>4. QueueInv'
    <3>1. \A d \in Calls : In(ops', d) <=> In(ops, d)
      BY <1>2
    <3> QED
      BY <1>1, <1>2, <2>1, <2>2, <3>1 DEF ChInv, QueueInv, Unanswered
  <2>5. ShutdownInv' /\ PendingFits(ch')
    BY <1>1, <1>2, <2>1 DEF ChInv, ShutdownInv, PendingFits, SameFrame, In
  <2> QED
    BY <2>1, <2>3, <2>4, <2>5 DEF ChInv, StaysUp, SameFrame
<1>3. ASSUME loop # "failed", ~stop_requested, ops' = Append(ops, c), ch' = ch,
             caller' = [caller EXCEPT ![c] = "waiting"]
      PROVE  ChInv' /\ StaysUp
  <2>1. ops \in Seq(Calls \cup {DoShutdownOp}) /\ c \in Calls \cup {DoShutdownOp}
    BY DEF ChInv, TypeInv
  <2>2. /\ ops' \in Seq(Calls \cup {DoShutdownOp}) /\ DOMAIN ops' = 1..(Len(ops) + 1)
        /\ \A i \in 1..(Len(ops) + 1) : ops'[i] = IF i = Len(ops) + 1 THEN c ELSE ops[i]
        /\ \A y : In(ops', y) <=> In(ops, y) \/ y = c
        /\ DOMAIN ops = 1..Len(ops) /\ Len(ops) \in Nat
    BY <1>3, <2>1, AppendFacts, SMTT(30)
  <2>3. /\ caller' \in [Calls -> {"start", "waiting", "done"}] /\ caller'[c] = "waiting"
        /\ \A d \in Calls \ {c} : caller'[d] = caller[d]
    BY <1>1, <1>3, SMTT(30)
  <2>4. TypeInv'
    BY <1>1, <1>3, <2>2, <2>3, SMTT(30) DEF ChInv, TypeInv
  <2>5. QueueInv'
    <3>1. \A i, j \in DOMAIN ops' : ops'[i] = ops'[j] /\ ops'[i] \in Calls => i = j
      BY <1>1, <2>2 DEF ChInv, QueueInv, In
    <3> QED
      BY <1>1, <1>3, <2>2, <2>3, <3>1, SMTT(30) DEF ChInv, QueueInv, Unanswered
  <2>6. ShutdownInv'
    BY <1>1, <1>3, <2>2, CallsAssumption DEF ChInv, ShutdownInv
  <2> QED
    BY <1>3, <2>4, <2>5, <2>6 DEF ChInv, StaysUp
<1>4. "ResourceExhausted" \in Codes /\ "Unavailable" \in Codes
      /\ {"too large", "start", "shut down"} \subseteq Details
  BY DEF Codes, Details
<1> QED
  BY <1>2, <1>3, <1>4, Zenon DEF UnaryCall

LEMMA UnaryReturnInv ==
  ASSUME ChInv, NEW c \in Calls, UnaryReturn(c)
  PROVE  ChInv' /\ StaysUp
<1>1. /\ caller \in [Calls -> {"start", "waiting", "done"}] /\ ch.call[c].st = "Closed"
      /\ caller' = [caller EXCEPT ![c] = "done"] /\ caller[c] = "waiting"
      /\ UNCHANGED <<ch, ops, stop_requested, loop, shutter, shutdown_done, finished, silent>>
  BY DEF ChInv, TypeInv, UnaryReturn
<1>2. /\ caller' \in [Calls -> {"start", "waiting", "done"}] /\ caller'[c] = "done"
      /\ \A d \in Calls \ {c} : caller'[d] = caller[d]
  BY <1>1
<1>3. TypeInv'
  BY <1>1, <1>2, SMTT(30) DEF ChInv, TypeInv
<1>4. QueueInv'
  <2>1. c \notin Held(ch)
    BY <1>1 DEF ChInv, Sound, Owned
  <2>2. \A d \in Calls : In(ops', d) <=> In(ops, d)
    BY <1>1
  <2> QED
    BY <1>1, <1>2, <2>1, <2>2 DEF ChInv, QueueInv, Unanswered
<1>5. ShutdownInv'
  BY <1>1 DEF ChInv, ShutdownInv, In
<1> QED
  BY <1>1, <1>3, <1>4, <1>5 DEF ChInv, StaysUp

LEMMA ShutdownStepInv ==
  ASSUME ChInv, NEW t \in Shutdowners, Shutdown(t)
  PROVE  ChInv' /\ StaysUp
<1>1. /\ shutter \in [Shutdowners -> {"start", "waiting", "joining", "done"}]
      /\ \A u \in Shutdowners : shutter[u] \in {"start", "done"}
      /\ shutdown_done' = TRUE
      /\ UNCHANGED <<ch, stop_requested, loop, caller, finished, silent>>
  BY DEF ChInv, TypeInv, Shutdown
<1>2. CASE shutdown_done \/ loop = "failed"
  <2>1. ops' = ops /\ shutter' = [shutter EXCEPT ![t] = "done"]
    BY <1>2 DEF Shutdown
  <2>2. loop # "running"
    BY <1>1, <1>2 DEF ChInv, ShutdownInv
  <2>3. TypeInv'
    BY <1>1, <2>1, SMTT(30) DEF ChInv, TypeInv
  <2>4. QueueInv'
    BY <1>1, <2>1 DEF ChInv, QueueInv, Unanswered, In
  <2>5. ShutdownInv'
    BY <1>1, <2>1, <2>2 DEF ChInv, ShutdownInv, In
  <2> QED
    BY <1>1, <2>3, <2>4, <2>5 DEF ChInv, StaysUp
<1>3. CASE ~shutdown_done /\ loop # "failed"
  <2>1. ops' = Append(ops, DoShutdownOp) /\ shutter' = [shutter EXCEPT ![t] = "waiting"]
    BY <1>3 DEF Shutdown
  <2>2. ops \in Seq(Calls \cup {DoShutdownOp})
    BY SMTT(30) DEF ChInv, TypeInv
  <2>3. /\ ops' \in Seq(Calls \cup {DoShutdownOp}) /\ DOMAIN ops' = 1..(Len(ops) + 1)
        /\ \A i \in 1..(Len(ops) + 1) : ops'[i] = IF i = Len(ops) + 1 THEN DoShutdownOp ELSE ops[i]
        /\ \A y : In(ops', y) <=> In(ops, y) \/ y = DoShutdownOp
        /\ DOMAIN ops = 1..Len(ops) /\ Len(ops) \in Nat
    BY <2>1, <2>2, AppendFacts
  <2>4. /\ shutter' \in [Shutdowners -> {"start", "waiting", "joining", "done"}]
        /\ shutter'[t] = "waiting" /\ \A u \in Shutdowners \ {t} : shutter'[u] = shutter[u]
    BY <1>1, <2>1
  <2>5. TypeInv'
    BY <1>1, <2>3, <2>4, SMTT(30) DEF ChInv, TypeInv
  <2>6. QueueInv'
    <3>1. \A i, j \in DOMAIN ops' : ops'[i] = ops'[j] /\ ops'[i] \in Calls => i = j
      BY <2>3, CallsAssumption DEF ChInv, QueueInv
    <3>2. \A c \in Calls : In(ops', c) <=> In(ops, c)
      BY <2>3, CallsAssumption
    <3> QED
      BY <1>1, <3>1, <3>2, SMTT(30) DEF ChInv, QueueInv, Unanswered
  <2>7. ShutdownInv'
    <3>1. loop = "running"
      BY <1>3 DEF ChInv, TypeInv, ShutdownInv
    <3> QED
      BY <1>1, <2>4, <3>1 DEF ChInv, ShutdownInv
  <2> QED
    BY <1>1, <2>5, <2>6, <2>7 DEF ChInv, StaysUp
<1> QED
  BY <1>2, <1>3

LEMMA ShutdownStopInv ==
  ASSUME ChInv, NEW t \in Shutdowners, ShutdownStop(t)
  PROVE  ChInv' /\ StaysUp
<1>1. /\ shutter \in [Shutdowners -> {"start", "waiting", "joining", "done"}]
      /\ shutter' = [shutter EXCEPT ![t] = "joining"] /\ finished /\ stop_requested' = TRUE
      /\ UNCHANGED <<ch, ops, loop, caller, shutdown_done, finished, silent>>
  BY DEF ChInv, TypeInv, ShutdownStop
<1>2. /\ shutter' \in [Shutdowners -> {"start", "waiting", "joining", "done"}]
      /\ shutter'[t] = "joining" /\ \A u \in Shutdowners \ {t} : shutter'[u] = shutter[u]
  BY <1>1, SMTT(30)
<1>3. TypeInv' /\ QueueInv'
  BY <1>1, <1>2 DEF ChInv, TypeInv, QueueInv, Unanswered, In
<1>4. ShutdownInv'
  BY <1>1, <1>2 DEF ChInv, ShutdownInv, In
<1> QED
  BY <1>1, <1>3, <1>4 DEF ChInv, StaysUp

LEMMA ShutdownReturnInv ==
  ASSUME ChInv, NEW t \in Shutdowners, ShutdownReturn(t)
  PROVE  ChInv' /\ StaysUp
<1>1. /\ shutter \in [Shutdowners -> {"start", "waiting", "joining", "done"}]
      /\ shutter' = [shutter EXCEPT ![t] = "done"] /\ loop = "exited"
      /\ UNCHANGED <<ch, ops, stop_requested, loop, caller, shutdown_done, finished, silent>>
  BY SMTT(30) DEF ChInv, TypeInv, ShutdownReturn
<1>2. TypeInv' /\ QueueInv'
  BY <1>1, ZenonT(30) DEF ChInv, TypeInv, QueueInv, Unanswered, In
<1>3. ShutdownInv'
  BY <1>1 DEF ChInv, ShutdownInv, In
<1> QED
  BY <1>1, <1>2, <1>3 DEF ChInv, StaysUp

----------------------------------------------------------------------------
(* The theorems *)

(* A new channel. *)
LEMMA InitInv == Init => ChInv
<1> SUFFICES ASSUME Init PROVE ChInv
  OBVIOUS
<1>1. NoSession \in Sessions /\ NoSession.streams = {} /\ ~NoSession.live
  BY DEF NoSession, Sessions, Details
<1>2. NewCall \in CallRecords /\ NewCall.st # "Closed"
  BY DEF NewCall, CallRecords, Codes, Details
<1>3. PICK permit \in Permits :
        ch = [permit |-> permit, state |-> IF loop = "running" THEN "Idle" ELSE "Failed",
              detail |-> IF loop = "running" THEN "none" ELSE "start",
              pending |-> {}, active |-> {}, connect_timer |-> FALSE,
              keepalive_timer |-> "none", watch |-> "none", sock |-> "Idle",
              h2 |-> NoSession, call |-> [c \in Calls |-> NewCall]]
  BY Zenon DEF Init
<1>4. permit \in BOOLEAN
  BY PermitsAssumption, SMTT(30)
<1>5. ch \in Channels
  BY <1>1, <1>2, <1>3, <1>4, SMTT(30) DEF Channels, Sockets, Details
<1>6. /\ ch.pending = {} /\ ch.active = {} /\ ch.h2 = NoSession /\ ~ch.connect_timer
      /\ ch.watch = "none" /\ ch.keepalive_timer = "none" /\ ch.state \in {"Idle", "Failed"}
      /\ ch.state = "Failed" <=> loop # "running"
      /\ \A c \in Calls : ch.call[c].st # "Closed"
  BY <1>2, <1>3
<1>7. Sound(ch) /\ Held(ch) = {} /\ PendingFits(ch)
  BY <1>1, <1>5, <1>6 DEF Sound, Owned, Fits, Held, PendingFits
<1>8. /\ loop \in {"running", "failed"} /\ ops = <<>> /\ stop_requested = FALSE
      /\ caller = [c \in Calls |-> "start"] /\ shutter = [t \in Shutdowners |-> "start"]
      /\ shutdown_done = FALSE /\ finished = FALSE /\ silent = FALSE
  BY DEF Init
<1>9. TypeInv
  <2>1. <<>> \in Seq(Calls \cup {DoShutdownOp})
    OBVIOUS
  <2>2. /\ caller \in [Calls -> {"start", "waiting", "done"}]
        /\ shutter \in [Shutdowners -> {"start", "waiting", "joining", "done"}]
    BY <1>8
  <2>3. loop \in {"running", "exited", "failed"}
    BY <1>8, SMTT(30)
  <2> QED
    BY <1>5, <1>8, <2>1, <2>2, <2>3, Zenon DEF TypeInv
<1>10. QueueInv
  BY <1>6, <1>7, <1>8 DEF QueueInv, In, Unanswered
<1>11. ShutdownInv
  BY <1>6, <1>8 DEF ShutdownInv, In
<1> QED
  BY <1>7, <1>9, <1>10, <1>11 DEF ChInv

(* Every step keeps the invariant, and only RunShutdown shuts down. *)
LEMMA NextInv ==
  ASSUME ChInv, [Next]_vars
  PROVE  ChInv' /\ (StaysUp \/ ShutsDown(ch, ch'))
<1>1. CASE UNCHANGED vars
  BY <1>1 DEF vars, threads, ChInv, TypeInv, QueueInv, ShutdownInv, Unanswered, In, StaysUp
<1>2. CASE EventThreadStep
  BY <1>2, RunNewCallInv, RunShutdownInv, ConnectTimeoutInv, OnConnectProgressInv,
     OnSocketReadyInv, KeepaliveFiresInv, LoopExitInv DEF EventThreadStep
<1>3. CASE CallerStep
  BY <1>3, UnaryCallInv, UnaryReturnInv, ShutdownStepInv, ShutdownStopInv,
     ShutdownReturnInv, SMTT(30) DEF CallerStep
<1>4. CASE PeerHangs
  BY <1>4 DEF PeerHangs, threads, ChInv, TypeInv, QueueInv, ShutdownInv, Unanswered, In, StaysUp
<1> QED
  BY <1>1, <1>2, <1>3, <1>4, SMTT(30) DEF Next, Terminated

(* The inductive invariant. *)
THEOREM ChannelInvariance == Spec => []ChInv
BY InitInv, NextInv, PTL DEF Spec

(* For any number of callers and of threads that shut the channel down: a  *)
(* blocked caller's call is in the queue, or pending, or active, in one of *)
(* them once, and nothing holds a call that has its verdict.               *)
THEOREM EveryCallHasOneOwner == Spec => []OneOwner
<1>1. ChInv => OneOwner
  <2> SUFFICES ASSUME ChInv PROVE OneOwner
    OBVIOUS
  <2>1. ch.pending \cap ch.active = {} /\ ch.active = ch.h2.streams
    BY DEF ChInv, Sound, Owned
  <2>2. ASSUME NEW c \in Calls
        PROVE  /\ Unanswered(c) <=> Queued(c) \/ c \in Held(ch)
               /\ ~(Queued(c) /\ c \in Held(ch))
    BY DEF ChInv, QueueInv, Unanswered, Queued, In, Sound, Owned
  <2> QED
    BY <2>1, <2>2 DEF OneOwner, Held
<1> QED
  BY <1>1, ChannelInvariance, PTL

(* Timers, watch, socket and session are those of the channel's state,     *)
(* after every handler, however many calls it handled.                     *)
THEOREM ResourcesAlwaysMatch == Spec => []ResourcesMatchState
<1>1. ChInv => ResourcesMatchState
  BY SMTT(30) DEF ChInv, Sound, Fits, PendingFits, ResourcesMatchState, NoSession, Channels
<1> QED
  BY <1>1, ChannelInvariance, PTL

(* Once Shutdown() has returned to one thread no caller is blocked.        *)
THEOREM ShutdownLeavesNobody == Spec => []ShutdownUnblocksAll
<1>1. ChInv => ShutdownUnblocksAll
  <2> SUFFICES ASSUME ChInv, NEW t \in Shutdowners, shutter[t] = "done", NEW c \in Calls
               PROVE  ~Unanswered(c)
    BY DEF ShutdownUnblocksAll
  <2>1. ops = <<>> /\ ch.state \in {"Failed", "Shutdown"}
    BY DEF ChInv, TypeInv, ShutdownInv
  <2>2. ~In(ops, c)
    BY <2>1, SMTT(30) DEF In
  <2>3. Held(ch) = {}
    BY <2>1 DEF ChInv, Sound, Owned, Fits, Held, NoSession
  <2> QED
    BY <2>2, <2>3 DEF ChInv, QueueInv
<1> QED
  BY <1>1, ChannelInvariance, PTL

(* The step that shuts the channel down answers every call it still holds  *)
(* with UNAVAILABLE "channel is shut down".                                *)
THEOREM ShutdownAnswersAlike == Spec => ShutdownVerdict
<1>1. ChInv /\ [Next]_vars =>
        [ch.state # "Shutdown" /\ ch'.state = "Shutdown"
           => \A c \in ch.active \cup ch.pending :
                ch'.call[c] = [st |-> "Closed", code |-> "Unavailable",
                               msg |-> "shut down"]]_vars
  <2> SUFFICES ASSUME ChInv, [Next]_vars, ch.state # "Shutdown", ch'.state = "Shutdown"
               PROVE  \A c \in ch.active \cup ch.pending :
                        ch'.call[c] = [st |-> "Closed", code |-> "Unavailable",
                                       msg |-> "shut down"]
    BY Zenon
  <2>1. ShutsDown(ch, ch')
    BY NextInv DEF StaysUp
  <2> QED
    BY <2>1, ZenonT(30) DEF ShutsDown, Held
<1> QED
  BY <1>1, ChannelInvariance, PTL DEF ShutdownVerdict, Spec
=============================================================================
