----------------------------- MODULE SessionIo -----------------------------
(***************************************************************************)
(* The bytes of a ready channel: from nghttp2 through the output buffer of *)
(* Http2Session (src/transport/http2_session.cc), the writes of FlushOutput*)
(* (src/core/channel_impl.cc) and TlsSocket::Write to the peer, with the   *)
(* poll mask that decides when the event thread tries again.               *)
(*                                                                         *)
(* OpenSSL (external) encrypts up to RecordMax octets of a write into one  *)
(* record.  If the kernel has no room for all of it, the write wants to be *)
(* repeated, and the repetition, whatever octets it is given, finishes the *)
(* old record and reports its length.  That a write wants to read takes a  *)
(* renegotiation, which HTTP/2 forbids.                                    *)
(*                                                                         *)
(* A frame other than DATA is one octet, and so is each octet of a body.   *)
(***************************************************************************)
EXTENDS Integers, Sequences, Functions

CONSTANTS
  Streams,     \* requests
  BodyLength,  \* octets of a request's body
  RecordMax,   \* octets in a TLS record (16384)
  Room,        \* capacity of the kernel's send buffer
  Window,      \* octets of DATA the peer takes before it grants more
  MaxPings     \* bound: keepalive PINGs

VARIABLES
  control,   \* frames that nghttp2 has to send, HEADERS and DATA aside
  heads,     \* streams whose HEADERS it has to send
  offset,    \* body_offset of each stream, -1 before it is submitted
  window,    \* octets of DATA that nghttp2 may send
  out,       \* out_
  consumed,  \* out_consumed_
  record,    \* the record OpenSSL has not got rid of
  unsent,    \* how much of it the kernel has not taken
  filled,    \* octets in the kernel's send buffer
  inbound,   \* what the peer has sent
  step,      \* where the event thread is
  produced,  \* all that nghttp2 has produced
  wire,      \* all that went out in whole records
  pings      \* PINGs so far

h2 == <<control, heads, offset, window, out, consumed>>
ssl == <<record, unsent, wire>>
io_vars == <<h2, ssl, filled, inbound, step, produced, pings>>

Octet(kind, stream, n, end) == [kind |-> kind, stream |-> stream, n |-> n, end |-> end]
Control(kind) == Octet(kind, 0, 0, FALSE)
Headers(s) == Octet("headers", s, 0, FALSE)

(* After the constructor: SETTINGS are queued. *)
IoInit ==
  /\ control = <<Control("settings")>> /\ heads = <<>>
  /\ offset = [s \in Streams |-> -1]
  /\ window = Window /\ out = <<>> /\ consumed = 0
  /\ record = <<>> /\ unsent = 0 /\ filled = 0 /\ inbound = <<>>
  /\ step = "flush" /\ produced = <<>> /\ wire = <<>> /\ pings = 0

Pending == SubSeq(out, consumed + 1, Len(out))
GoingAway == Control("goaway") \in Range(control) \cup Range(produced)
MinOf(a, b) == IF a < b THEN a ELSE b
StartsWith(octets, front) ==
  Len(front) <= Len(octets) /\ SubSeq(octets, 1, Len(front)) = front

----------------------------------------------------------------------------

(* DataSourceRead: the next octets of a body, the last one with the end of *)
(* the stream.                                                             *)
DataSourceRead(s, length) ==
  [i \in 1..MinOf(length, BodyLength - offset[s]) |->
     Octet("data", s, offset[s] + i, offset[s] + i = BodyLength)]

(* Streams that have DATA to send. *)
Sendable == {s \in Streams : offset[s] \in 0 .. BodyLength - 1}

(* nghttp2_session_mem_send (external) returns a frame: of control frames  *)
(* the first, then HEADERS, then DATA, of any stream and as much as the    *)
(* window allows; after a GOAWAY of ours no HEADERS and no DATA.           *)
NothingToSend ==
  /\ control = <<>>
  /\ \/ GoingAway
     \/ heads = <<>> /\ (Sendable = {} \/ window = 0)

(* A chunk goes to the end of the buffer. *)
Emit(octets) == out' = out \o octets /\ produced' = produced \o octets

MemSend ==
  \/ /\ control # <<>> /\ Emit(<<Head(control)>>)
     /\ control' = Tail(control) /\ UNCHANGED <<heads, offset, window>>
  \/ /\ control = <<>> /\ ~GoingAway /\ heads # <<>> /\ Emit(<<Headers(Head(heads))>>)
     /\ heads' = Tail(heads) /\ UNCHANGED <<control, offset, window>>
  \/ /\ control = <<>> /\ ~GoingAway /\ heads = <<>> /\ window > 0
     /\ \E s \in Sendable :
          LET data == DataSourceRead(s, window)
          IN /\ Emit(data) /\ window' = window - Len(data)
             /\ offset' = [offset EXCEPT ![s] = @ + Len(data)]
     /\ UNCHANGED <<control, heads>>

(* Variant: the buffer is refilled whenever nghttp2 has something. *)
ConsumedEager == consumed >= Len(out) \/ control # <<>>

(* PendingOutput refills the buffer once what was produced is consumed. *)
Consumed == consumed >= Len(out)

(* PendingOutput, from its test to the return of octets or of nothing. *)
PendingOutput(test, refill, some, none) ==
  \/ /\ step = test
     /\ IF Consumed THEN out' = <<>> /\ consumed' = 0 /\ step' = refill
        ELSE UNCHANGED <<out, consumed>> /\ step' = some
     /\ UNCHANGED <<control, heads, offset, window, produced>>
  \/ step = refill /\ MemSend /\ UNCHANGED <<consumed, step>>
  \/ /\ step = refill /\ NothingToSend /\ step' = IF out = <<>> THEN none ELSE some
     /\ UNCHANGED <<h2, produced>>

(* Variant: octets that wait in the buffer are forgotten. *)
WantWriteNghttp2 == ~NothingToSend

(* The poll mask asks for output if there is some or nghttp2 has some. *)
WantWrite == consumed < Len(out) \/ ~NothingToSend

(* TlsSocket::Write of the pending octets: they become a record, unless    *)
(* there is one.  kOk reports its length, to ConsumeOutput, and the loop   *)
(* goes on; kWantWrite ends it.                                            *)
Write(again, wants) ==
  LET attempt == IF record = <<>>
                 THEN SubSeq(Pending, 1, MinOf(RecordMax, Len(Pending))) ELSE record
      left == IF record = <<>> THEN Len(attempt) ELSE unsent
      taken == MinOf(left, Room - filled)
  IN /\ filled' = filled + taken
     /\ IF taken = left
        THEN /\ consumed' = MinOf(consumed + Len(attempt), Len(out))
             /\ wire' = wire \o attempt /\ record' = <<>> /\ unsent' = 0
             /\ step' = again
        ELSE /\ record' = attempt /\ unsent' = left - taken
             /\ UNCHANGED <<consumed, wire>> /\ step' = wants
     /\ UNCHANGED <<control, heads, offset, window, out, inbound, produced, pings>>

(* FlushOutput: ask for output, write it, and again.  DoShutdown does the  *)
(* same and then closes the socket, however far it got.                    *)
FlushOutput ==
  \/ /\ PendingOutput("flush", "refill", "write", "poll")
     /\ UNCHANGED <<ssl, filled, inbound, pings>>
  \/ step = "write" /\ Write("flush", "poll")

FlushBeforeClose ==
  \/ /\ PendingOutput("last flush", "last refill", "last write", "closed")
     /\ UNCHANGED <<ssl, filled, inbound, pings>>
  \/ step = "last write" /\ Write("last flush", "closed")

(* OnSocketReady, for the events of StartSession's mask. *)
OnSocketReady ==
  /\ step = "poll"
  /\ \/ inbound # <<>> /\ step' = "drain"
     \/ WantWrite /\ filled < Room /\ step' = "flush"
  /\ UNCHANGED <<h2, ssl, filled, inbound, produced, pings>>

(* DrainSocket: reads until there is nothing, and lets nghttp2 have it; or *)
(* the peer has closed the connection.                                     *)
DrainSocket ==
  /\ step = "drain"
  /\ IF inbound = <<>> THEN step' = "flush" /\ UNCHANGED <<control, window, inbound>>
     ELSE /\ inbound' = Tail(inbound)
          /\ step' = IF Head(inbound) = "eof" THEN "closed" ELSE step
          /\ window' = IF Head(inbound) = "window update" THEN window + 1 ELSE window
          /\ control' = IF Head(inbound) = "settings" THEN Append(control, Control("ack"))
                        ELSE control
  /\ UNCHANGED <<heads, offset, out, consumed, ssl, filled, produced, pings>>

(* Something is queued, and FlushOutput follows. *)
Enqueue(next) ==
  /\ step = "poll" /\ step' = next
  /\ UNCHANGED <<window, out, consumed, ssl, filled, inbound, produced>>

SubmitUnaryRequest(s) ==
  /\ offset[s] = -1 /\ Enqueue("flush")
  /\ heads' = Append(heads, s) /\ offset' = [offset EXCEPT ![s] = 0]
  /\ UNCHANGED <<control, pings>>

KeepalivePing ==
  /\ pings < MaxPings /\ Enqueue("flush")
  /\ control' = Append(control, Control("ping")) /\ pings' = pings + 1
  /\ UNCHANGED <<heads, offset>>

Terminate ==
  /\ Enqueue("last flush") /\ control' = Append(control, Control("goaway"))
  /\ UNCHANGED <<heads, offset, pings>>

EventThread ==
  OnSocketReady \/ DrainSocket \/ FlushOutput \/ FlushBeforeClose

----------------------------------------------------------------------------
(* The peer (external) *)

Data(octets) == SelectSeq(octets, LAMBDA o : o.kind = "data")

(* It reads what the kernel has sent. *)
PeerReads ==
  /\ filled > 0 /\ filled' = filled - 1
  /\ UNCHANGED <<h2, ssl, inbound, step, produced, pings>>

(* It grants another octet for each it got, sends its SETTINGS, or closes. *)
PeerSends(what) ==
  /\ inbound = <<>> /\ step # "closed"
  /\ what = "window update" => window + Len(Data(produced)) < Window + Len(Data(wire))
  /\ what = "settings" => Control("ack") \notin Range(control \o produced)
  /\ inbound' = <<what>>
  /\ UNCHANGED <<h2, ssl, filled, step, produced, pings>>

Closed == step = "closed" /\ UNCHANGED io_vars

IoNext ==
  \/ EventThread \/ Closed
  \/ (\E s \in Streams : SubmitUnaryRequest(s)) \/ KeepalivePing \/ Terminate
  \/ PeerReads \/ \E what \in {"window update", "settings", "eof"} : PeerSends(what)

----------------------------------------------------------------------------

(* What goes out is what nghttp2 produced, every octet once and in order,  *)
(* through partial writes and repeated ones; the record that OpenSSL still *)
(* has is the front of what is pending.  Each octet of a body comes once,  *)
(* after the one before it, the first after HEADERS, and the last one, and *)
(* no other, ends the stream.                                              *)
WireInOrder ==
  /\ produced = wire \o Pending
  /\ StartsWith(Pending, record)
  /\ \A i \in DOMAIN produced : LET o == produced[i] IN o.kind = "data" =>
       /\ \E j \in 1..(i - 1) :
            produced[j] = IF o.n = 1 THEN Headers(o.stream)
                          ELSE Octet("data", o.stream, o.n - 1, FALSE)
       /\ \A j \in DOMAIN produced : produced[j] = o => j = i
       /\ o.n \in 1..BodyLength /\ o.end = (o.n = BodyLength)

(* Requests that were submitted go out to the last octet, if the peer      *)
(* reads and grants octets, unless the connection is closed: a write that  *)
(* was cut short is taken up again when there is room.                     *)
RequestsSent ==
  []<>(step = "closed" \/ \A s \in Streams :
         offset[s] # -1 => Octet("data", s, BodyLength, TRUE) \in Range(wire))
=============================================================================
