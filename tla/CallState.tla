----------------------------- MODULE CallState -----------------------------
(***************************************************************************)
(* One unary call (src/core/call_state.cc) from submission to the verdict  *)
(* its caller gets, with the scanner that reassembles its response.        *)
(*                                                                         *)
(* The peer may end the stream after any prefix of a response, may cut the *)
(* body into DATA chunks as it likes, and may send anything in it; the     *)
(* hooks come in the order nghttp2 allows.  The channel may fail the call  *)
(* at any time, and a stream that it has not yet destroyed (DoShutdown     *)
(* flushes once more) may still report its end afterwards.                 *)
(*                                                                         *)
(* Header lists are reduced to the values the verdict depends on.          *)
(***************************************************************************)
EXTENDS MessageScanner

CONSTANTS
  Bytes,          \* byte values on the wire
  MaxBytes,       \* bound: length of the response body
  HttpStatuses,   \* values of :status
  GrpcStatuses,   \* values of grpc-status: codes, "malformed", "above 16"
  ErrorCodes      \* HTTP/2 error codes a stream may be closed with

ASSUME BytesAssumption == Bytes \subseteq Nat /\ MaxBytes \in Nat

VARIABLES
  state,       \* state_
  scanner,     \* scanner_
  responses,   \* response_count_ and first_response_
  http,        \* saw_initial_headers_, http_status_ and content_type_
  status_raw,  \* grpc_status_raw_ ("none" if absent)
  result,      \* result_
  stage,       \* how far the stream is: what nghttp2 may report next
  wire,        \* the body so far
  waited       \* Wait() has returned

vars == <<state, scanner, responses, http, status_raw, result, stage, wire,
          waited>>

None == "none"

(* Result as it is before a verdict. *)
Pending == [code |-> "Unset", response |-> <<>>]

Init ==
  /\ state = "Created" /\ scanner = NewScanner
  /\ responses = [count |-> 0, first |-> <<>>]
  /\ http = [seen |-> FALSE, status |-> 0, grpc |-> FALSE]
  /\ status_raw = None /\ result = Pending
  /\ stage = "new" /\ wire = <<>> /\ waited = FALSE

----------------------------------------------------------------------------

OnSubmitted ==
  /\ stage = "new" /\ state = "Created"
  /\ state' = "HeadersSent" /\ stage' = "open"
  /\ UNCHANGED <<scanner, responses, http, status_raw, result, wire, waited>>

(* OnResponseHeaders: with end_stream (Trailers-Only) the grpc-status is   *)
(* in these headers; otherwise one that is there is mere metadata.         *)
OnResponseHeaders(st, grpc, end_stream, gs) ==
  /\ stage = "open"
  /\ stage' = IF end_stream THEN "ended" ELSE "body"
  /\ state' = "Open"
  /\ http' = [seen |-> TRUE, status |-> st, grpc |-> grpc]
  /\ status_raw' = IF end_stream THEN gs ELSE status_raw
  /\ UNCHANGED <<scanner, responses, result, wire, waited>>

(* A turn of the loop: Next(), counting, and keeping the first message. *)
Turn(d) ==
  IF ~HasMessage(d.s) THEN d
  ELSE [s |-> AfterNext(d.s),
        r |-> [count |-> d.r.count + 1,
               first |-> IF d.r.count = 0 THEN Message(d.s) ELSE d.r.first]]

(* Next() until it has no more: each turn takes a message of an octet or   *)
(* more.                                                                   *)
Drain(s, r) ==
  LET drained[n \in 0..Len(s.buf)] ==
        IF n = 0 THEN [s |-> s, r |-> r] ELSE Turn(drained[n - 1])
  IN drained[Len(s.buf)]

OnData(chunk) ==
  LET d == Drain(Feed(scanner, chunk), responses) IN
  /\ stage = "body"
  /\ wire' = wire \o chunk
  /\ IF scanner.failed # None
     THEN UNCHANGED <<scanner, responses>>
     ELSE scanner' = d.s /\ responses' = d.r
  /\ UNCHANGED <<state, http, status_raw, result, stage, waited>>

OnTrailers(gs) ==
  /\ stage = "body"
  /\ stage' = "ended" /\ status_raw' = gs
  /\ UNCHANGED <<state, scanner, responses, http, result, wire, waited>>

----------------------------------------------------------------------------
(* FinalizeLocked *)

HttpStatusToGrpcCode(st) ==
  CASE st = 400 -> "Internal"
    [] st = 401 -> "Unauthenticated"
    [] st = 403 -> "PermissionDenied"
    [] st = 404 -> "Unimplemented"
    [] st \in {429, 502, 503, 504} -> "Unavailable"
    [] OTHER -> "Unknown"

(* ParseGrpcStatus, with what is made of a value that is not a number; a   *)
(* number above 16 is no code of gRPC's.                                   *)
ParseGrpcStatus(raw) ==
  CASE raw = "malformed" -> "Internal"
    [] raw = "above 16" -> "Unknown"
    [] OTHER -> raw

ResetCode(error_code) ==
  CASE error_code = "REFUSED_STREAM" -> "Unavailable"
    [] error_code = "CANCEL" -> "Cancelled"
    [] OTHER -> "Internal"

(* Variant: a status of OK is taken without looking at the messages. *)
FinalizeTrustsStatus(error_code) ==
  IF scanner.failed # None THEN [Pending EXCEPT !.code = scanner.failed]
  ELSE IF status_raw # None
  THEN [code |-> ParseGrpcStatus(status_raw), response |-> responses.first]
  ELSE IF http.seen /\ http.status # 200
  THEN [Pending EXCEPT !.code = HttpStatusToGrpcCode(http.status)]
  ELSE IF http.seen /\ ~http.grpc THEN [Pending EXCEPT !.code = "Internal"]
  ELSE [Pending EXCEPT !.code = ResetCode(error_code)]

Finalize(error_code) ==
  LET fail(code) == [Pending EXCEPT !.code = code] IN
  IF scanner.failed # None THEN fail(scanner.failed)
  ELSE IF status_raw # None
  THEN IF ParseGrpcStatus(status_raw) # "Ok"
       THEN fail(ParseGrpcStatus(status_raw))
       ELSE IF HasPartialMessage(scanner) \/ responses.count # 1
       THEN fail("Internal")
       ELSE [code |-> "Ok", response |-> responses.first]
  ELSE IF http.seen /\ http.status # 200
  THEN fail(HttpStatusToGrpcCode(http.status))
  ELSE IF http.seen /\ ~http.grpc THEN fail("Internal")
  ELSE fail(ResetCode(error_code))

(* Variant: no test for a call that is already closed. *)
OnCloseUnguarded(error_code) ==
  /\ stage \in {"open", "body", "ended"}
  /\ stage' = "closed"
  /\ result' = Finalize(error_code) /\ state' = "Closed"
  /\ UNCHANGED <<scanner, responses, http, status_raw, wire, waited>>

OnClose(error_code) ==
  /\ stage \in {"open", "body", "ended"}
  /\ stage' = "closed"
  /\ IF state = "Closed" THEN UNCHANGED <<state, result>>
     ELSE result' = Finalize(error_code) /\ state' = "Closed"
  /\ UNCHANGED <<scanner, responses, http, status_raw, wire, waited>>

(* FailLocal, by the channel that holds the call; before the stream exists *)
(* also by the caller's own thread.  Only the end of a stream that is open *)
(* may be reported after it.                                               *)
FailLocal ==
  /\ stage # "closed" /\ state # "Closed"
  /\ state' = "Closed"
  /\ result' = [Pending EXCEPT !.code = "Unavailable"]
  /\ stage' = IF stage = "new" THEN "closed" ELSE "ended"
  /\ UNCHANGED <<scanner, responses, http, status_raw, wire, waited>>

(* Wait() returns the result, by reference. *)
WaitReturns ==
  /\ state = "Closed" /\ ~waited
  /\ waited' = TRUE
  /\ UNCHANGED <<state, scanner, responses, http, status_raw, result, stage,
                 wire>>

Done == stage = "closed" /\ waited /\ UNCHANGED vars

Chunks == UNION {[1..n -> Bytes] : n \in 1..(MaxBytes - Len(wire))}

Next ==
  \/ OnSubmitted
  \/ \E st \in HttpStatuses, grpc, end_stream \in BOOLEAN,
        gs \in GrpcStatuses \cup {None} :
       /\ end_stream \/ gs = None
       /\ OnResponseHeaders(st, grpc, end_stream, gs)
  \/ \E chunk \in Chunks : OnData(chunk)
  \/ \E gs \in GrpcStatuses \cup {None} : OnTrailers(gs)
  \/ \E error_code \in ErrorCodes : OnClose(error_code)
  \/ FailLocal
  \/ WaitReturns
  \/ Done

Spec == Init /\ [][Next]_vars

----------------------------------------------------------------------------

(* However the peer cuts the body into DATA chunks, the scanner has found  *)
(* what it would find in one piece: the same error, or the same messages   *)
(* and the same rest (grpc_wire.h: messages can span DATA frames and       *)
(* coalesce within one).                                                   *)
CutsDoNotMatter ==
  LET whole == Drain(Feed(NewScanner, wire), [count |-> 0, first |-> <<>>]) IN
  /\ scanner.failed = whole.s.failed
  /\ scanner.failed = None =>
       /\ responses = whole.r
       /\ HasPartialMessage(scanner) = HasPartialMessage(whole.s)

(* A caller is told Ok only if the status was OK and the body, as it was   *)
(* on the wire, was one valid frame and nothing else; the response is its  *)
(* payload.  And a stream that delivered that is reported as Ok, unless    *)
(* the channel failed the call first.                                      *)
OkIsOneMessage ==
  LET one == /\ Len(wire) >= PrefixLen /\ wire[1] = 0
             /\ wire[2] <= MaxMessageSize /\ Len(wire) = PrefixLen + wire[2]
  IN
  /\ result.code = "Ok" =>
       /\ status_raw = "Ok" /\ one
       /\ result.response = SubSeq(wire, PrefixLen + 1, Len(wire))
  /\ state = "Closed" /\ status_raw = "Ok" /\ one
       => result.code \in {"Ok", "Unavailable"}

(* Between chunks the buffer holds less than one frame of the largest size *)
(* that is not yet consumed, and of what is consumed no more than          *)
(* CompactAt bytes or as much again (a chunk with the offending prefix     *)
(* aside): the peer cannot make it grow by sending many messages.          *)
BufferBounded ==
  scanner.failed = None =>
    /\ Len(scanner.buf) - scanner.pos < PrefixLen + MaxMessageSize
    /\ \/ scanner.pos < CompactAt
       \/ scanner.pos <= Len(scanner.buf) - scanner.pos

(* call_state.h:91-92: the result "is immutable once returned"; and a call *)
(* that is closed stays closed, whatever hook comes late.                  *)
ResultFinal ==
  [][state = "Closed" => state' = "Closed" /\ result' = result]_vars
=============================================================================
