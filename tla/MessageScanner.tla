-------------------------- MODULE MessageScanner ---------------------------
(***************************************************************************)
(* GrpcMessageScanner (src/core/grpc_wire.cc): messages reassembled from   *)
(* the DATA chunks of a stream.  Bytes are small numbers.  A frame is a    *)
(* flag, a length and the payload; the length is one byte here, not four   *)
(* (PrefixLen is 2, not 5), so a prefix can still arrive in pieces.        *)
(***************************************************************************)
EXTENDS Naturals, Sequences

CONSTANTS
  MaxMessageSize,  \* max_message_size_
  CompactAt        \* consumed bytes that are worth erasing (65536)

ASSUME ScannerAssumption == MaxMessageSize \in Nat /\ CompactAt \in Nat \ {0}

PrefixLen == 2

NewScanner == [buf |-> <<>>, pos |-> 0, failed |-> "none"]

FrameLen(buf, at) == PrefixLen + buf[at + 2]

(* The verdict on the prefix at an offset. *)
PrefixError(buf, at) ==
  IF buf[at + 1] # 0 THEN "Internal"
  ELSE IF buf[at + 2] > MaxMessageSize THEN "ResourceExhausted"
  ELSE "none"

(* Variant: only the first prefix is looked at. *)
ScanFirst(buf, from) ==
  IF Len(buf) - from < PrefixLen THEN "none" ELSE PrefixError(buf, from)

(* Feed's loop: the first error among the prefixes that are complete. *)
Scan(buf, from) ==
  LET scan[at \in 0..Len(buf)] ==
        IF Len(buf) - at < PrefixLen THEN "none"
        ELSE IF PrefixError(buf, at) # "none" THEN PrefixError(buf, at)
        ELSE IF Len(buf) - at < FrameLen(buf, at) THEN "none"
        ELSE scan[at + FrameLen(buf, at)]
  IN scan[from]

Feed(s, chunk) ==
  LET buf == s.buf \o chunk IN
  IF s.failed # "none" THEN s
  ELSE [s EXCEPT !.buf = buf, !.failed = Scan(buf, s.pos)]

HasMessage(s) ==
  /\ s.failed = "none"
  /\ Len(s.buf) - s.pos >= PrefixLen
  /\ Len(s.buf) - s.pos >= FrameLen(s.buf, s.pos)

(* The message Next returns, if HasMessage. *)
Message(s) ==
  SubSeq(s.buf, s.pos + PrefixLen + 1, s.pos + FrameLen(s.buf, s.pos))

(* Variant: the buffer is never compacted. *)
AfterNextKeepsAll(s) == [s EXCEPT !.pos = @ + FrameLen(s.buf, s.pos)]

(* What Next leaves: an empty buffer, or a compacted one, or pos_ moved on.*)
AfterNext(s) ==
  LET pos == s.pos + FrameLen(s.buf, s.pos) IN
  IF pos = Len(s.buf) THEN [s EXCEPT !.buf = <<>>, !.pos = 0]
  ELSE IF pos >= CompactAt /\ pos >= Len(s.buf) \div 2
  THEN [s EXCEPT !.buf = SubSeq(s.buf, pos + 1, Len(s.buf)), !.pos = 0]
  ELSE [s EXCEPT !.pos = pos]

HasPartialMessage(s) == Len(s.buf) > s.pos
=============================================================================
