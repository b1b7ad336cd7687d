-------------------------------- MODULE Shim --------------------------------
(***************************************************************************)
(* A blocking call of a generated stub, from the application to the wire   *)
(* and back: RouteGuide::Stub (route_guide.grpc.pb.cc), BlockingUnaryCall, *)
(* BlockingUnaryCallShim and DepositMetadata (src/api/channel.cc),         *)
(* BuildRequestHeaders (src/core/call_state.cc), the encodings of          *)
(* GrpcWire, the messages of Messages and the channels of CreateChannel.   *)
(* What happens between UnaryCall and its result is the Channel's.         *)
(*                                                                         *)
(* The server (external) is an echo service: it sends the metadata back,   *)
(* in its headers and in its trailers, with the padding it likes, and ends *)
(* the call with OK and the request, to which it may append more fields,   *)
(* or with another status and a percent-encoded message.                   *)
(***************************************************************************)
EXTENDS GrpcWire, CreateChannel, Messages

CONSTANTS
  Calls,        \* families (a sequence of sets) of the calls that may be
                \* made: see VARIABLE call
  MaxMessage,   \* INT_MAX: the library serializes no more octets than this
  PrefixSpan    \* 2^32: how many lengths a frame's prefix can tell apart

(* A key: its name in lower case without "-bin", whether it ends in        *)
(* "-bin", and whether the application wrote it in upper case.             *)
Key(name, bin, upper) == [name |-> name, bin |-> bin, upper |-> upper]
Lower(name) == Key(name, FALSE, FALSE)

VARIABLES
  call,      \* the call: method, the channel's target, creds and args (or
             \* foreign: not made by CreateChannel), metadata, remaining (<<ns>>
             \* to the deadline, or <<>>), the class of the messages, the
             \* request, what the response object holds; and of the server:
             \* message, padding, the message more that it appends, and
             \* garbage: fields that are no part of a message
  stage,     \* "new", "idle", "sent", "answered" or "returned"
  channel,   \* the channel: its lame status, or where to and the options
  headers,   \* the request's header list
  frame,     \* the request's message: its prefix and its octets
  answer,    \* what the server sends: metadata, message and body
  status,    \* the Status the application gets
  received,  \* recv_initial_metadata_ and recv_trailing_metadata_, as
             \* functions from keys to values
  response   \* the application's response object

vars == <<call, stage, channel, headers, frame, answer, status, received, response>>

NoStatus == [code |-> "unset", message |-> <<>>, details |-> <<>>]
Failure(code) == [NoStatus EXCEPT !.code = code]
NoAnswer == [metadata |-> <<>>, ok |-> FALSE, message |-> <<>>, body |-> <<>>]
NoFrame == [prefix |-> 0, body |-> <<>>]

NotStarted ==
  /\ stage = "new" /\ channel = Lame("no channel") /\ response = call.response
  /\ headers = <<>> /\ frame = NoFrame /\ answer = NoAnswer /\ status = NoStatus
  /\ received = [initial |-> <<>>, trailing |-> <<>>]

Init == (\E family \in DOMAIN Calls : call \in Calls[family]) /\ NotStarted

----------------------------------------------------------------------------

AsciiLower(key) == [key EXCEPT !.upper = FALSE]
IsBinKey(key) == key.bin /\ ~key.upper

(* Keys the transport owns; ":path" stands for the pseudo-headers. *)
Reserved == {":path", "te", "host", "content-type", "user-agent",
             "grpc-timeout", "grpc-encoding", "grpc-accept-encoding"}
TransportKeys == {Lower(name) : name \in Reserved}
(* Variant: the transport's keys are not filtered. *)
IsReservedMetadataKeyPseudo(key) == key = Lower(":path")

IsReservedMetadataKey(key) == key \in TransportKeys

(* Variant: the suffix is looked for in the key as the application wrote   *)
(* it.                                                                     *)
EncodeEntryAsWritten(entry) ==
  [key |-> AsciiLower(entry.key),
   value |-> IF IsBinKey(entry.key) THEN Base64Encode(entry.value)
                                    ELSE entry.value]

EncodeEntry(entry) ==
  LET key == AsciiLower(entry.key)
  IN [key |-> key,
      value |-> IF IsBinKey(key) THEN Base64Encode(entry.value) ELSE entry.value]

(* BuildRequestHeaders; the values of the fixed headers do not matter.     *)
BuildRequestHeaders ==
  LET Fixed(name) == [key |-> Lower(name), value |-> <<>>]
      timeout == IF call.remaining = <<>> THEN <<>>
                 ELSE << [key |-> Lower("grpc-timeout"),
                          value |-> EncodeGrpcTimeout(call.remaining[1])] >>
      Sent(entry) == ~IsReservedMetadataKey(AsciiLower(entry.key))
      custom == SelectSeq(call.metadata, Sent)
  IN << Fixed(":path"), Fixed("te"), Fixed("content-type"),
        Fixed("user-agent"), Fixed("grpc-accept-encoding") >>
     \o timeout \o [i \in DOMAIN custom |-> EncodeEntry(custom[i])]

(* CreateCustomChannel, and NewStub with the channel. *)
CreateStub ==
  /\ stage = "new" /\ stage' = "idle"
  /\ channel' = CreateCustomChannel(call.target, call.creds, call.args)
  /\ UNCHANGED <<call, headers, frame, answer, status, received, response>>

Unary == call.method = "GetFeature"

(* Variant: a message of any size is serialized. *)
EarlyStatusNoLimit ==
  IF call.foreign THEN "Internal"
  ELSE IF channel.lame # "no" THEN channel.lame
  ELSE IF call.remaining # <<>> /\ call.remaining[1] <= 0 THEN "DeadlineExceeded"
  ELSE IF ByteSizeLong(call.class, call.request) > channel.options.max_send
  THEN "ResourceExhausted"
  ELSE "none"

(* The ways a unary call ends before anything is sent, in their order: the *)
(* message cannot be serialized; the channel is not ours, or is lame; the  *)
(* deadline has passed; the message is longer than the channel allows.     *)
EarlyStatus ==
  IF ByteSizeLong(call.class, call.request) > MaxMessage \/ call.foreign THEN "Internal"
  ELSE IF channel.lame # "no" THEN channel.lame
  ELSE IF call.remaining # <<>> /\ call.remaining[1] <= 0 THEN "DeadlineExceeded"
  ELSE IF ByteSizeLong(call.class, call.request) > channel.options.max_send
  THEN "ResourceExhausted"
  ELSE "none"

(* FrameMessage: the length goes into four octets. *)
FrameMessage(body) == [prefix |-> WireSize(body) % PrefixSpan, body |-> body]

(* BlockingUnaryCall up to UnaryCall. *)
StartCall ==
  /\ stage = "idle" /\ Unary
  /\ IF EarlyStatus # "none"
     THEN stage' = "returned" /\ status' = Failure(EarlyStatus)
          /\ UNCHANGED <<headers, frame>>
     ELSE stage' = "sent" /\ headers' = BuildRequestHeaders
          /\ frame' = FrameMessage(Serialize(call.class, call.request))
          /\ UNCHANGED status
  /\ UNCHANGED <<call, channel, answer, received, response>>

(* ListFeatures, RecordRoute and RouteChat: the stream stubs take neither  *)
(* the channel nor the request; their operations return false, and         *)
(* Finish() says why.                                                      *)
FinishStream ==
  /\ stage = "idle" /\ ~Unary
  /\ stage' = "returned" /\ status' = Failure("Unimplemented")
  /\ UNCHANGED <<call, channel, headers, frame, answer, received, response>>

(* DepositMetadata: a -bin value that cannot be decoded is kept as it is.  *)
(* The multimap keeps the values of one key in their order.                *)
DepositMetadata(list) ==
  LET Value(entry) == IF IsBinKey(entry.key) /\ Base64Decodable(entry.value)
                      THEN Base64Decode(entry.value) ELSE entry.value
      Of(key) == SelectSeq(list, LAMBDA entry : entry.key = key)
  IN [key \in {list[i].key : i \in DOMAIN list} |->
        [i \in DOMAIN Of(key) |-> Value(Of(key)[i])]]

(* UnaryCall has returned: FinalizeLocked has decoded the message; the     *)
(* shim deposits the metadata, and for OK the response is parsed, unless   *)
(* it was longer than the channel takes.                                   *)
FinishCall ==
  LET deposited == DepositMetadata(answer.metadata)
      details == Key("grpc-status-details", TRUE, FALSE)
      TooLong == WireSize(answer.body) > channel.options.max_receive
      parsed == ParseFromString(call.class, response, answer.body)
  IN /\ stage = "answered" /\ stage' = "returned"
     /\ received' = [initial |-> deposited, trailing |-> deposited]
     /\ IF ~answer.ok \/ TooLong
        THEN /\ status' =
                  [code |-> IF TooLong THEN "ResourceExhausted" ELSE "FromServer",
                   message |-> IF TooLong THEN <<>> ELSE PercentDecode(answer.message),
                   details |-> IF details \in DOMAIN deposited
                               THEN deposited[details][1] ELSE <<>>]
             /\ UNCHANGED response
        ELSE /\ status' = Failure(IF parsed.ok THEN "OK" ELSE "Internal")
             /\ response' = parsed.message
     /\ UNCHANGED <<call, channel, headers, frame, answer>>

----------------------------------------------------------------------------
(* The server *)

HexChar(v) == IF v < 10 THEN v + 48 ELSE v - 10 + 65

(* grpc-message as the protocol has it: '%' and what is not printable are  *)
(* escaped.                                                                *)
PercentEncode(text) ==
  LET Rest[i \in 1 .. Len(text) + 1] ==
        IF i > Len(text) THEN <<>>
        ELSE IF text[i] \in 32..126 \ {Percent} THEN <<text[i]>> \o Rest[i + 1]
        ELSE <<Percent, HexChar(text[i] \div 16), HexChar(text[i] % 16)>>
               \o Rest[i + 1]
  IN Rest[1]

Echoed(entry) ==
  [entry EXCEPT !.value = IF entry.key.bin
                          THEN @ \o [i \in 1..call.padding |-> Pad] ELSE @]

(* The server answers: with the request, and with more; with a message it  *)
(* has encoded, or has failed to encode.                                   *)
ServerAnswers(kind) ==
  LET custom == SelectSeq(headers, LAMBDA h : h.key \notin TransportKeys)
      Appended == Serialize(call.class, call.more) \o call.garbage
  IN /\ stage = "sent" /\ stage' = "answered"
     /\ answer' =
          [metadata |-> [i \in DOMAIN custom |-> Echoed(custom[i])],
           ok |-> kind = "ok",
           message |-> IF kind = "encoded" THEN PercentEncode(call.message)
                       ELSE call.message,
           body |-> IF kind = "ok" THEN frame.body \o Appended ELSE <<>>]
     /\ UNCHANGED <<call, channel, headers, frame, status, received, response>>

Next ==
  \/ CreateStub \/ StartCall \/ FinishStream \/ FinishCall
  \/ \E kind \in {"ok", "encoded", "plain"} : ServerAnswers(kind)

Spec == Init /\ [][Next]_vars

----------------------------------------------------------------------------

Custom(entry) == AsciiLower(entry.key) \notin TransportKeys
Answered == stage = "returned" /\ answer # NoAnswer

(* Metadata survives the round trip: what the application sent under a key *)
(* of its own comes back under that key in lower case, value for value and *)
(* in order, whatever octets a -bin value has and however it was padded.   *)
MetadataSurvives ==
  LET Sent(key) == SelectSeq(call.metadata,
                             LAMBDA e : Custom(e) /\ AsciiLower(e.key) = key)
      sent == {AsciiLower(e.key) : e \in {f \in Range(call.metadata) : Custom(f)}}
  IN Answered =>
       /\ received.initial = received.trailing
       /\ received.trailing =
            [key \in sent |-> [i \in DOMAIN Sent(key) |-> Sent(key)[i].value]]

(* No request has one of the transport's headers twice, or a pseudo-header *)
(* after a regular one, whatever the application put in its metadata:      *)
(* nghttp2 would fail the call.                                            *)
TransportHeadersOnce ==
  \A i, j \in DOMAIN headers :
    i < j => /\ headers[i].key = headers[j].key
                  => headers[i].key \notin TransportKeys
             /\ headers[j].key.name # ":path"

(* The deadline the server sees is never earlier than the application's,   *)
(* and later by less than one of the units it is sent in.                  *)
DeadlineNotEarly ==
  \A i \in DOMAIN headers :
    headers[i].key = Lower("grpc-timeout") =>
      LET sent == headers[i].value
          unit == TimeoutUnits[sent.unit]
          remaining == call.remaining[1]
      IN /\ sent.value \in 1..MaxTimeoutDigitsValue
         /\ remaining <= sent.value * unit
         /\ sent.value * unit < remaining + unit

(* A status message that the server percent-encoded is what the            *)
(* application sees; so is one that it did not encode, truncated or        *)
(* malformed escapes included, unless it contains a whole escape.          *)
MessageSurvives ==
  LET text == call.message
      Hex == 48..57 \cup 65..70 \cup 97..102
      HasEscape == \E i \in 1 .. Len(text) - 2 :
                     text[i] = Percent /\ {text[i + 1], text[i + 2]} \subseteq Hex
  IN Answered /\ ~answer.ok /\ ~(answer.message = text /\ HasEscape)
       => status.message = text

(* The message that the application gets with OK is the one the server     *)
(* meant, later fields merged into earlier ones and unknown ones kept,     *)
(* whatever the response object held before the call; octets that are not  *)
(* a message never pass for one; and a call that fails before the response *)
(* is parsed leaves the object alone.                                      *)
ResponseIsServers ==
  LET meant == MergeFrom(call.class, call.request, call.more)
      fits == WireSize(answer.body) <= channel.options.max_receive
  IN stage = "returned" =>
       IF Answered /\ answer.ok /\ fits
       THEN IF call.garbage = <<>> THEN status.code = "OK" /\ response = meant
            ELSE status.code = "Internal"
       ELSE status.code # "OK" /\ response = call.response

(* The length in front of a request is the length of the request: the four *)
(* octets of the prefix hold every length that the library serializes.     *)
FramePrefixExact == frame # NoFrame => frame.prefix = WireSize(frame.body)

(* The host and port that a target names: all ways to write it as          *)
(* host[:port] or [host][:port].                                           *)
Addresses(target) ==
  LET text == target.text
      Decimal(digits) == Total([i \in DOMAIN digits |->
                           (digits[i] - 48) * 10^(Len(digits) - i)])
      Port(digits) == IF digits = <<>> THEN {DefaultPort}
                      ELSE IF Range(digits) \subseteq Digit
                      THEN {Decimal(digits)} \cap 1..MaxPort ELSE {}
      Host(name) ==
        IF name = <<>> THEN {}
        ELSE IF name[1] # OpenBracket
        THEN IF Colon \in Range(name) THEN {} ELSE {name}
        ELSE LET inner == SubSeq(name, 2, Len(name) - 1)
             IN IF /\ Len(name) > 2 /\ name[Len(name)] = CloseBracket
                   /\ CloseBracket \notin Range(inner)
                THEN {inner} ELSE {}
      splits == {<<text, <<>>>>} \cup
                  {<<Before(text, i), After(text, i)>> : i \in Positions(text, Colon)}
  IN IF target.scheme = "unix:" \/ (target.scheme = "" /\ HasScheme(text)) THEN {}
     ELSE UNION {[host : Host(split[1]), port : Port(split[2])] : split \in splits}

(* A channel that is not lame goes to the one host and port that its       *)
(* target names, over TLS, and bounds what a server may make it buffer; a  *)
(* target that names no address, or has a port out of range, is lame.      *)
ChannelAsAsked ==
  stage # "new" =>
    IF channel.lame = "no"
    THEN /\ call.creds = "ssl" /\ Addresses(call.target) = {channel.at}
         /\ channel.options.max_receive > 0
    ELSE call.creds # "ssl" \/ Addresses(call.target) = {}
=============================================================================
