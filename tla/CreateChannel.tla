--------------------------- MODULE CreateChannel ---------------------------
(***************************************************************************)
(* grpc::CreateCustomChannel (src/api/create_channel.cc): from a target,   *)
(* credentials and channel arguments to a channel, or to a lame one that   *)
(* fails every call with a status.                                         *)
(*                                                                         *)
(* A target is [scheme, text]: the scheme is "dns:///", "unix:" or "", the *)
(* text a sequence of character codes.                                     *)
(***************************************************************************)
EXTENDS Integers, Sequences

Slash == 47
Colon == 58
OpenBracket == 91
CloseBracket == 93
Digit == 48..57
DefaultPort == 443
MaxPort == 65535

Rejected == [host |-> <<>>, port |-> 0]

(* The positions of a character, and the text before and after a position. *)
Positions(text, c) == {i \in DOMAIN text : text[i] = c}
Least(S) == CHOOSE i \in S : \A j \in S : i <= j
Before(text, i) == SubSeq(text, 1, i - 1)
After(text, i) == SubSeq(text, i + 1, Len(text))

(* The loop over the digits of the port: -1 when it gives up. *)
PortValue(digits) ==
  LET Value[i \in 0..Len(digits)] ==
        IF i = 0 THEN 0
        ELSE LET value == Value[i - 1] * 10 + (digits[i] - 48)
             IN IF Value[i - 1] < 0 \/ digits[i] \notin Digit \/ value > MaxPort
                THEN -1 ELSE value
  IN Value[Len(digits)]

WithPort(host, digits) ==
  IF host = <<>> THEN Rejected
  ELSE IF digits = <<>> THEN [host |-> host, port |-> DefaultPort]
  ELSE IF PortValue(digits) <= 0 THEN Rejected
  ELSE [host |-> host, port |-> PortValue(digits)]

(* "[host]" or "[host]:port". *)
ParseBracketed(text) ==
  LET close == Least(Positions(text, CloseBracket))
      host == SubSeq(text, 2, close - 1)
  IN IF Positions(text, CloseBracket) = {} THEN Rejected
     ELSE IF close = Len(text) THEN WithPort(host, <<>>)
     ELSE IF text[close + 1] # Colon THEN Rejected
     ELSE WithPort(host, After(text, close + 1))

(* Variant: the last of several colons is taken for the port's. *)
ParsePlainLastColon(text) ==
  LET colons == Positions(text, Colon)
      colon == CHOOSE i \in colons : \A j \in colons : j <= i
  IN IF colons = {} THEN WithPort(text, <<>>)
     ELSE WithPort(Before(text, colon), After(text, colon))

(* "host" or "host:port"; two colons are an IPv6 address without brackets. *)
ParsePlain(text) ==
  LET colons == Positions(text, Colon)
      colon == Least(colons)
  IN IF colons = {} THEN WithPort(text, <<>>)
     ELSE IF colons # {colon} THEN Rejected
     ELSE WithPort(Before(text, colon), After(text, colon))

HasScheme(text) ==
  \E i \in Positions(text, Colon) :
    i + 2 <= Len(text) /\ text[i + 1] = Slash /\ text[i + 2] = Slash

ParseTarget(target) ==
  LET text == target.text
  IN IF \/ target.scheme # "dns:///" /\ (target.scheme = "unix:" \/ HasScheme(text))
        \/ text = <<>>
     THEN Rejected
     ELSE IF text[1] = OpenBracket THEN ParseBracketed(text) ELSE ParsePlain(text)

----------------------------------------------------------------------------

Lame(code) == [lame |-> code]

(* ChannelOptions: the arguments that are honoured, and their defaults.    *)
(* The arguments are ints: the largest stands for "no limit".              *)
DefaultOptions ==
  [keepalive_time |-> 60000, keepalive_timeout |-> 20000, permit |-> 1,
   max_receive |-> 4194304, max_send |-> 2147483647]

(* A value is honoured if it is positive; the permit flag, whatever it is. *)
Options(args) ==
  [name \in DOMAIN DefaultOptions |->
     IF name \notin DOMAIN args THEN DefaultOptions[name]
     ELSE IF name = "permit" THEN IF args.permit = 0 THEN 0 ELSE 1
     ELSE IF args[name] > 0 THEN args[name] ELSE DefaultOptions[name]]

(* creds: "null", "insecure", "ssl", or "mtls" with an in-memory identity. *)
CreateCustomChannel(target, creds, args) ==
  IF creds = "null" THEN Lame("InvalidArgument")
  ELSE IF creds \in {"insecure", "mtls"} THEN Lame("Unimplemented")
  ELSE IF ParseTarget(target) = Rejected THEN Lame("InvalidArgument")
  ELSE [lame |-> "no", at |-> ParseTarget(target), options |-> Options(args)]
=============================================================================
