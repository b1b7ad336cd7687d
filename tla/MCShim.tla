------------------------------- MODULE MCShim -------------------------------
(***************************************************************************)
(* Calls for an instance of Shim.  The table of units is the code's,       *)
(* scaled down: each unit is a multiple of the one before it, values have  *)
(* one digit, and the coarsest unit holds every timeout.                   *)
(***************************************************************************)
EXTENDS CreateChannel, Messages

MCUnits == <<1, 4, 12>>
MCRemainders == {<<>>} \cup {<<ns>> : ns \in -1..40 \cup 95..108}

UpTo(S, n) == UNION {[1..k -> S] : k \in 0..n}

(* Octets with all, no, the upper and the lower bits set. *)
MCOctets == {0, 255, 240, 15}
MCKeys == [name : {"trace", "te"}, bin : BOOLEAN, upper : BOOLEAN] \cup
            [name : {":path", "grpc-timeout"}, bin : {FALSE}, upper : {FALSE}]
Entries(keys, values) == [key : keys, value : values]

(* One entry with any short binary value, or up to two short ones. *)
MCMetadata ==
  {<<e>> : e \in Entries([name : {"trace"}, bin : {TRUE}, upper : BOOLEAN],
                         UpTo(MCOctets, 4))}
    \cup UpTo(Entries(MCKeys, {<<>>, <<65>>}), 2)

(* '%', two hex digits, a letter that is not one, an octet to escape. *)
MCMessages == UpTo({37, 52, 97, 120, 10}, 4)

(* Targets: short texts of the characters that matter, with each scheme,   *)
(* and ports around both ends of their range.                              *)
MCTargets ==
  [scheme : {"", "dns:///", "unix:"},
   text : UpTo({Colon, Slash, OpenBracket, CloseBracket, 104, 49}, 4)
            \cup {<<OpenBracket, Colon, Colon, 49, CloseBracket, Colon, 56>>}]
    \cup [scheme : {""}, text : {<<104, Colon>> \o port :
                                   port \in UpTo({48, 51, 53, 54}, 6)}]

(* Integers of one octet, two and ten on the wire, set and not set. *)
MCInts == {0, 1, -1, 200}
Extra == [num |-> 9, type |-> Varint, size |-> 0, value |-> <<0, 5>>]
Of(fields) == [fields : fields, unknown : {<<>>, <<Extra>>}]
MCPoints == [fields : {<<0, 0>>, <<1, 0>>, <<0, -1>>}, unknown : {<<>>, <<Extra>>}]
Texts == {<<>>, <<104>>}
MCMessagesOf(class) ==
  CASE class = Point -> Of(MCInts \X MCInts)
    [] class = Rectangle -> Of((MCPoints \cup {NoMessage}) \X {NoMessage, Clear(Point)})
    [] class = Feature -> Of(Texts \X (MCPoints \cup {NoMessage}))
    [] class = RouteNote -> Of((MCPoints \cup {NoMessage}) \X Texts)
    [] class = RouteSummary -> Of({0, -1} \X {0, 1} \X {0, -1} \X {0, -1})

(* A group that ends, and for strings an octet that is not UTF-8. *)
MCGarbage(class) ==
  {<<>>, <<[num |-> 3, type |-> EndGroup, size |-> 0, value |-> <<>>]>>}
    \cup {<<[num |-> i, type |-> Delimited, size |-> 1, value |-> <<255>>]>> :
             i \in {j \in DOMAIN class : class[j] = "string"}}

Call ==
  [method |-> "GetFeature", foreign |-> FALSE, creds |-> "ssl", args |-> <<>>,
   target |-> [scheme |-> "", text |-> <<104>>],
   metadata |-> <<>>, remaining |-> <<>>, message |-> <<>>, padding |-> 0,
   class |-> Point, request |-> Clear(Point), more |-> Clear(Point),
   garbage |-> <<>>, response |-> Clear(Point)]

MessageCalls(class) ==
  {[Call EXCEPT !.class = class, !.request = a, !.more = b, !.garbage = g,
                !.response = r, !.args = args] :
     a \in MCMessagesOf(class), b \in MCMessagesOf(class),
     g \in MCGarbage(class), args \in {<<>>, [max_receive |-> 12, max_send |-> 6]},
     r \in {CHOOSE m \in MCMessagesOf(class) : \A i \in DOMAIN class : Set(class, m, i)}}

(* Metadata with all paddings, with and without a timeout; every timeout;  *)
(* every message; targets; credentials and arguments; the messages of each *)
(* class.  These do not influence each other.                              *)
MCCalls ==
  << {[Call EXCEPT !.metadata = m, !.remaining = r, !.padding = p] :
        m \in MCMetadata, r \in {<<>>, <<7>>}, p \in 0..2},
     {[Call EXCEPT !.remaining = r] : r \in MCRemainders},
     {[Call EXCEPT !.message = t] : t \in MCMessages},
     {[Call EXCEPT !.target = t] : t \in MCTargets},
     {[Call EXCEPT !.creds = c, !.foreign = f, !.method = m, !.args = a] :
        c \in {"null", "insecure", "mtls", "ssl"}, f \in BOOLEAN,
        m \in {"GetFeature", "ListFeatures", "RecordRoute", "RouteChat"},
        a \in {<<>>, [max_receive |-> -1, permit |-> 0]}},
     MessageCalls(Point), MessageCalls(Rectangle), MessageCalls(Feature),
     MessageCalls(RouteNote), MessageCalls(RouteSummary) >>
=============================================================================
