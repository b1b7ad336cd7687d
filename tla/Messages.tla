------------------------------ MODULE Messages ------------------------------
(***************************************************************************)
(* The messages of the route guide (examples/route_guide/gen/              *)
(* route_guide.pb.cc), as SerializationTraits (include/grpcpp/impl/        *)
(* proto_utils.h) sends and receives them.                                 *)
(*                                                                         *)
(* protoc generates the same five functions for every message class, from  *)
(* the list of its fields.  They are operators here, over the kinds of the *)
(* fields 1, 2, ... of a class.  A message is [fields, unknown]; an absent *)
(* submessage is NoMessage.  Messages inside messages have no messages.    *)
(*                                                                         *)
(* The wire is a sequence of fields [num, type, size, value]: type is the  *)
(* wire type, size the length that a length-delimited field declares, and  *)
(* a varint is <<hi, lo>>, its two 32-bit halves as signed numbers.  The   *)
(* octets of varints and tags are the business of the protobuf library.    *)
(***************************************************************************)
EXTENDS Integers, SequencesExt

Point == <<"int32", "int32">>
Rectangle == <<"Point", "Point">>
Feature == <<"string", "Point">>
RouteNote == <<"Point", "string">>
RouteSummary == <<"int32", "int32", "int32", "int32">>
Classes == {Point, Rectangle, Feature, RouteNote, RouteSummary}

Varint == 0
Delimited == 2
EndGroup == 4
NoMessage == [fields |-> <<>>, unknown |-> <<>>]
Default == [int32 |-> 0, string |-> <<>>, Point |-> NoMessage]
WireType == [int32 |-> Varint, string |-> Delimited, Point |-> Delimited]
Set(class, m, i) == m.fields[i] # Default[class[i]]

Clear(class) ==
  [fields |-> [i \in DOMAIN class |-> Default[class[i]]], unknown |-> <<>>]

(* Strings are octets below 128, or 255, which is not UTF-8. *)
VerifyUTF8(text) == 255 \notin Range(text)

----------------------------------------------------------------------------
(* Sizes *)

VarintSize(hi, lo) ==
  IF hi # 0 THEN 10 ELSE IF lo < 0 THEN 5
  ELSE Cardinality({g \in 1..4 : lo >= 128^g}) + 1
Extended(v) == <<IF v < 0 THEN -1 ELSE 0, v>>
LengthDelimitedSize(n) == VarintSize(0, n) + n
Total(sizes) == FoldLeft(LAMBDA sum, size : sum + size, 0, sizes)

(* The octets that a sequence of fields takes. *)
FieldSize(f) ==
  1 + IF f.type = Varint THEN VarintSize(f.value[1], f.value[2])
      ELSE IF f.type = Delimited THEN LengthDelimitedSize(f.size) ELSE 0
WireSize(wire) == Total([i \in DOMAIN wire |-> FieldSize(wire[i])])

RECURSIVE ByteSizeLong(_, _)
ByteSizeLong(class, m) ==
  WireSize(m.unknown) +
  Total([i \in DOMAIN class |->
      IF ~Set(class, m, i) THEN 0
      ELSE 1 + CASE class[i] = "int32" -> VarintSize(Extended(m.fields[i])[1], m.fields[i])
                 [] class[i] = "string" -> LengthDelimitedSize(Len(m.fields[i]))
                 [] class[i] = "Point" ->
                      LengthDelimitedSize(ByteSizeLong(Point, m.fields[i]))])

----------------------------------------------------------------------------
(* Serialization: the fields that are set, then the unknown ones *)

RECURSIVE Serialize(_, _)
Serialize(class, m) ==
  LET Written(i) ==
        [num |-> i, type |-> WireType[class[i]]] @@
        CASE class[i] = "int32" -> [size |-> 0, value |-> Extended(m.fields[i])]
          [] class[i] = "string" -> [size |-> Len(m.fields[i]), value |-> m.fields[i]]
          [] class[i] = "Point" -> [size |-> ByteSizeLong(Point, m.fields[i]),
                                    value |-> Serialize(Point, m.fields[i])]
      set == SelectSeq([i \in DOMAIN class |-> i], LAMBDA i : Set(class, m, i))
  IN [i \in DOMAIN set |-> Written(set[i])] \o m.unknown

----------------------------------------------------------------------------
(* Parsing into a message, which keeps what was read when it fails *)

Result(ok, m) == [ok |-> ok, message |-> m]
WithField(m, i, v) == [m EXCEPT !.fields[i] = v]

(* _internal_mutable_location and the like: a submessage to write to. *)
Mutable(m, i) == IF m.fields[i] = NoMessage THEN Clear(Point) ELSE m.fields[i]

RECURSIVE InternalParse(_, _, _)

(* One turn of the loop of _InternalParse: a known field with its wire     *)
(* type; the end of a group that was never opened, or tag 0, which end the *)
(* message before its limit; everything else is kept as unknown.           *)
ParseField(class, m, f) ==
  IF f.num \in DOMAIN class /\ f.type = WireType[class[f.num]]
  THEN CASE class[f.num] = "int32" -> Result(TRUE, WithField(m, f.num, f.value[2]))
         [] class[f.num] = "string" ->
              Result(VerifyUTF8(f.value), WithField(m, f.num, f.value))
         [] class[f.num] = "Point" ->
              LET sub == InternalParse(Point, Mutable(m, f.num), f.value)
              IN Result(sub.ok /\ f.size = WireSize(f.value),
                        WithField(m, f.num, sub.message))
  ELSE IF f.num = 0 \/ f.type = EndGroup THEN Result(FALSE, m)
  ELSE Result(TRUE, [m EXCEPT !.unknown = Append(@, f)])

InternalParse(class, m, wire) ==
  IF wire = <<>> THEN Result(TRUE, m)
  ELSE LET first == ParseField(class, m, Head(wire))
       IN IF first.ok THEN InternalParse(class, first.message, Tail(wire)) ELSE first

(* Variant: what the message held is not cleared. *)
ParseFromStringUncleared(class, m, wire) == InternalParse(class, m, wire)

(* ParseFromString, which clears the message first. *)
ParseFromString(class, m, wire) == InternalParse(class, Clear(class), wire)

----------------------------------------------------------------------------
(* MergeFrom *)

RECURSIVE MergeFrom(_, _, _)
MergeFrom(class, m, from) ==
  [fields |-> [i \in DOMAIN class |->
                 IF ~Set(class, from, i) THEN m.fields[i]
                 ELSE IF class[i] = "Point"
                 THEN MergeFrom(Point, Mutable(m, i), from.fields[i])
                 ELSE from.fields[i]],
   unknown |-> m.unknown \o from.unknown]
=============================================================================
