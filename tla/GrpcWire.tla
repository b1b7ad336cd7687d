------------------------------ MODULE GrpcWire ------------------------------
(***************************************************************************)
(* The header value encodings of src/core/grpc_wire.cc, as functions on    *)
(* sequences of octets (0..255).                                           *)
(***************************************************************************)
EXTENDS Integers, Sequences

CONSTANTS
  TimeoutUnits,            \* kUnits: nanoseconds per unit, finest first
  MaxTimeoutDigitsValue    \* kMaxTimeoutDigitsValue

(* The last unit is the coarsest; the code has hours there. *)
ASSUME UnitsAssumption ==
  /\ TimeoutUnits \in Seq(Nat \ {0}) /\ TimeoutUnits # <<>>
  /\ TimeoutUnits[1] = 1
  /\ MaxTimeoutDigitsValue \in Nat \ {0}

(* Variant: a timeout is cut off at the unit. *)
RoundedDown(ns, u) == ns \div TimeoutUnits[u]

RoundedUp(ns, u) ==
  ns \div TimeoutUnits[u] + IF ns % TimeoutUnits[u] # 0 THEN 1 ELSE 0

(* EncodeGrpcTimeout: the value and (the index of) its unit. *)
EncodeGrpcTimeout(ns) ==
  LET Fits == {u \in DOMAIN TimeoutUnits :
                 RoundedUp(ns, u) <= MaxTimeoutDigitsValue}
      first == CHOOSE u \in Fits : \A v \in Fits : u <= v
  IN IF ns <= 0 THEN [value |-> 1, unit |-> 1]
     ELSE IF Fits = {} THEN [value |-> MaxTimeoutDigitsValue,
                             unit |-> Len(TimeoutUnits)]
     ELSE [value |-> RoundedUp(ns, first), unit |-> first]

----------------------------------------------------------------------------
(* grpc-message *)

Percent == 37

HexDigit(c) ==
  CASE c \in 48..57  -> c - 48
    [] c \in 97..102 -> c - 97 + 10
    [] c \in 65..70  -> c - 65 + 10
    [] OTHER         -> -1

(* Variant: an escape that ends the text is taken for a truncated one. *)
EscapeAtNotLast(in, i) ==
  /\ in[i] = Percent /\ i + 2 < Len(in)
  /\ HexDigit(in[i + 1]) >= 0 /\ HexDigit(in[i + 2]) >= 0

(* An escape starts at position i: two more octets, both hex digits. *)
EscapeAt(in, i) ==
  /\ in[i] = Percent /\ i + 2 <= Len(in)
  /\ HexDigit(in[i + 1]) >= 0 /\ HexDigit(in[i + 2]) >= 0

PercentDecode(in) ==
  LET Rest[i \in 1 .. Len(in) + 1] ==
        IF i > Len(in) THEN <<>>
        ELSE IF EscapeAt(in, i)
        THEN <<HexDigit(in[i + 1]) * 16 + HexDigit(in[i + 2])>> \o Rest[i + 3]
        ELSE <<in[i]>> \o Rest[i + 1]
  IN Rest[1]

----------------------------------------------------------------------------
(* -bin metadata *)

Base64Char(v) ==
  CASE v < 26 -> v + 65
    [] v \in 26..51 -> v - 26 + 97
    [] v \in 52..61 -> v - 52 + 48
    [] v = 62 -> 43
    [] v = 63 -> 47

Base64Value(c) ==
  CASE c \in 65..90  -> c - 65
    [] c \in 97..122 -> c - 97 + 26
    [] c \in 48..57  -> c - 48 + 52
    [] c = 43 -> 62
    [] c = 47 -> 63
    [] OTHER  -> -1

Pad == 61

(* Base64Encode: character j shows six of the 24 bits of its group; a last *)
(* group of one or two octets gives two or three characters.               *)
Base64Encode(in) ==
  LET Octet(i) == IF i <= Len(in) THEN in[i] ELSE 0
      Group(g) == Octet(3*g + 1) * 65536 + Octet(3*g + 2) * 256 + Octet(3*g + 3)
      rest == Len(in) % 3
      length == 4 * (Len(in) \div 3) + (IF rest = 0 THEN 0 ELSE rest + 1)
  IN [j \in 1..length |->
        Base64Char((Group((j - 1) \div 4) \div 64^(3 - ((j - 1) % 4))) % 64)]

(* What is left when every trailing '=' is taken away. *)
Unpadded(in) ==
  LET length == CHOOSE n \in 0..Len(in) :
                  /\ n = 0 \/ in[n] # Pad
                  /\ \A i \in n + 1 .. Len(in) : in[i] = Pad
  IN SubSeq(in, 1, length)

Base64Decodable(in) ==
  /\ Len(Unpadded(in)) % 4 # 1
  /\ \A i \in DOMAIN Unpadded(in) : Base64Value(Unpadded(in)[i]) >= 0

(* Base64Decode, where it returns true: octet m of the output is made of   *)
(* the eight bits that follow the first 8 * (m - 1).                       *)
Base64Decode(in) ==
  LET text == Unpadded(in)
      Two(i) == Base64Value(text[i]) * 64 + Base64Value(text[i + 1])
      First(m) == (8 * (m - 1)) \div 6
      Skipped(m) == (8 * (m - 1)) % 6
  IN [m \in 1 .. (6 * Len(text)) \div 8 |->
        (Two(First(m) + 1) \div 2^(4 - Skipped(m))) % 256]
=============================================================================
