-------------------------- MODULE TransportProofs --------------------------
(***************************************************************************)
(* Proofs about SessionIo and Transport: for any requests, bodies, records *)
(* and windows of the session, and what is proved of TlsSocket still holds *)
(* when a session follows.                                                 *)
(***************************************************************************)
EXTENDS Transport, TlsSocketProofs, SequenceTheorems

(* The session's octets *)

Controls == {Io!Control(kind) : kind \in {"settings", "ack", "ping", "goaway"}}
DataOctets == {Io!Octet("data", s, n, n = BodyLength) : s \in Streams, n \in 1..BodyLength}
Octets == Controls \cup {Io!Headers(s) : s \in Streams} \cup DataOctets

IoTypes ==
  /\ control \in Seq(Controls) /\ heads \in Seq(Streams)
  /\ offset \in [Streams -> -1..BodyLength] /\ window \in Nat
  /\ out \in Seq(Octets) /\ consumed \in 0..Len(out)
  /\ record \in Seq(Octets) /\ produced \in Seq(Octets) /\ wire \in Seq(Octets)

(* What is pending, with the record in front, is what did not go out yet. *)
OrderInv == produced = wire \o Io!Pending /\ Io!StartsWith(Io!Pending, record)

(* x is among the octets p before position i. *)
Before(p, i, x) == \E j \in 1..(i - 1) : p[j] = x

(* The octet that comes before the n-th of stream s. *)
Previous(s, n) == IF n = 1 THEN Io!Headers(s) ELSE Io!Octet("data", s, n - 1, FALSE)

(* What WireInOrder says of bodies. *)
BodiesInOrder(p) ==
  \A i \in DOMAIN p : p[i].kind = "data" =>
    /\ Before(p, i, Previous(p[i].stream, p[i].n))
    /\ \A j \in DOMAIN p : p[j] = p[i] => j = i

(* Of a body the octets up to the stream's offset are produced. *)
UpTo(p, off) ==
  /\ \A i \in DOMAIN p : p[i].kind = "data" => p[i].n <= off[p[i].stream]
  /\ \A s \in Streams : off[s] >= 1 =>
       \E j \in DOMAIN p : p[j] = Io!Octet("data", s, off[s], off[s] = BodyLength)

(* HEADERS of a request that was submitted wait or are produced. *)
Headed(p, hs, off) ==
  \A s \in Streams : off[s] >= 0 =>
    (\E j \in DOMAIN hs : hs[j] = s) \/ \E j \in DOMAIN p : p[j] = Io!Headers(s)

BodyInv == BodiesInOrder(produced) /\ UpTo(produced, offset) /\ Headed(produced, heads, offset)

IoInv == IoTypes /\ OrderInv /\ BodyInv

(* What the kinds of octets are. *)
LEMMA OctetFacts ==
  /\ \A x \in Octets : x.kind = "data" =>
       /\ x.stream \in Streams /\ x.n \in 1..BodyLength /\ x.end = (x.n = BodyLength)
       /\ x = Io!Octet("data", x.stream, x.n, x.n = BodyLength)
  /\ \A x \in Controls : x \in Octets /\ x.kind # "data"
  /\ \A s \in Streams : Io!Headers(s) \in Octets /\ Io!Headers(s).kind # "data"
  /\ \A s \in Streams, n \in 1..BodyLength : Io!Octet("data", s, n, n = BodyLength) \in Octets
<1>1. \A x \in Controls : x \in Octets /\ x.kind # "data"
  BY DEF Octets, Controls, Io!Control, Io!Octet
<1>2. \A s \in Streams : Io!Headers(s) \in Octets /\ Io!Headers(s).kind # "data"
  BY Zenon DEF Octets, Io!Headers, Io!Octet
<1>3. ASSUME NEW x \in Octets, x.kind = "data"
      PROVE  /\ x.stream \in Streams /\ x.n \in 1..BodyLength /\ x.end = (x.n = BodyLength)
             /\ x = Io!Octet("data", x.stream, x.n, x.n = BodyLength)
  <2>1. x \in DataOctets
    BY <1>1, <1>2, <1>3 DEF Octets
  <2>2. PICK s \in Streams, n \in 1..BodyLength : x = Io!Octet("data", s, n, n = BodyLength)
    BY <2>1 DEF DataOctets
  <2>3. x.stream = s /\ x.n = n /\ x.end = (n = BodyLength)
    BY <2>2, Zenon DEF Io!Octet
  <2> QED
    BY <2>2, <2>3
<1>4. \A s \in Streams, n \in 1..BodyLength : Io!Octet("data", s, n, n = BodyLength) \in Octets
  BY DEF Octets, DataOctets
<1> QED
  BY <1>1, <1>2, <1>3, <1>4, Zenon

(* Octets that are put behind p. *)
LEMMA Longer ==
  ASSUME NEW S, NEW p \in Seq(S), NEW d \in Seq(S)
  PROVE  /\ p \o d \in Seq(S) /\ Len(p) \in Nat /\ Len(d) \in Nat
         /\ DOMAIN p = 1..Len(p) /\ DOMAIN (p \o d) = 1..(Len(p) + Len(d))
         /\ \A i \in 1..Len(p) : (p \o d)[i] = p[i]
         /\ \A i \in 1..Len(d) : (p \o d)[Len(p) + i] = d[i]
<1>1. /\ p \o d \in Seq(S) /\ Len(p \o d) = Len(p) + Len(d) /\ Len(p) \in Nat /\ Len(d) \in Nat
      /\ \A i \in 1..(Len(p) + Len(d)) : (p \o d)[i] = IF i <= Len(p) THEN p[i] ELSE d[i - Len(p)]
  BY ConcatProperties, LenProperties
<1>2. DOMAIN p = 1..Len(p) /\ DOMAIN (p \o d) = 1..(Len(p) + Len(d))
  BY <1>1, LenProperties
<1>3. ASSUME NEW i \in 1..Len(p) PROVE (p \o d)[i] = p[i]
  BY <1>1
<1>4. ASSUME NEW i \in 1..Len(d) PROVE (p \o d)[Len(p) + i] = d[i]
  <2>1. Len(p) + i \in 1..(Len(p) + Len(d)) /\ ~(Len(p) + i <= Len(p)) /\ (Len(p) + i) - Len(p) = i
    BY <1>1
  <2> QED
    BY <1>1, <2>1
<1> QED
  BY <1>1, <1>2, <1>3, <1>4

(* Any other octet leaves bodies as they are. *)
LEMMA EmitOther ==
  ASSUME NEW p \in Seq(Octets), NEW x \in Octets, x.kind # "data",
         NEW off, BodiesInOrder(p), UpTo(p, off)
  PROVE  BodiesInOrder(p \o <<x>>) /\ UpTo(p \o <<x>>, off)
<1> DEFINE d == <<x>>
           q == p \o d
           L == Len(p)
<1>1. d \in Seq(Octets) /\ Len(d) = 1 /\ d[1] = x
  OBVIOUS
<1> HIDE DEF d
<1>2. /\ q \in Seq(Octets) /\ L \in Nat /\ DOMAIN p = 1..L /\ DOMAIN q = 1..(L + Len(d))
      /\ \A i \in 1..L : q[i] = p[i]
      /\ \A i \in 1..Len(d) : q[L + i] = d[i]
  BY <1>1, Longer
<1>3. DOMAIN q = 1..(L + 1) /\ q[L + 1] = x
  BY <1>1, <1>2
<1> HIDE DEF q, L
<1>4. ASSUME NEW i \in DOMAIN q, q[i].kind = "data"
      PROVE  i \in DOMAIN p /\ q[i] = p[i] /\ i \in 1..L /\ i # L + 1
  <2>1. i # L + 1
    BY <1>3, <1>4
  <2>2. i \in 1..L
    BY <1>2, <1>3, <2>1
  <2> QED
    BY <1>2, <2>1, <2>2
<1>5. BodiesInOrder(q)
  <2> SUFFICES ASSUME NEW i \in DOMAIN q, q[i].kind = "data"
               PROVE  /\ Before(q, i, Previous(q[i].stream, q[i].n))
                      /\ \A j \in DOMAIN q : q[j] = q[i] => j = i
    BY DEF BodiesInOrder
  <2>1. i \in DOMAIN p /\ q[i] = p[i] /\ i \in 1..L
    BY <1>4
  <2>2. /\ Before(p, i, Previous(p[i].stream, p[i].n))
        /\ \A j \in DOMAIN p : p[j] = p[i] => j = i
    BY <2>1 DEF BodiesInOrder
  <2>3. Before(q, i, Previous(q[i].stream, q[i].n))
    <3>1. PICK j \in 1..(i - 1) : p[j] = Previous(p[i].stream, p[i].n)
      BY <2>2 DEF Before
    <3>2. j \in 1..L
      BY <1>2, <2>1
    <3> QED
      BY <1>2, <2>1, <3>1, <3>2 DEF Before
  <2>4. ASSUME NEW j \in DOMAIN q, q[j] = q[i] PROVE j = i
    <3>1. j \in DOMAIN p /\ q[j] = p[j]
      BY <1>4, <2>4
    <3> QED
      BY <2>1, <2>2, <2>4, <3>1
  <2> QED
    BY <2>3, <2>4
<1>6. UpTo(q, off)
  <2>1. \A i \in DOMAIN q : q[i].kind = "data" => q[i].n <= off[q[i].stream]
    BY <1>4 DEF UpTo
  <2>2. ASSUME NEW s \in Streams, off[s] >= 1
        PROVE  \E j \in DOMAIN q : q[j] = Io!Octet("data", s, off[s], off[s] = BodyLength)
    <3>1. PICK j \in DOMAIN p : p[j] = Io!Octet("data", s, off[s], off[s] = BodyLength)
      BY <2>2 DEF UpTo
    <3>2. j \in 1..L /\ j \in DOMAIN q
      BY <1>2, <1>3
    <3> QED
      BY <1>2, <3>1, <3>2
  <2> QED
    BY <2>1, <2>2 DEF UpTo
<1> QED
  BY <1>5, <1>6 DEF q, d

(* The fields of an octet of a body. *)
LEMMA DataFields ==
  \A s, n, e : /\ Io!Octet("data", s, n, e).kind = "data" /\ Io!Octet("data", s, n, e).stream = s
               /\ Io!Octet("data", s, n, e).n = n
  BY Zenon DEF Io!Octet

(* The m octets of a body of which f are produced. *)
BodyPart(d, s, f, m) ==
  \A i \in 1..m : d[i] = Io!Octet("data", s, f + i, f + i = BodyLength)

(* More of a body goes behind what there is of it. *)
LEMMA EmitData ==
  ASSUME NEW p \in Seq(Octets), NEW off \in [Streams -> -1..BodyLength],
         NEW s \in Streams, NEW m \in Nat, m >= 1, off[s] >= 0, off[s] + m <= BodyLength,
         NEW d \in Seq(Octets), Len(d) = m, BodyPart(d, s, off[s], m),
         NEW new, new[s] = off[s] + m, \A t \in Streams : t # s => new[t] = off[t],
         BodiesInOrder(p), UpTo(p, off), \E j \in DOMAIN p : p[j] = Io!Headers(s)
  PROVE  BodiesInOrder(p \o d) /\ UpTo(p \o d, new)
<1> DEFINE q == p \o d
           L == Len(p)
           f == off[s]
<1>1. f \in Nat /\ BodyLength \in Nat /\ f + m \in 1..BodyLength
  BY OctetsAssumption
<1>2. ASSUME NEW i \in 1..m
      PROVE  /\ f + i \in 1..BodyLength /\ i \in Nat /\ f + i \in Nat
             /\ d[i] = Io!Octet("data", s, f + i, f + i = BodyLength) /\ d[i] \in Octets
             /\ d[i].kind = "data" /\ d[i].stream = s /\ d[i].n = f + i
  <2>1. f + i \in 1..BodyLength /\ i \in Nat /\ f + i \in Nat
    BY <1>1
  <2>2. d[i] = Io!Octet("data", s, f + i, f + i = BodyLength)
    BY DEF BodyPart
  <2>3. d[i].kind = "data" /\ d[i].stream = s /\ d[i].n = f + i
    BY <2>2, DataFields
  <2> QED
    BY <2>1, <2>2, <2>3, OctetFacts
<1>3. d \in Seq(Octets) /\ Len(d) = m
  OBVIOUS
<1>4. /\ q \in Seq(Octets) /\ L \in Nat /\ DOMAIN p = 1..L /\ DOMAIN q = 1..(L + m)
      /\ \A i \in 1..L : q[i] = p[i]
      /\ \A i \in 1..m : q[L + i] = d[i]
  <2>1. q \in Seq(Octets) /\ L \in Nat /\ DOMAIN p = 1..L /\ DOMAIN q = 1..(L + Len(d))
    BY Longer, ZenonT(30)
  <2>2. \A i \in 1..L : q[i] = p[i]
    BY Longer
  <2>3. \A i \in 1..Len(d) : q[L + i] = d[i]
    BY Longer
  <2> HIDE DEF q, L
  <2> QED
    BY <1>3, <2>1, <2>2, <2>3
<1>5. new[s] = f + m /\ \A t \in Streams : t # s => new[t] = off[t]
  OBVIOUS
<1> HIDE DEF q, L, f
<1>6. ASSUME NEW i \in 1..L, p[i].kind = "data"
      PROVE  /\ p[i].stream \in Streams /\ p[i].n \in 1..BodyLength
             /\ p[i].n <= off[p[i].stream] /\ (p[i].stream = s => p[i].n <= f)
  <2>1. p[i] \in Octets
    BY <1>4, ElementOfSeq
  <2> QED
    BY <1>4, <1>6, <2>1, OctetFacts, Zenon DEF UpTo, f
<1>7. ASSUME NEW i \in DOMAIN q, ~(i \in 1..L)
      PROVE  i - L \in 1..m /\ i = L + (i - L) /\ q[i] = d[i - L]
  <2>1. i - L \in 1..m /\ i = L + (i - L)
    BY <1>4, <1>7
  <2> QED
    BY <1>4, <2>1
<1>8. BodiesInOrder(q)
  <2> SUFFICES ASSUME NEW i \in DOMAIN q, q[i].kind = "data"
               PROVE  /\ Before(q, i, Previous(q[i].stream, q[i].n))
                      /\ \A j \in DOMAIN q : q[j] = q[i] => j = i
    BY DEF BodiesInOrder
  <2>1. CASE i \in 1..L
    <3>1. q[i] = p[i] /\ p[i].kind = "data" /\ i \in DOMAIN p
      BY <1>4, <2>1
    <3>2. PICK j \in 1..(i - 1) : p[j] = Previous(p[i].stream, p[i].n)
      BY <3>1 DEF BodiesInOrder, Before
    <3>3. j \in 1..L
      BY <1>4, <2>1
    <3>4. Before(q, i, Previous(q[i].stream, q[i].n))
      BY <1>4, <3>1, <3>2, <3>3 DEF Before
    <3>5. ASSUME NEW k \in DOMAIN q, q[k] = q[i] PROVE k = i
      <4>1. CASE k \in 1..L
        BY <1>4, <3>1, <3>5, <4>1 DEF BodiesInOrder
      <4>2. CASE ~(k \in 1..L)
        <5>0. k - L \in 1..m /\ q[k] = d[k - L]
          BY <1>7, <4>2
        <5>1. k - L \in 1..m /\ q[k].stream = s /\ q[k].n = f + (k - L)
          BY <1>2, <5>0
        <5>2. p[i].stream = s => p[i].n <= f
          BY <1>6, <2>1, <3>1
        <5>3. p[i].stream = s /\ p[i].n = f + (k - L) /\ p[i].n <= f
          BY <3>1, <3>5, <5>1, <5>2
        <5> QED
          BY <1>1, <5>1, <5>3
      <4> QED
        BY <4>1, <4>2
    <3> QED
      BY <3>4, <3>5
  <2>2. CASE ~(i \in 1..L)
    <3> DEFINE k == i - L
    <3>1. k \in 1..m /\ i = L + k /\ q[i] = d[k]
      BY <1>7, <2>2
    <3> HIDE DEF k
    <3>2. q[i].stream = s /\ q[i].n = f + k /\ f + k \in 1..BodyLength /\ k \in Nat
      BY <1>2, <3>1
    <3>3. ASSUME k > 1 PROVE Before(q, i, Previous(q[i].stream, q[i].n))
      <4>1. k - 1 \in 1..m /\ L + (k - 1) \in 1..(i - 1) /\ f + k # 1
            /\ (f + k) - 1 = f + (k - 1) /\ f + (k - 1) # BodyLength
        BY <1>1, <1>4, <3>1, <3>2, <3>3
      <4>2. d[k - 1] = Io!Octet("data", s, f + (k - 1), f + (k - 1) = BodyLength)
        BY <1>2, <4>1
      <4>3. q[L + (k - 1)] = Io!Octet("data", s, (f + k) - 1, FALSE)
        BY <1>4, <4>1, <4>2, Zenon
      <4>4. Previous(s, f + k) = Io!Octet("data", s, (f + k) - 1, FALSE)
        BY <4>1 DEF Previous
      <4>5. q[L + (k - 1)] = Previous(q[i].stream, q[i].n)
        BY <3>2, <4>3, <4>4, ZenonT(30)
      <4> QED
        BY <4>1, <4>5 DEF Before
    <3>4. ASSUME k = 1 PROVE Before(q, i, Previous(q[i].stream, q[i].n))
      <4>1. f + k = f + 1
        BY <3>4
      <4>2. PICK j \in DOMAIN p : p[j] = Previous(s, f + 1)
        <5>1. CASE f = 0
          <6>1. Previous(s, f + 1) = Io!Headers(s)
            BY <5>1 DEF Previous
          <6> QED
            BY <6>1
        <5>2. CASE f # 0
          <6>1. f >= 1 /\ f + 1 # 1 /\ (f + 1) - 1 = f /\ f # BodyLength
            BY <1>1, <3>2, <4>1, <5>2
          <6>2. PICK j \in DOMAIN p : p[j] = Io!Octet("data", s, f, f = BodyLength)
            BY <6>1 DEF UpTo, f
          <6>3. (f = BodyLength) = FALSE
            BY <6>1
          <6> QED
            BY <6>1, <6>2, <6>3, ZenonT(30) DEF Previous
        <5> QED
          BY <5>1, <5>2
      <4>3. j \in 1..L /\ j \in 1..(i - 1)
        BY <1>4, <3>1, <3>4
      <4>4. q[j] = Previous(q[i].stream, q[i].n)
        BY <1>4, <3>2, <4>1, <4>2, <4>3
      <4> QED
        BY <4>3, <4>4 DEF Before
    <3>5. ASSUME NEW j \in DOMAIN q, q[j] = q[i] PROVE j = i
      <4>1. CASE j \in 1..L
        <5>1. p[j].kind = "data" /\ p[j].stream = s /\ p[j].n = f + k
          BY <1>4, <3>2, <3>5, <4>1
        <5>2. p[j].n <= f
          BY <1>6, <4>1, <5>1
        <5> QED
          BY <1>1, <3>1, <5>1, <5>2
      <4>2. CASE ~(j \in 1..L)
        <5> DEFINE l == j - L
        <5>1. l \in 1..m /\ j = L + l /\ q[j] = d[l]
          BY <1>7, <4>2
        <5> HIDE DEF l
        <5>2. q[j].n = f + l
          BY <1>2, <5>1
        <5>3. f + l = f + k
          BY <3>2, <3>5, <5>2
        <5>4. l = k
          BY <1>1, <3>1, <5>1, <5>3
        <5> QED
          BY <3>1, <5>1, <5>4
      <4> QED
        BY <4>1, <4>2
    <3>6. Before(q, i, Previous(q[i].stream, q[i].n))
      BY <3>1, <3>3, <3>4
    <3> QED
      BY <3>5, <3>6
  <2> QED
    BY <2>1, <2>2
<1>9. UpTo(q, new)
  <2>1. ASSUME NEW i \in DOMAIN q, q[i].kind = "data"
        PROVE  q[i].n <= new[q[i].stream]
    <3>1. CASE i \in 1..L
      <4>1. q[i] = p[i] /\ p[i].kind = "data"
        BY <1>4, <2>1, <3>1
      <4>2. /\ p[i].stream \in Streams /\ p[i].n \in 1..BodyLength
            /\ p[i].n <= off[p[i].stream] /\ (p[i].stream = s => p[i].n <= f)
        BY <1>6, <3>1, <4>1
      <4>3. CASE p[i].stream = s
        BY <1>1, <1>5, <4>1, <4>2, <4>3
      <4>4. CASE p[i].stream # s
        BY <1>5, <4>1, <4>2, <4>4
      <4> QED
        BY <4>3, <4>4
    <3>2. CASE ~(i \in 1..L)
      <4>1. i - L \in 1..m /\ q[i] = d[i - L]
        BY <1>7, <3>2
      <4>2. q[i].n = f + (i - L) /\ q[i].stream = s
        BY <1>2, <4>1
      <4> QED
        BY <1>1, <1>5, <4>1, <4>2
    <3> QED
      BY <3>1, <3>2
  <2>2. ASSUME NEW t \in Streams, new[t] >= 1
        PROVE  \E j \in DOMAIN q : q[j] = Io!Octet("data", t, new[t], new[t] = BodyLength)
    <3>1. CASE t = s
      <4>1. m \in 1..m /\ L + m \in DOMAIN q
        BY <1>4
      <4>2. q[L + m] = Io!Octet("data", s, f + m, f + m = BodyLength)
        BY <1>2, <1>4, <4>1, SMTT(30)
      <4> QED
        BY <1>5, <3>1, <4>1, <4>2
    <3>2. CASE t # s
      <4>1. new[t] = off[t]
        BY <1>5, <3>2
      <4>2. PICK j \in DOMAIN p : p[j] = Io!Octet("data", t, off[t], off[t] = BodyLength)
        BY <2>2, <4>1 DEF UpTo
      <4>3. j \in 1..L /\ j \in DOMAIN q
        BY <1>4
      <4> QED
        BY <1>4, <4>1, <4>2, <4>3
    <3> QED
      BY <3>1, <3>2
  <2> QED
    BY <2>1, <2>2 DEF UpTo
<1> QED
  BY <1>3, <1>8, <1>9 DEF q

(* What is pending of a buffer. *)
LEMMA PendingFacts ==
  ASSUME NEW S, NEW b \in Seq(S), NEW c \in 0..Len(b)
  PROVE  /\ SubSeq(b, c + 1, Len(b)) \in Seq(S) /\ Len(b) \in Nat
         /\ Len(SubSeq(b, c + 1, Len(b))) = Len(b) - c
         /\ \A i \in 1..(Len(b) - c) : SubSeq(b, c + 1, Len(b))[i] = b[c + i]
<1> DEFINE L == Len(b)
           m == c + 1
<1>1. L \in Nat /\ c \in 0..L
  BY LenProperties
<1> HIDE DEF L
<1>2. \A i \in m..L : b[i] \in S
  <2> SUFFICES ASSUME NEW i \in m..L PROVE b[i] \in S
    OBVIOUS
  <2>1. i \in 1..L
    BY <1>1
  <2> QED
    BY <2>1, ElementOfSeq DEF L
<1>3. m \in Int /\ L \in Int /\ L - m + 1 = L - c /\ (m <= L \/ L - c = 0)
  BY <1>1
<1> HIDE DEF m
<1>4. /\ SubSeq(b, m, L) \in Seq(S) /\ Len(SubSeq(b, m, L)) = IF m <= L THEN L - m + 1 ELSE 0
      /\ \A i \in 1..(L - m + 1) : SubSeq(b, m, L)[i] = b[m + i - 1]
  BY <1>2, <1>3, SubSeqProperties
<1>5. Len(SubSeq(b, m, L)) = L - c
  BY <1>3, <1>4
<1>6. \A i \in 1..(L - c) : m + i - 1 = c + i
  BY <1>1 DEF m
<1>7. \A i \in 1..(L - c) : SubSeq(b, m, L)[i] = b[c + i]
  BY <1>3, <1>4, <1>6
<1> QED
  BY <1>1, <1>4, <1>5, <1>7 DEF L, m

(* Octets that are put behind the buffer are put behind what is pending. *)
LEMMA PendingGrows ==
  ASSUME NEW S, NEW b \in Seq(S), NEW c \in 0..Len(b), NEW d \in Seq(S)
  PROVE  SubSeq(b \o d, c + 1, Len(b \o d)) = SubSeq(b, c + 1, Len(b)) \o d
<1> DEFINE p == SubSeq(b, c + 1, Len(b))
           e == b \o d
           q == SubSeq(e, c + 1, Len(e))
           L == Len(b)
           M == Len(d)
<1>1. /\ e \in Seq(S) /\ L \in Nat /\ M \in Nat /\ Len(e) = L + M
      /\ \A i \in 1..L : e[i] = b[i]
      /\ \A i \in 1..M : e[L + i] = d[i]
  BY Longer, ConcatProperties
<1>2. p \in Seq(S) /\ Len(p) = L - c /\ \A i \in 1..(L - c) : p[i] = b[c + i]
  BY PendingFacts
<1>3. c \in 0..L /\ c \in 0..Len(e) /\ Len(e) - c = (L - c) + M
  BY <1>1
<1> HIDE DEF e, L
<1>4. q \in Seq(S) /\ Len(q) = Len(e) - c /\ \A i \in 1..(Len(e) - c) : q[i] = e[c + i]
  BY <1>1, <1>3, PendingFacts
<1> HIDE DEF p, q
<1>5. /\ p \o d \in Seq(S) /\ Len(p \o d) = Len(p) + M
      /\ \A i \in 1..Len(p) : (p \o d)[i] = p[i]
      /\ \A i \in 1..M : (p \o d)[Len(p) + i] = d[i]
  <2>1. p \in Seq(S)
    BY <1>2
  <2>2. Len(p \o d) = Len(p) + M
    BY <2>1, ConcatProperties
  <2> QED
    BY <2>1, <2>2, Longer
<1> HIDE DEF M
<1>6. Len(p \o d) = Len(q)
  BY <1>1, <1>2, <1>3, <1>4, <1>5
<1>7. ASSUME NEW i \in 1..Len(q) PROVE q[i] = (p \o d)[i]
  <2>1. i \in 1..((L - c) + M) /\ q[i] = e[c + i]
    BY <1>3, <1>4
  <2>2. CASE i <= L - c
    <3>1. i \in 1..(L - c) /\ c + i \in 1..L
      BY <1>1, <1>3, <2>1, <2>2
    <3> QED
      BY <1>1, <1>2, <1>5, <2>1, <3>1
  <2>3. CASE ~(i <= L - c)
    <3> DEFINE k == i - (L - c)
    <3>1. k \in 1..M /\ c + i = L + k /\ i = (L - c) + k
      BY <1>1, <1>3, <2>1, <2>3
    <3> HIDE DEF k
    <3> QED
      BY <1>1, <1>2, <1>5, <2>1, <3>1, ZenonT(30)
  <2> QED
    BY <2>2, <2>3, ZenonT(30)
<1>8. q = p \o d
  BY <1>4, <1>5, <1>6, <1>7, SeqEqual, Zenon
<1> QED
  BY <1>8, Zenon DEF p, q, e

(* A prefix has the same octets in the same places. *)
LEMMA PrefixMeans ==
  ASSUME NEW S, NEW r \in Seq(S), NEW p \in Seq(S)
  PROVE  Io!StartsWith(p, r) <=> Len(r) <= Len(p) /\ \A i \in 1..Len(r) : r[i] = p[i]
<1> DEFINE K == Len(r)
           y == SubSeq(p, 1, K)
<1>1. K \in Nat /\ Len(p) \in Nat
  BY LenProperties
<1> SUFFICES ASSUME K <= Len(p)
             PROVE  y = r <=> \A i \in 1..K : r[i] = p[i]
  BY <1>1 DEF Io!StartsWith
<1>2. \A i \in 1..K : r[i] \in S /\ p[i] \in S
  BY <1>1, ElementOfSeq
<1>3. 1 \in Int /\ K \in Int /\ K - 1 + 1 = K /\ (1 <= K \/ K = 0)
  BY <1>1
<1>4. /\ y \in Seq(S) /\ Len(y) = IF 1 <= K THEN K - 1 + 1 ELSE 0
      /\ \A i \in 1..(K - 1 + 1) : y[i] = p[1 + i - 1]
  BY <1>2, <1>3, SubSeqProperties
<1> HIDE DEF y, K
<1>5. \A i \in 1..K : 1 + i - 1 = i
  BY <1>1
<1>6. Len(y) = K /\ \A i \in 1..K : y[i] = p[i]
  BY <1>3, <1>4, <1>5
<1>7. ASSUME \A i \in 1..K : r[i] = p[i] PROVE y = r
  <2>1. Len(r) = K /\ \A i \in 1..Len(r) : y[i] = r[i]
    BY <1>6, <1>7 DEF K
  <2> QED
    BY <1>4, <1>6, <2>1, SeqEqual
<1> QED
  BY <1>6, <1>7

(* If the front of what is pending is consumed, the rest is pending. *)
LEMMA PendingTaken ==
  ASSUME NEW S, NEW b \in Seq(S), NEW c \in 0..Len(b), NEW a \in Seq(S),
         Io!StartsWith(SubSeq(b, c + 1, Len(b)), a)
  PROVE  /\ Len(a) \in Nat /\ c + Len(a) \in 0..Len(b)
         /\ SubSeq(b, c + 1, Len(b)) = a \o SubSeq(b, (c + Len(a)) + 1, Len(b))
<1> DEFINE p == SubSeq(b, c + 1, Len(b))
           L == Len(b)
           K == Len(a)
           e == c + K
           q == SubSeq(b, e + 1, L)
<1>1. p \in Seq(S) /\ L \in Nat /\ Len(p) = L - c /\ \A i \in 1..(L - c) : p[i] = b[c + i]
  BY PendingFacts
<1>2. K \in Nat /\ K <= Len(p) /\ \A i \in 1..K : a[i] = p[i]
  <2>1. p \in Seq(S) /\ Io!StartsWith(p, a)
    BY <1>1
  <2> HIDE DEF p
  <2>2. K <= Len(p) /\ \A i \in 1..K : a[i] = p[i]
    BY <2>1, PrefixMeans
  <2> QED
    BY <2>2, LenProperties
<1>3. e \in 0..L /\ L - c = K + (L - e) /\ c \in 0..L
  BY <1>1, <1>2
<1>4. q \in Seq(S) /\ Len(q) = L - e /\ \A i \in 1..(L - e) : q[i] = b[e + i]
  BY <1>3, PendingFacts, ZenonT(30)
<1> HIDE DEF p, q
<1>5. /\ a \o q \in Seq(S) /\ Len(a \o q) = K + Len(q)
      /\ \A i \in 1..K : (a \o q)[i] = a[i]
      /\ \A i \in 1..Len(q) : (a \o q)[K + i] = q[i]
  BY <1>4, Longer, ConcatProperties
<1>6. e = c + K
  OBVIOUS
<1> HIDE DEF L, K, e
<1>7. Len(p) = Len(a \o q)
  BY <1>1, <1>3, <1>4, <1>5
<1>8. ASSUME NEW i \in 1..Len(p) PROVE p[i] = (a \o q)[i]
  <2>1. CASE i <= K
    <3>1. i \in 1..K
      BY <1>1, <1>2, <2>1
    <3> QED
      BY <1>2, <1>5, <3>1
  <2>2. CASE ~(i <= K)
    <3> DEFINE k == i - K
    <3>1. k \in 1..(L - e) /\ i = K + k /\ c + i = e + k /\ i \in 1..(L - c)
      BY <1>1, <1>2, <1>3, <1>6, <2>2
    <3> HIDE DEF k
    <3> QED
      BY <1>1, <1>4, <1>5, <3>1, Zenon
  <2> QED
    BY <2>1, <2>2, Zenon
<1>9. p = a \o q
  BY <1>1, <1>5, <1>7, <1>8, SeqEqual, Zenon
<1> QED
  BY <1>2, <1>3, <1>9, ZenonT(30) DEF p, q, L, K, e

(* One octet that is put behind p. *)
LEMMA OneLonger ==
  ASSUME NEW S, NEW p \in Seq(S), NEW x \in S
  PROVE  /\ Len(p) \in Nat /\ DOMAIN p = 1..Len(p) /\ DOMAIN (p \o <<x>>) = 1..(Len(p) + 1)
         /\ (\A i \in 1..Len(p) : (p \o <<x>>)[i] = p[i]) /\ (p \o <<x>>)[Len(p) + 1] = x
<1> DEFINE d == <<x>>
<1>1. d \in Seq(S) /\ Len(d) = 1 /\ d[1] = x /\ 1 \in 1..Len(d)
  OBVIOUS
<1> HIDE DEF d
<1>2. /\ Len(p) \in Nat /\ DOMAIN p = 1..Len(p) /\ DOMAIN (p \o d) = 1..(Len(p) + Len(d))
      /\ \A i \in 1..Len(p) : (p \o d)[i] = p[i]
      /\ \A i \in 1..Len(d) : (p \o d)[Len(p) + i] = d[i]
  BY <1>1, Longer
<1>3. (p \o d)[Len(p) + 1] = x
  BY <1>1, <1>2
<1> QED
  BY <1>1, <1>2, <1>3 DEF d

(* What is produced stays produced. *)
LEMMA HeadedLonger ==
  ASSUME NEW p \in Seq(Octets), NEW d \in Seq(Octets), NEW hs, NEW off, Headed(p, hs, off)
  PROVE  Headed(p \o d, hs, off)
<1> DEFINE q == p \o d
<1>1. ASSUME NEW j \in DOMAIN p PROVE j \in DOMAIN q /\ q[j] = p[j]
  <2>1. /\ Len(p) \in Nat /\ Len(d) \in Nat /\ DOMAIN p = 1..Len(p)
        /\ DOMAIN q = 1..(Len(p) + Len(d)) /\ \A i \in 1..Len(p) : q[i] = p[i]
    BY Longer
  <2> HIDE DEF q
  <2> QED
    BY <2>1
<1> HIDE DEF q
<1>2. Headed(q, hs, off)
  BY <1>1 DEF Headed
<1> QED
  BY <1>2 DEF q

(* Octets that nghttp2 produces come last in the buffer. *)
LEMMA EmitsLast ==
  ASSUME IoTypes, OrderInv, NEW d \in Seq(Octets), Io!Emit(d),
         UNCHANGED <<consumed, record, wire>>
  PROVE  /\ OrderInv' /\ out' \in Seq(Octets) /\ consumed' \in 0..Len(out')
         /\ produced' = produced \o d /\ produced' \in Seq(Octets)
<1> DEFINE p == SubSeq(out, consumed + 1, Len(out))
           q == p \o d
<1>1. /\ out \in Seq(Octets) /\ consumed \in 0..Len(out) /\ record \in Seq(Octets)
      /\ produced \in Seq(Octets) /\ wire \in Seq(Octets)
      /\ out' = out \o d /\ produced' = produced \o d
  BY DEF IoTypes, Io!Emit
<1>2. p \in Seq(Octets) /\ SubSeq(out', consumed' + 1, Len(out')) = q
  BY <1>1, PendingFacts, PendingGrows, ZenonT(30)
<1>3. produced = wire \o p /\ Io!StartsWith(p, record)
  BY DEF OrderInv, Io!Pending
<1> HIDE DEF p
<1>4. produced' = wire' \o q
  <2>1. wire \in Seq(Octets) /\ p \in Seq(Octets)
    BY <1>1, <1>2
  <2>2. (wire \o p) \o d = wire \o (p \o d)
    BY <2>1, ConcatAssociative
  <2> QED
    BY <1>1, <1>3, <2>2
<1>5. /\ q \in Seq(Octets) /\ Len(q) = Len(p) + Len(d) /\ Len(p) \in Nat /\ Len(d) \in Nat
      /\ \A i \in 1..Len(p) : q[i] = p[i]
  BY <1>2, Longer, ConcatProperties
<1>6. Len(record) \in Nat /\ Len(record) <= Len(p) /\ \A i \in 1..Len(record) : record[i] = p[i]
  BY <1>1, <1>2, <1>3, PrefixMeans, LenProperties
<1>7. Io!StartsWith(q, record)
  <2> HIDE DEF q
  <2>1. Len(record) <= Len(q) /\ \A i \in 1..Len(record) : record[i] = q[i]
    BY <1>5, <1>6
  <2> QED
    BY <1>1, <1>5, <2>1, PrefixMeans
<1>8. OrderInv'
  BY <1>1, <1>2, <1>4, <1>7, Zenon DEF OrderInv, Io!Pending
<1>9. out' \in Seq(Octets) /\ produced' \in Seq(Octets) /\ Len(out') = Len(out) + Len(d)
      /\ Len(out) \in Nat
  BY <1>1, ConcatProperties, LenProperties
<1> QED
  BY <1>1, <1>5, <1>8, <1>9

(* One nghttp2_session_mem_send. *)
LEMMA MemSendInv ==
  ASSUME IoInv, Io!MemSend, UNCHANGED <<consumed, record, wire>>
  PROVE  IoInv'
<1>1. /\ IoTypes /\ OrderInv /\ BodiesInOrder(produced) /\ UpTo(produced, offset)
      /\ Headed(produced, heads, offset)
      /\ control \in Seq(Controls) /\ heads \in Seq(Streams) /\ window \in Nat
      /\ offset \in [Streams -> -1..BodyLength] /\ produced \in Seq(Octets)
  BY DEF IoInv, BodyInv, IoTypes
<1>2. CASE /\ control # <<>> /\ Io!Emit(<<Head(control)>>)
           /\ control' = Tail(control) /\ UNCHANGED <<heads, offset, window>>
  <2> DEFINE x == Head(control)
  <2>1. x \in Controls /\ control' \in Seq(Controls)
    BY <1>1, <1>2, HeadTailProperties
  <2>2. x \in Octets /\ x.kind # "data"
    BY <2>1, OctetFacts
  <2> HIDE DEF x
  <2>3. <<x>> \in Seq(Octets) /\ Io!Emit(<<x>>)
    BY <1>2, <2>2 DEF x
  <2>4. /\ OrderInv' /\ out' \in Seq(Octets) /\ consumed' \in 0..Len(out')
        /\ produced' = produced \o <<x>> /\ produced' \in Seq(Octets)
    BY <1>1, <2>3, EmitsLast, Zenon
  <2>5. BodiesInOrder(produced \o <<x>>) /\ UpTo(produced \o <<x>>, offset)
    BY <1>1, <2>2, EmitOther, Zenon
  <2>6. Headed(produced \o <<x>>, heads, offset)
    BY <1>1, <2>3, HeadedLonger, Zenon
  <2>7. BodyInv'
    BY <1>2, <2>4, <2>5, <2>6 DEF BodyInv
  <2>8. IoTypes'
    BY <1>1, <1>2, <2>1, <2>4 DEF IoTypes
  <2> QED
    BY <2>4, <2>7, <2>8 DEF IoInv
<1>3. CASE /\ control = <<>> /\ heads # <<>> /\ Io!Emit(<<Io!Headers(Head(heads))>>)
           /\ heads' = Tail(heads) /\ UNCHANGED <<control, offset, window>>
  <2> DEFINE h == Head(heads)
             x == Io!Headers(h)
  <2>1. h \in Streams /\ heads' \in Seq(Streams)
    BY <1>1, <1>3, HeadTailProperties
  <2>2. x \in Octets /\ x.kind # "data"
    BY <2>1, OctetFacts
  <2> HIDE DEF x
  <2>3. <<x>> \in Seq(Octets) /\ Io!Emit(<<x>>)
    BY <1>3, <2>2, SMTT(30) DEF x
  <2>4. /\ OrderInv' /\ out' \in Seq(Octets) /\ consumed' \in 0..Len(out')
        /\ produced' = produced \o <<x>> /\ produced' \in Seq(Octets)
    BY <1>1, <2>3, EmitsLast, Zenon
  <2>5. BodiesInOrder(produced \o <<x>>) /\ UpTo(produced \o <<x>>, offset)
    BY <1>1, <2>2, EmitOther, Zenon
  <2>6. Headed(produced \o <<x>>, Tail(heads), offset)
    <3> SUFFICES ASSUME NEW s \in Streams, offset[s] >= 0,
                        ~ \E j \in DOMAIN Tail(heads) : Tail(heads)[j] = s
                 PROVE  \E j \in DOMAIN (produced \o <<x>>) : (produced \o <<x>>)[j] = Io!Headers(s)
      BY DEF Headed
    <3> DEFINE q == produced \o <<x>>
               L == Len(produced)
    <3>1. /\ L \in Nat /\ DOMAIN produced = 1..L /\ DOMAIN q = 1..(L + 1)
          /\ (\A i \in 1..L : q[i] = produced[i]) /\ q[L + 1] = x
      <4>1. produced \in Seq(Octets) /\ x \in Octets
        BY <1>1, <2>2
      <4> QED
        BY <4>1, OneLonger
    <3> HIDE DEF q, L
    <3>2. CASE \E j \in DOMAIN produced : produced[j] = Io!Headers(s)
      <4>1. PICK j \in DOMAIN produced : produced[j] = Io!Headers(s)
        BY <3>2
      <4>2. j \in DOMAIN q /\ j \in 1..L
        BY <3>1
      <4> QED
        BY <3>1, <4>1, <4>2 DEF q
    <3>3. CASE \E j \in DOMAIN heads : heads[j] = s
      <4>1. PICK j \in DOMAIN heads : heads[j] = s
        BY <3>3
      <4>2. /\ DOMAIN heads = 1..Len(heads) /\ Len(heads) \in Nat /\ h = heads[1]
            /\ Tail(heads) \in Seq(Streams) /\ Len(Tail(heads)) = Len(heads) - 1
            /\ \A i \in 1..Len(Tail(heads)) : Tail(heads)[i] = heads[i + 1]
        BY <1>1, <1>3, HeadTailProperties, LenProperties
      <4>3. DOMAIN Tail(heads) = 1..Len(Tail(heads))
        BY <4>2, LenProperties
      <4>4. j = 1
        <5>1. SUFFICES ASSUME j # 1 PROVE FALSE
          OBVIOUS
        <5>2. j - 1 \in 1..Len(Tail(heads)) /\ (j - 1) + 1 = j
          BY <4>2, <5>1
        <5>3. Tail(heads)[j - 1] = s
          BY <4>1, <4>2, <5>2
        <5> QED
          BY <4>3, <5>2, <5>3
      <4>5. h = s
        BY <4>1, <4>2, <4>4
      <4>6. L + 1 \in DOMAIN q /\ q[L + 1] = Io!Headers(s)
        BY <3>1, <4>5 DEF x
      <4> QED
        BY <4>6 DEF q
    <3> QED
      BY <1>1, <3>2, <3>3, SMTT(30) DEF Headed
  <2>7. BodyInv'
    BY <1>3, <2>4, <2>5, <2>6 DEF BodyInv
  <2>8. IoTypes'
    BY <1>1, <1>3, <2>1, <2>4 DEF IoTypes
  <2> QED
    BY <2>4, <2>7, <2>8 DEF IoInv
<1>4. ASSUME NEW s \in Io!Sendable, NEW d, d = Io!DataSourceRead(s, window), heads = <<>>, window > 0,
             Io!Emit(d), window' = window - Len(d), offset' = [offset EXCEPT ![s] = @ + Len(d)],
             UNCHANGED <<control, heads>>
      PROVE  IoInv'
  <2> DEFINE m == Io!MinOf(window, BodyLength - offset[s])
             new == [offset EXCEPT ![s] = @ + m]
  <2>1. s \in Streams /\ offset[s] \in 0..BodyLength - 1 /\ BodyLength \in Nat
    BY <1>4, OctetsAssumption DEF Io!Sendable
  <2>2. m \in Nat /\ m >= 1 /\ m <= window /\ offset[s] >= 0 /\ offset[s] + m <= BodyLength
    BY <1>1, <1>4, <2>1 DEF Io!MinOf
  <2>3. d = [i \in 1..m |-> Io!Octet("data", s, offset[s] + i, offset[s] + i = BodyLength)]
    BY <1>4 DEF Io!DataSourceRead
  <2>4. \E j \in DOMAIN produced : produced[j] = Io!Headers(s)
    <3>1. DOMAIN heads = {}
      BY <1>4
    <3> QED
      BY <1>1, <2>1, <2>2, <3>1 DEF Headed
  <2> HIDE DEF m
  <2>5. d \in Seq(Octets) /\ Len(d) = m /\ BodiesInOrder(produced \o d) /\ UpTo(produced \o d, new)
    <3>1. produced \in Seq(Octets) /\ offset \in [Streams -> -1..BodyLength] /\ s \in Streams
      BY <1>1, <2>1
    <3>2. BodiesInOrder(produced) /\ UpTo(produced, offset)
      BY <1>1
    <3>3. ASSUME NEW i \in 1..m
          PROVE  /\ d[i] = Io!Octet("data", s, offset[s] + i, offset[s] + i = BodyLength)
                 /\ d[i] \in Octets
      <4>1. offset[s] + i \in 1..BodyLength
        BY <2>1, <2>2
      <4>2. d[i] = Io!Octet("data", s, offset[s] + i, offset[s] + i = BodyLength)
        BY <2>3
      <4> QED
        BY <2>1, <4>1, <4>2, OctetFacts
    <3>4. d \in [1..m -> Octets]
      BY <2>3, <3>3
    <3>5. d \in Seq(Octets) /\ Len(d) = m
      BY <2>2, <3>4, IsASeq, LenProperties
    <3>6. new[s] = offset[s] + m /\ \A t \in Streams : t # s => new[t] = offset[t]
      BY <3>1
    <3> HIDE DEF new
    <3>7. BodyPart(d, s, offset[s], m)
      BY <3>3 DEF BodyPart
    <3> QED
      BY <2>2, <2>4, <3>1, <3>2, <3>5, <3>6, <3>7, EmitData, ZenonT(30)
  <2>6. /\ OrderInv' /\ out' \in Seq(Octets) /\ consumed' \in 0..Len(out')
        /\ produced' = produced \o d /\ produced' \in Seq(Octets)
    BY <1>1, <1>4, <2>5, EmitsLast, ZenonT(30)
  <2>7. offset' = new
    BY <1>4, <2>5
  <2>8. Headed(produced \o d, heads, offset)
    BY <1>1, <2>5, HeadedLonger
  <2>9. Headed(produced \o d, heads, new)
    <3> SUFFICES ASSUME NEW t \in Streams, new[t] >= 0 PROVE offset[t] >= 0
      BY <2>8 DEF Headed
    <3> QED
      BY <1>1, <2>1
  <2>10. BodyInv'
    BY <1>4, <2>5, <2>6, <2>7, <2>9 DEF BodyInv
  <2>11. new \in [Streams -> -1..BodyLength] /\ window - m \in Nat
    BY <1>1, <2>1, <2>2
  <2>12. IoTypes'
    BY <1>1, <1>4, <2>5, <2>6, <2>7, <2>11 DEF IoTypes
  <2> QED
    BY <2>6, <2>10, <2>12 DEF IoInv
<1> QED
  BY <1>2, <1>3, <1>4 DEF Io!MemSend

(* The front of p is a prefix of p. *)
LEMMA FrontIsPrefix ==
  ASSUME NEW S, NEW p \in Seq(S), NEW k \in 0..Len(p)
  PROVE  SubSeq(p, 1, k) \in Seq(S) /\ Io!StartsWith(p, SubSeq(p, 1, k))
<1> DEFINE a == SubSeq(p, 1, k)
<1>1. Len(p) \in Nat /\ k \in Nat /\ k <= Len(p)
  BY LenProperties
<1>2. \A i \in 1..k : p[i] \in S
  BY <1>1, ElementOfSeq
<1>3. 1 \in Int /\ k \in Int /\ k - 1 + 1 = k /\ (1 <= k \/ k = 0) /\ \A i \in 1..k : 1 + i - 1 = i
  BY <1>1
<1>4. /\ a \in Seq(S) /\ Len(a) = IF 1 <= k THEN k - 1 + 1 ELSE 0
      /\ \A i \in 1..(k - 1 + 1) : a[i] = p[1 + i - 1]
  BY <1>2, <1>3, SubSeqProperties
<1> HIDE DEF a
<1>5. Len(a) = k /\ \A i \in 1..k : a[i] = p[i]
  BY <1>3, <1>4
<1>6. Io!StartsWith(p, a)
  BY <1>1, <1>4, <1>5, PrefixMeans
<1> QED
  BY <1>4, <1>6 DEF a

(* Nothing is a prefix of everything. *)
LEMMA NothingIsPrefix ==
  ASSUME NEW S, NEW p \in Seq(S)
  PROVE  Io!StartsWith(p, <<>>)
<1> DEFINE e == <<>>
<1>1. e \in Seq(S) /\ Len(e) = 0 /\ Len(p) \in Nat
  BY LenProperties
<1> HIDE DEF e
<1>2. Len(e) <= Len(p) /\ \A i \in 1..Len(e) : e[i] = p[i]
  BY <1>1
<1>3. Io!StartsWith(p, e)
  BY <1>1, <1>2, PrefixMeans, Zenon
<1> QED
  BY <1>3 DEF e

(* TlsSocket::Write takes a record's octets from the front of the pending  *)
(* ones, or keeps the record.                                              *)
LEMMA WriteInv ==
  ASSUME IoInv, NEW again, NEW wants, Io!Write(again, wants)
  PROVE  IoInv'
<1> DEFINE p == Io!Pending
           attempt == IF record = <<>>
                      THEN SubSeq(p, 1, Io!MinOf(RecordMax, Len(p))) ELSE record
<1>1. /\ IoTypes /\ OrderInv /\ BodyInv
      /\ out \in Seq(Octets) /\ consumed \in 0..Len(out) /\ record \in Seq(Octets)
      /\ wire \in Seq(Octets)
  BY DEF IoInv, IoTypes
<1>2. UNCHANGED <<control, heads, offset, window, out, produced>>
  BY DEF Io!Write
<1>3. \/ /\ consumed' = Io!MinOf(consumed + Len(attempt), Len(out))
         /\ wire' = wire \o attempt /\ record' = <<>>
      \/ record' = attempt /\ UNCHANGED <<consumed, wire>>
  BY ZenonT(30) DEF Io!Write
<1>4. p \in Seq(Octets) /\ Len(p) \in Nat
  BY <1>1, PendingFacts, LenProperties DEF Io!Pending
<1>5. attempt \in Seq(Octets) /\ Io!StartsWith(p, attempt)
  <2>1. CASE record = <<>>
    <3> DEFINE k == Io!MinOf(RecordMax, Len(p))
    <3>1. k \in 0..Len(p)
      BY <1>4, OctetsAssumption DEF Io!MinOf
    <3> HIDE DEF k, p
    <3>2. SubSeq(p, 1, k) \in Seq(Octets) /\ Io!StartsWith(p, SubSeq(p, 1, k))
      BY <1>4, <3>1, FrontIsPrefix
    <3> QED
      BY <2>1, <3>2 DEF k
  <2>2. CASE record # <<>>
    BY <1>1, <2>2 DEF OrderInv
  <2> QED
    BY <2>1, <2>2
<1>6. produced = wire \o p
  BY <1>1 DEF OrderInv
<1> HIDE DEF attempt
<1>7. CASE /\ consumed' = Io!MinOf(consumed + Len(attempt), Len(out))
           /\ wire' = wire \o attempt /\ record' = <<>>
  <2> DEFINE q == SubSeq(out, (consumed + Len(attempt)) + 1, Len(out))
  <2>0. Io!StartsWith(SubSeq(out, consumed + 1, Len(out)), attempt)
    BY <1>5 DEF Io!Pending
  <2>1. /\ Len(attempt) \in Nat /\ consumed + Len(attempt) \in 0..Len(out)
        /\ SubSeq(out, consumed + 1, Len(out)) = attempt \o q
    BY <1>1, <1>5, <2>0, PendingTaken, SMTT(30)
  <2>2. p = attempt \o q
    BY <2>1, ZenonT(30) DEF Io!Pending
  <2>3. consumed' = consumed + Len(attempt)
    <3> DEFINE L == Len(out)
               e == consumed + Len(attempt)
    <3>1. L \in Nat /\ e \in 0..L /\ consumed' = IF e < L THEN e ELSE L
      BY <1>1, <1>7, <2>1, LenProperties DEF Io!MinOf
    <3> HIDE DEF L, e
    <3>2. consumed' = e
      BY <3>1
    <3> QED
      BY <3>2 DEF e
  <2>4. Io!Pending' = q
    BY <1>2, <2>3 DEF Io!Pending
  <2>5. q \in Seq(Octets)
    BY <1>1, <2>1, PendingFacts
  <2> HIDE DEF q, p
  <2>6. wire' \in Seq(Octets) /\ wire' \o q = wire \o (attempt \o q)
    <3>1. wire \in Seq(Octets) /\ attempt \in Seq(Octets) /\ wire' = wire \o attempt
      BY <1>1, <1>5, <1>7
    <3>2. wire \o attempt \in Seq(Octets)
      BY <3>1, ConcatProperties
    <3>3. (wire \o attempt) \o q = wire \o (attempt \o q)
      BY <2>5, <3>1, ConcatAssociative
    <3> QED
      BY <3>1, <3>2, <3>3
  <2>7. OrderInv'
    <3>1. produced' = wire' \o q
      BY <1>2, <1>6, <2>2, <2>6
    <3>2. Io!StartsWith(q, <<>>)
      BY <2>5, NothingIsPrefix
    <3> QED
      BY <1>7, <2>4, <3>1, <3>2 DEF OrderInv
  <2>8. IoTypes'
    BY <1>1, <1>2, <1>7, <2>1, <2>3, <2>6 DEF IoTypes
  <2>9. BodyInv'
    BY <1>1, <1>2 DEF BodyInv
  <2> QED
    BY <2>7, <2>8, <2>9 DEF IoInv
<1>8. CASE record' = attempt /\ UNCHANGED <<consumed, wire>>
  <2>1. Io!Pending' = p
    BY <1>2, <1>8 DEF Io!Pending
  <2> HIDE DEF p
  <2>2. OrderInv'
    BY <1>2, <1>5, <1>6, <1>8, <2>1 DEF OrderInv
  <2>3. IoTypes'
    BY <1>1, <1>2, <1>5, <1>8 DEF IoTypes
  <2>4. BodyInv'
    BY <1>1, <1>2 DEF BodyInv
  <2> QED
    BY <2>2, <2>3, <2>4 DEF IoInv
<1> QED
  BY <1>3, <1>7, <1>8

(* PendingOutput forgets a buffer of which nothing is pending, and fills it. *)
LEMMA PendingOutputInv ==
  ASSUME IoInv, NEW test, NEW refill, NEW some, NEW none,
         Io!PendingOutput(test, refill, some, none), UNCHANGED <<record, wire>>
  PROVE  IoInv'
<1>1. CASE Io!MemSend /\ UNCHANGED consumed
  BY <1>1, MemSendInv
<1>2. CASE UNCHANGED <<control, heads, offset, window, out, consumed, produced>>
  BY <1>2 DEF IoInv, IoTypes, OrderInv, BodyInv, Io!Pending
<1>3. CASE /\ Io!Consumed /\ out' = <<>> /\ consumed' = 0
           /\ UNCHANGED <<control, heads, offset, window, produced>>
  <2>1. IoTypes /\ OrderInv /\ BodyInv /\ out \in Seq(Octets) /\ consumed \in 0..Len(out)
        /\ Len(out) \in Nat
    BY LenProperties DEF IoInv, IoTypes
  <2>2. consumed = Len(out) /\ Len(out) + 1 > Len(out)
    BY <1>3, <2>1 DEF Io!Consumed
  <2>3. SubSeq(out, Len(out) + 1, Len(out)) = <<>>
    <3> DEFINE e == SubSeq(out, Len(out) + 1, Len(out))
    <3>1. e \in Seq(Octets) /\ Len(e) = Len(out) - Len(out)
      BY <2>1, PendingFacts
    <3> HIDE DEF e
    <3>2. Len(e) = 0
      BY <2>1, <3>1
    <3>3. e = <<>>
      BY <3>1, <3>2, EmptySeq
    <3> QED
      BY <3>3 DEF e
  <2>4. SubSeq(<<>>, 1, 0) = <<>> /\ <<>> \in Seq(Octets) /\ Len(<<>>) = 0
    OBVIOUS
  <2>5. Io!Pending = <<>> /\ Io!Pending' = <<>>
    BY <1>3, <2>2, <2>3, <2>4 DEF Io!Pending
  <2>6. OrderInv'
    BY <1>3, <2>1, <2>5 DEF OrderInv
  <2>7. IoTypes'
    BY <1>3, <2>1, <2>4 DEF IoTypes
  <2>8. BodyInv'
    BY <1>3, <2>1 DEF BodyInv
  <2> QED
    BY <2>6, <2>7, <2>8 DEF IoInv
<1> QED
  BY <1>1, <1>2, <1>3 DEF Io!PendingOutput, Io!h2

(* The constructor's SETTINGS. *)
LEMMA InitIo ==
  ASSUME Io!IoInit
  PROVE  IoInv
<1>1. Io!Control("settings") \in Controls
  BY DEF Controls
<1> DEFINE e == <<>>
<1>2. e \in Seq(Octets) /\ Len(e) = 0 /\ e \o e = e /\ DOMAIN e = {} /\ SubSeq(e, 1, 0) = e
  OBVIOUS
<1>3. Io!StartsWith(e, e)
  BY <1>2, NothingIsPrefix, ZenonT(30)
<1>4. /\ control \in Seq(Controls) /\ heads = <<>> /\ offset = [s \in Streams |-> -1]
      /\ window \in Nat /\ out = e /\ consumed = 0 /\ record = e /\ produced = e /\ wire = e
  BY <1>1, OctetsAssumption DEF Io!IoInit
<1>5. offset \in [Streams -> -1..BodyLength] /\ \A s \in Streams : offset[s] = -1
  BY <1>4, OctetsAssumption
<1>6. heads \in Seq(Streams)
  BY <1>4
<1> HIDE DEF e
<1>7. IoTypes
  BY <1>2, <1>4, <1>5, <1>6 DEF IoTypes
<1>8. OrderInv
  <2>1. Io!Pending = e
    BY <1>2, <1>4, SMTT(30) DEF Io!Pending
  <2> QED
    BY <1>2, <1>3, <1>4, <2>1, Zenon DEF OrderInv
<1>9. BodyInv
  BY <1>2, <1>4, <1>5 DEF BodyInv, BodiesInOrder, UpTo, Headed
<1> QED
  BY <1>7, <1>8, <1>9 DEF IoInv

(* Other steps leave octets that were produced alone. *)
LEMMA QueueInv ==
  ASSUME IoInv, control' \in Seq(Controls), window' \in Nat,
         UNCHANGED <<heads, offset, out, consumed, record, produced, wire>>
  PROVE  IoInv'
  BY DEF IoInv, IoTypes, OrderInv, BodyInv, Io!Pending

(* A request that is submitted: its HEADERS wait. *)
LEMMA SubmitInv ==
  ASSUME IoInv, NEW s \in Streams, Io!SubmitUnaryRequest(s)
  PROVE  IoInv'
<1>1. /\ IoTypes /\ OrderInv /\ BodiesInOrder(produced) /\ UpTo(produced, offset)
      /\ Headed(produced, heads, offset) /\ heads \in Seq(Streams)
      /\ offset \in [Streams -> -1..BodyLength] /\ produced \in Seq(Octets)
  BY DEF IoInv, BodyInv, IoTypes
<1>2. /\ UNCHANGED <<control, window, out, consumed, record, produced, wire>>
      /\ offset[s] = -1 /\ heads' = Append(heads, s) /\ offset' = [offset EXCEPT ![s] = 0]
  BY DEF Io!SubmitUnaryRequest, Io!Enqueue, Io!ssl
<1>3. offset' \in [Streams -> -1..BodyLength]
  BY <1>1, <1>2, OctetsAssumption, SMTT(30)
<1>4. /\ heads' \in Seq(Streams) /\ Len(heads) \in Nat /\ DOMAIN heads = 1..Len(heads)
      /\ DOMAIN heads' = 1..(Len(heads) + 1) /\ heads'[Len(heads) + 1] = s
      /\ \A i \in 1..Len(heads) : heads'[i] = heads[i]
  BY <1>1, <1>2, AppendProperties, LenProperties
<1>5. \A t \in Streams : t # s => offset'[t] = offset[t]
  BY <1>1, <1>2
<1>6. offset'[s] = 0
  BY <1>1, <1>2, SMTT(30)
<1>7. UpTo(produced', offset')
  <2>1. ASSUME NEW i \in DOMAIN produced, produced[i].kind = "data"
        PROVE  produced[i].n <= offset'[produced[i].stream]
    <3>1. /\ produced[i].stream \in Streams /\ produced[i].n \in 1..BodyLength
          /\ produced[i].n <= offset[produced[i].stream]
      <4>1. produced[i] \in Octets
        BY <1>1, LenProperties, ElementOfSeq
      <4> QED
        BY <1>1, <2>1, <4>1, OctetFacts, ZenonT(30) DEF UpTo
    <3>2. produced[i].stream # s
      BY <1>2, <3>1, SMTT(30)
    <3> QED
      BY <1>5, <3>1, <3>2
  <2>2. ASSUME NEW t \in Streams, offset'[t] >= 1
        PROVE  \E j \in DOMAIN produced :
                 produced[j] = Io!Octet("data", t, offset'[t], offset'[t] = BodyLength)
    <3>1. t # s
      BY <1>6, <2>2
    <3>2. offset'[t] = offset[t]
      BY <1>5, <3>1
    <3> QED
      BY <1>1, <2>2, <3>2 DEF UpTo
  <2> QED
    BY <1>2, <2>1, <2>2 DEF UpTo
<1>8. Headed(produced', heads', offset')
  <2> SUFFICES ASSUME NEW t \in Streams, offset'[t] >= 0
               PROVE  \/ \E j \in DOMAIN heads' : heads'[j] = t
                      \/ \E j \in DOMAIN produced' : produced'[j] = Io!Headers(t)
    BY DEF Headed
  <2>1. CASE t = s
    <3>1. Len(heads) + 1 \in DOMAIN heads'
      BY <1>4
    <3> QED
      BY <1>4, <2>1, <3>1
  <2>2. CASE t # s
    <3>1. offset[t] >= 0
      BY <1>5, <2>2
    <3>2. CASE \E j \in DOMAIN heads : heads[j] = t
      <4>1. PICK j \in DOMAIN heads : heads[j] = t
        BY <3>2
      <4>2. j \in 1..Len(heads) /\ j \in DOMAIN heads'
        BY <1>4
      <4> QED
        BY <1>4, <4>1, <4>2
    <3>3. CASE \E j \in DOMAIN produced : produced[j] = Io!Headers(t)
      BY <1>2, <3>3
    <3> QED
      BY <1>1, <3>1, <3>2, <3>3, ZenonT(30) DEF Headed
  <2> QED
    BY <2>1, <2>2
<1>9. OrderInv' /\ BodiesInOrder(produced')
  BY <1>1, <1>2, SMTT(30) DEF OrderInv, Io!Pending
<1>10. IoTypes'
  BY <1>1, <1>2, <1>3, <1>4 DEF IoTypes
<1> QED
  BY <1>7, <1>8, <1>9, <1>10 DEF IoInv, BodyInv

(* Every step of a session. *)
LEMMA NextIoInv ==
  ASSUME IoInv, Io!IoNext
  PROVE  IoInv'
<1>1. /\ control \in Seq(Controls) /\ window \in Nat
      /\ \A kind \in {"ack", "ping", "goaway"} :
           Append(control, Io!Control(kind)) \in Seq(Controls)
  <2>1. control \in Seq(Controls) /\ window \in Nat
    BY DEF IoInv, IoTypes
  <2>2. ASSUME NEW kind \in {"ack", "ping", "goaway"}
        PROVE  Append(control, Io!Control(kind)) \in Seq(Controls)
    <3>1. Io!Control(kind) \in Controls
      BY DEF Controls
    <3> QED
      BY <2>1, <3>1, AppendProperties
  <2> QED
    BY <2>1, <2>2
<1>2. ASSUME UNCHANGED <<control, heads, offset, window, out, consumed, record, produced, wire>>
      PROVE  IoInv'
  BY <1>1, <1>2, QueueInv
<1>3. CASE Io!FlushOutput
  BY <1>3, PendingOutputInv, WriteInv DEF Io!FlushOutput, Io!ssl
<1>4. CASE Io!FlushBeforeClose
  BY <1>4, PendingOutputInv, WriteInv, ZenonT(30) DEF Io!FlushBeforeClose, Io!ssl
<1>5. CASE Io!OnSocketReady
  BY <1>2, <1>5 DEF Io!OnSocketReady, Io!h2, Io!ssl
<1>6. CASE Io!DrainSocket
  <2>1. control' \in Seq(Controls) /\ window' \in Nat
    <3>1. control' = control \/ control' = Append(control, Io!Control("ack"))
      BY <1>6, ZenonT(30) DEF Io!DrainSocket
    <3>2. window' = window \/ window' = window + 1
      BY <1>6, ZenonT(30) DEF Io!DrainSocket
    <3> QED
      BY <1>1, <3>1, <3>2
  <2>2. UNCHANGED <<heads, offset, out, consumed, record, produced, wire>>
    BY <1>6, Zenon DEF Io!DrainSocket, Io!ssl
  <2> QED
    BY <2>1, <2>2, QueueInv
<1>7. CASE \E s \in Streams : Io!SubmitUnaryRequest(s)
  BY <1>7, SubmitInv
<1>8. CASE Io!KeepalivePing
  BY <1>1, <1>8, QueueInv DEF Io!KeepalivePing, Io!Enqueue, Io!ssl
<1>9. CASE Io!Terminate
  BY <1>1, <1>9, QueueInv, ZenonT(30) DEF Io!Terminate, Io!Enqueue, Io!ssl
<1>10. CASE Io!PeerReads
  BY <1>2, <1>10 DEF Io!PeerReads, Io!h2, Io!ssl
<1>11. CASE \E what \in {"window update", "settings", "eof"} : Io!PeerSends(what)
  BY <1>2, <1>11, ZenonT(30) DEF Io!PeerSends, Io!h2, Io!ssl
<1>12. CASE Io!Closed
  BY <1>2, <1>12 DEF Io!Closed, Io!io_vars, Io!h2, Io!ssl
<1> QED
  BY <1>3, <1>4, <1>5, <1>6, <1>7, <1>8, <1>9, <1>10, <1>11, <1>12, ZenonT(30) DEF Io!IoNext, Io!EventThread

(* What the invariant says of the wire. *)
LEMMA IoInvGives ==
  ASSUME IoInv
  PROVE  WireInOrder
<1>1. IoTypes /\ OrderInv /\ BodiesInOrder(produced) /\ produced \in Seq(Octets)
  BY DEF IoInv, BodyInv, IoTypes
<1>2. ASSUME NEW i \in DOMAIN produced, produced[i].kind = "data"
      PROVE  /\ \E j \in 1..(i - 1) :
                  produced[j] = IF produced[i].n = 1 THEN Io!Headers(produced[i].stream)
                                ELSE Io!Octet("data", produced[i].stream, produced[i].n - 1, FALSE)
             /\ \A j \in DOMAIN produced : produced[j] = produced[i] => j = i
             /\ produced[i].n \in 1..BodyLength
             /\ produced[i].end = (produced[i].n = BodyLength)
  <2>1. produced[i] \in Octets
    BY <1>1, LenProperties, ElementOfSeq
  <2>2. produced[i].n \in 1..BodyLength /\ produced[i].end = (produced[i].n = BodyLength)
    BY <1>2, <2>1, OctetFacts, Zenon
  <2>3. /\ Before(produced, i, Previous(produced[i].stream, produced[i].n))
        /\ \A j \in DOMAIN produced : produced[j] = produced[i] => j = i
    BY <1>1, <1>2, ZenonT(30) DEF BodiesInOrder
  <2> QED
    BY <2>2, <2>3, Zenon DEF Before, Previous
<1> QED
  BY <1>1, <1>2, Zenon DEF WireInOrder, Io!WireInOrder, OrderInv

----------------------------------------------------------------------------
(* The connection *)

(* A session starts on the descriptor of the attempt that got connected. *)
LEMMA StartSessionInv ==
  ASSUME TInv, StartSession
  PROVE  TInv'
<1>1. /\ sock.state = "Connected" /\ peers' = [i \in 1..Addresses |-> "good"]
      /\ sock' = [sock EXCEPT !.fd = 1, !.next = 2]
      /\ table' = [f \in 1..MaxFd |-> IF f = 1 THEN "sock" ELSE "free"]
      /\ watched' = 1 /\ trouble' = FALSE /\ UNCHANGED <<conn, timer, pc>>
  BY DEF StartSession
<1>2. pc = "poll" /\ sock.fd # -1 /\ sock.ctx /\ sock.next > 1 /\ conn # "refused"
  BY <1>1 DEF TInv, TypeInv, FdInv, Idle
<1>3. sock \in Sockets /\ sock.fd \in {-1} \cup 1..MaxFd /\ sock.next \in 1..(Addresses + 1)
  BY DEF TInv, TypeInv, Sockets
<1>4. 1 \in 1..MaxFd /\ 2 \in 1..(Addresses + 1) /\ 1 \in 1..Addresses
  BY <1>2, <1>3, AddressesAssumption
<1>5. /\ sock' \in Sockets /\ sock'.state = "Connected" /\ sock'.fd = 1 /\ sock'.next = 2
      /\ sock'.ctx = sock.ctx
  BY <1>1, <1>3, <1>4, Zenon DEF Sockets
<1>6. TypeInv'
  BY <1>1, <1>4, <1>5, ZenonT(30) DEF TInv, TypeInv, Kinds
<1>7. FdInv'
  BY <1>1, <1>2, <1>4, <1>5 DEF FdInv
<1>8. FirstInv'
  <2>1. \A i \in 1..Addresses : ~(i < 2 - 1)
    BY AddressesAssumption
  <2> QED
    BY <1>1, <1>2, <1>5, <2>1 DEF FirstInv, RefuseBelow, Connecting
<1> QED
  BY <1>6, <1>7, <1>8 DEF TInv

(* Both invariants hold in every state of a connection, from its first     *)
(* address to its close.                                                   *)
LEMMA NextTransportInv ==
  ASSUME TInv, IoInv, [TransportNext]_transport_vars
  PROVE  TInv' /\ IoInv'
<1>1. ASSUME UNCHANGED vars PROVE TInv'
  BY <1>1, NextTInv
<1>2. ASSUME UNCHANGED session_vars PROVE IoInv'
  BY <1>2, QueueInv DEF session_vars, IoInv, IoTypes
<1>3. CASE ConnectStep
  BY <1>2, <1>3, NextTInv DEF ConnectStep
<1>4. CASE StartSession
  <2>1. UNCHANGED session_vars
    BY <1>4 DEF StartSession
  <2> QED
    BY <1>2, <1>4, <2>1, StartSessionInv
<1>5. CASE InSession(Io!IoNext)
  BY <1>1, <1>5, NextIoInv DEF InSession
<1>6. CASE EndSession
  BY <1>2, <1>6, CloseInv DEF EndSession
<1>7. CASE UNCHANGED transport_vars
  BY <1>1, <1>2, <1>7 DEF transport_vars
<1> QED
  BY <1>3, <1>4, <1>5, <1>6, <1>7 DEF TransportNext

(* Both invariants hold in every state of a connection, from its first     *)
(* address through the session on it to its close.                         *)
THEOREM TransportInvariance == TransportSpec => [](TInv /\ IoInv)
<1>1. TransportInit => TInv /\ IoInv
  BY InitTInv, InitIo DEF TransportInit
<1>2. (TInv /\ IoInv) /\ [TransportNext]_transport_vars => (TInv /\ IoInv)'
  BY NextTransportInv
<1> QED
  BY <1>1, <1>2, PTL DEF TransportSpec

(* A session does not disturb that: the descriptor is the socket's until   *)
(* TearDown or DoShutdown closes it, and nothing is held then.             *)
THEOREM ConnectionOwnsDescriptor == TransportSpec => []OneDescriptor
  BY TransportInvariance, TInvOwns, PTL

(* Nor does it disturb which address the connection was made to. *)
THEOREM ConnectionIsFirstAnswer == TransportSpec => []FirstAnswerDecides
  BY TransportInvariance, TInvDecides, PTL

(* Octets go out once, in the order nghttp2 produced them, and bodies      *)
(* whole, for any number of requests, any length of a body, of a record    *)
(* and of the kernel's buffer, and any window (PendingOutput, FlushOutput, *)
(* TlsSocket::Write and ConsumeOutput).                                    *)
THEOREM OctetsInOrder == TransportSpec => []WireInOrder
  BY TransportInvariance, IoInvGives, PTL
=============================================================================
