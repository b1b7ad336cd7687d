-------------------------- MODULE CallStateProofs --------------------------
(***************************************************************************)
(* Proofs about CallState and its MessageScanner, for bodies of any length,*)
(* cut in any way, any size limit and any threshold of compaction.         *)
(*                                                                         *)
(* Scan and Drain are recursive functions.  What they compute is proved by *)
(* induction over sets of numbers: no set that contains every number all   *)
(* of whose predecessors it contains leaves one out.                       *)
(***************************************************************************)
EXTENDS CallState, Integers, SequenceTheorems, WellFoundedInduction, TLAPS

(* Induction: a set that holds a number whenever it holds all smaller ones *)
(* holds them all.                                                         *)
LEMMA SetInduction ==
  ASSUME NEW T,
         \A n \in Nat : (\A m \in Nat : m < n => m \in T) => n \in T
  PROVE  \A n \in Nat : n \in T
<1> DEFINE R == OpToRel(<, Nat)
           Out == {n \in Nat : n \notin T}
<1>1. IsWellFoundedOn(R, Nat)
  BY NatLessThanWellFounded, Zenon
<1>2. \A x, y \in Nat : y < x => <<y, x>> \in R
  BY DEF OpToRel
<1> HIDE DEF R
<1>3. ASSUME Out # {} PROVE FALSE
  <2>1. PICK x \in Out : \A y \in Out : ~(<<y, x>> \in R)
    BY <1>1, <1>3, WFMin, Zenon
  <2>2. \A m \in Nat : m < x => m \in T
    BY <1>2, <2>1, Zenon
  <2> QED
    BY <2>1, <2>2
<1> QED
  BY <1>3

----------------------------------------------------------------------------
(* Scan *)

Errors == {"none", "Internal", "ResourceExhausted"}

(* A frame at an offset is complete, and its prefix is valid. *)
Whole(buf, at) ==
  /\ Len(buf) - at >= PrefixLen /\ PrefixError(buf, at) = "none"
  /\ Len(buf) - at >= FrameLen(buf, at)

(* The equation of Scan's loop for the offsets from n on. *)
ScanFrom(f, buf, n) ==
  f = [at \in n..Len(buf) |->
        IF Len(buf) - at < PrefixLen THEN "none"
        ELSE IF PrefixError(buf, at) # "none" THEN PrefixError(buf, at)
        ELSE IF Len(buf) - at < FrameLen(buf, at) THEN "none"
        ELSE f[at + FrameLen(buf, at)]]

(* A frame takes up at least its prefix. *)
LEMMA FrameLenFacts ==
  ASSUME NEW buf \in Seq(Nat), NEW at \in Nat, Len(buf) - at >= PrefixLen
  PROVE  /\ FrameLen(buf, at) \in Nat /\ FrameLen(buf, at) >= 2
         /\ PrefixError(buf, at) \in Errors
<1>1. at + 1 \in 1..Len(buf) /\ at + 2 \in 1..Len(buf)
  BY DEF PrefixLen
<1>2. buf[at + 2] \in Nat
  BY <1>1, ElementOfSeq
<1> QED
  BY <1>2 DEF FrameLen, PrefixLen, PrefixError, Errors

(* The loop of Feed comes to an end: its equation has a solution. *)
LEMMA ScanExists ==
  ASSUME NEW buf \in Seq(Nat)
  PROVE  \E f : ScanFrom(f, buf, 0)
<1> DEFINE L == Len(buf)
           T == {m \in Nat : m <= L => \E f : ScanFrom(f, buf, L - m)}
<1>1. L \in Nat
  BY LenProperties
<1>2. ASSUME NEW n \in Nat, \A m \in Nat : m < n => m \in T
      PROVE  n \in T
  <2> SUFFICES ASSUME n <= L PROVE \E f : ScanFrom(f, buf, L - n)
    OBVIOUS
  <2> DEFINE at == L - n
  <2>1. at \in Nat /\ at <= L
    BY <1>1
  <2>2. PICK g : n > 0 => ScanFrom(g, buf, at + 1)
    <3>1. CASE n = 0
      BY <3>1
    <3>2. CASE n > 0
      <4>1. /\ n - 1 \in Nat /\ n - 1 < n
            /\ n - 1 <= L /\ L - (n - 1) = at + 1
        BY <1>1, <3>2
      <4>2. n - 1 \in T
        BY <1>2, <4>1, Zenon DEF T
      <4> QED
        BY <4>1, <4>2
    <3> QED
      BY <3>1, <3>2
  <2> DEFINE E(f, i) == IF L - i < PrefixLen THEN "none"
                        ELSE IF PrefixError(buf, i) # "none" THEN PrefixError(buf, i)
                        ELSE IF L - i < FrameLen(buf, i) THEN "none"
                        ELSE f[i + FrameLen(buf, i)]
             f == [i \in at..L |-> IF i = at THEN E(g, at) ELSE g[i]]
  <2>3. ASSUME NEW i \in at..L PROVE f[i] = E(f, i)
    <3>1. \A j \in (at + 1)..L : f[j] = g[j]
      BY <1>1, <2>1
    <3>2. ASSUME ~(L - i < PrefixLen), ~(L - i < FrameLen(buf, i))
          PROVE  i + FrameLen(buf, i) \in (at + 1)..L
      <4>1. i \in Nat
        BY <1>1, <2>1
      <4>2. FrameLen(buf, i) \in Nat /\ FrameLen(buf, i) >= 2
        BY <1>1, <3>2, <4>1, FrameLenFacts DEF PrefixLen
      <4> DEFINE l == FrameLen(buf, i)
      <4>3. l \in Nat /\ l >= 2 /\ ~(L - i < l) /\ i \in at..L
        BY <3>2, <4>2
      <4> HIDE DEF l, L, at
      <4>4. i + l \in (at + 1)..L
        BY <1>1, <2>1, <4>1, <4>3
      <4> QED
        BY <4>4 DEF l
    <3>3. E(f, i) = E(g, i)
      <4>1. ~(L - i < PrefixLen) /\ ~(L - i < FrameLen(buf, i))
              => f[i + FrameLen(buf, i)] = g[i + FrameLen(buf, i)]
        BY <3>1, <3>2
      <4> QED
        BY <4>1, Zenon
    <3>4. CASE i = at
      BY <3>3, <3>4
    <3>5. CASE i # at
      <4>1. i \in (at + 1)..L /\ n > 0
        BY <1>1, <2>1, <3>5
      <4>2. g[i] = E(g, i)
        BY <2>2, <4>1 DEF ScanFrom
      <4> QED
        BY <3>1, <3>3, <4>1, <4>2
    <3> QED
      BY <3>4, <3>5
  <2>4. f = [i \in at..L |-> E(f, i)]
    BY <2>3, Zenon
  <2> QED
    BY <2>4, Zenon DEF ScanFrom
<1> HIDE DEF T
<1>3. L \in T
  BY <1>1, <1>2, SetInduction
<1> QED
  BY <1>1, <1>3 DEF T

(* Scan satisfies the equation of Feed's loop. *)
LEMMA ScanUnfolds ==
  ASSUME NEW buf \in Seq(Nat), NEW at \in 0..Len(buf)
  PROVE  Scan(buf, at) =
           IF Len(buf) - at < PrefixLen THEN "none"
           ELSE IF PrefixError(buf, at) # "none" THEN PrefixError(buf, at)
           ELSE IF Len(buf) - at < FrameLen(buf, at) THEN "none"
           ELSE Scan(buf, at + FrameLen(buf, at))
<1> DEFINE f == CHOOSE f : f = [i \in 0..Len(buf) |->
                  IF Len(buf) - i < PrefixLen THEN "none"
                  ELSE IF PrefixError(buf, i) # "none" THEN PrefixError(buf, i)
                  ELSE IF Len(buf) - i < FrameLen(buf, i) THEN "none"
                  ELSE f[i + FrameLen(buf, i)]]
<1>1. \A i : Scan(buf, i) = f[i]
  BY DEF Scan
<1>2. f = [i \in 0..Len(buf) |->
            IF Len(buf) - i < PrefixLen THEN "none"
            ELSE IF PrefixError(buf, i) # "none" THEN PrefixError(buf, i)
            ELSE IF Len(buf) - i < FrameLen(buf, i) THEN "none"
            ELSE f[i + FrameLen(buf, i)]]
  BY ScanExists, Zenon DEF ScanFrom
<1> HIDE DEF f
<1>3. f[at] = IF Len(buf) - at < PrefixLen THEN "none"
              ELSE IF PrefixError(buf, at) # "none" THEN PrefixError(buf, at)
              ELSE IF Len(buf) - at < FrameLen(buf, at) THEN "none"
              ELSE f[at + FrameLen(buf, at)]
  BY <1>2, Zenon
<1> QED
  BY <1>1, <1>3, Zenon

(* The same in cases: nothing complete, an error, or a whole frame, after  *)
(* which the loop goes on.                                                 *)
LEMMA ScanCases ==
  ASSUME NEW buf \in Seq(Nat), NEW at \in 0..Len(buf)
  PROVE  /\ Len(buf) - at < PrefixLen => Scan(buf, at) = "none"
         /\ Len(buf) - at >= PrefixLen /\ PrefixError(buf, at) # "none"
              => Scan(buf, at) = PrefixError(buf, at)
         /\ Len(buf) - at >= PrefixLen /\ PrefixError(buf, at) = "none"
            /\ Len(buf) - at < FrameLen(buf, at) => Scan(buf, at) = "none"
         /\ Whole(buf, at) =>
              /\ Scan(buf, at) = Scan(buf, at + FrameLen(buf, at))
              /\ at + FrameLen(buf, at) \in 0..Len(buf)
              /\ FrameLen(buf, at) >= 2
<1>1. Len(buf) \in Nat /\ at \in Nat
  BY LenProperties
<1>2. Len(buf) - at >= PrefixLen
        => FrameLen(buf, at) \in Nat /\ FrameLen(buf, at) >= 2
  BY <1>1, FrameLenFacts
<1>3. Len(buf) - at >= PrefixLen <=> ~(Len(buf) - at < PrefixLen)
  BY <1>1 DEF PrefixLen
<1>4. Whole(buf, at) => ~(Len(buf) - at < FrameLen(buf, at))
  BY <1>1, <1>2 DEF Whole
<1>5. Whole(buf, at) => at + FrameLen(buf, at) \in 0..Len(buf)
  BY <1>1, <1>2 DEF Whole
<1> QED
  BY <1>2, <1>3, <1>4, <1>5, ScanUnfolds, Zenon DEF Whole

(* The scan finds one of the errors, or none. *)
LEMMA ScanRange ==
  ASSUME NEW buf \in Seq(Nat)
  PROVE  Scan(buf, 0) \in Errors
<1> DEFINE L == Len(buf)
           T == {m \in Nat : m <= L => Scan(buf, L - m) \in Errors}
<1>1. L \in Nat /\ "none" \in Errors
  BY LenProperties DEF Errors
<1>2. ASSUME NEW n \in Nat, \A m \in Nat : m < n => m \in T
      PROVE  n \in T
  <2> DEFINE at == L - n
  <2> SUFFICES ASSUME n <= L PROVE Scan(buf, at) \in Errors
    OBVIOUS
  <2>1. at \in Nat /\ at \in 0..Len(buf) /\ Len(buf) - at = n /\ at = L - n
    BY <1>1
  <2> HIDE DEF at
  <2>2. CASE n < PrefixLen
    BY <1>1, <2>1, <2>2, ScanCases
  <2>3. CASE n >= PrefixLen
    <3> DEFINE e == FrameLen(buf, at)
    <3>1. e \in Nat /\ e >= 2 /\ PrefixError(buf, at) \in Errors
      BY <2>1, <2>3, FrameLenFacts
    <3>2. CASE PrefixError(buf, at) # "none"
      BY <2>1, <2>3, <3>1, <3>2, ScanCases
    <3>3. CASE PrefixError(buf, at) = "none" /\ n < e
      BY <1>1, <2>1, <2>3, <3>3, ScanCases
    <3>4. CASE PrefixError(buf, at) = "none" /\ n >= e
      <4>1. Whole(buf, at)
        BY <2>1, <2>3, <3>4 DEF Whole
      <4>2. Scan(buf, at) = Scan(buf, at + e)
        BY <2>1, <4>1, ScanCases
      <4> HIDE DEF e, L
      <4>3. n - e \in Nat /\ n - e < n /\ n - e <= L /\ at + e = L - (n - e)
        BY <1>1, <2>1, <3>1, <3>4
      <4>4. n - e \in T
        BY <1>2, <4>3
      <4> QED
        BY <4>2, <4>3, <4>4
    <3> QED
      BY <3>1, <3>2, <3>3, <3>4
  <2> QED
    BY <2>2, <2>3 DEF PrefixLen
<1> HIDE DEF T
<1>3. L \in T
  BY <1>1, <1>2, SetInduction
<1>4. L - L = 0 /\ L <= L
  BY <1>1
<1> QED
  BY <1>3, <1>4 DEF T

(* The scan depends only on the octets from its offset on: compaction and  *)
(* what was consumed make no difference.                                   *)
LEMMA ScanShifts ==
  ASSUME NEW buf \in Seq(Nat), NEW w \in Seq(Nat),
         NEW p \in 0..Len(buf), NEW c \in 0..Len(w),
         Len(buf) - p = Len(w) - c,
         \A j \in 1..(Len(w) - c) : buf[p + j] = w[c + j]
  PROVE  Scan(buf, p) = Scan(w, c)
<1> DEFINE L == Len(w) - c
           T == {m \in Nat : m <= L => Scan(buf, p + (L - m)) = Scan(w, c + (L - m))}
<1>1. L \in Nat /\ Len(buf) = p + L /\ Len(w) = c + L /\ p \in Nat /\ c \in Nat
  BY LenProperties
<1>0. \A d \in 1..L : buf[p + d] = w[c + d]
  OBVIOUS
<1> HIDE DEF L
<1>2. ASSUME NEW n \in Nat, \A m \in Nat : m < n => m \in T
      PROVE  n \in T
  <2> SUFFICES ASSUME n <= L PROVE Scan(buf, p + (L - n)) = Scan(w, c + (L - n))
    OBVIOUS
  <2> DEFINE i == p + (L - n)
             j == c + (L - n)
  <2>1. /\ i \in 0..Len(buf) /\ j \in 0..Len(w)
        /\ Len(buf) - i = n /\ Len(w) - j = n
        /\ i \in Nat /\ j \in Nat /\ i = p + (L - n) /\ j = c + (L - n)
    BY <1>1
  <2> HIDE DEF i, j
  <2> SUFFICES Scan(buf, i) = Scan(w, j)
    BY <2>1
  <2>2. CASE n < PrefixLen
    BY <2>1, <2>2, ScanCases, SMTT(30)
  <2>3. CASE n >= PrefixLen
    <3>1. buf[i + 1] = w[j + 1] /\ buf[i + 2] = w[j + 2]
      <4>1. ASSUME NEW e \in 1..2 PROVE buf[i + e] = w[j + e]
        <5>1. /\ (L - n) + e \in 1..L
              /\ i + e = p + ((L - n) + e) /\ j + e = c + ((L - n) + e)
          BY <1>1, <2>1, <2>3 DEF PrefixLen
        <5> QED
          BY <1>0, <5>1, SMTT(30)
      <4> QED
        BY <4>1
    <3>2. FrameLen(buf, i) = FrameLen(w, j) /\ PrefixError(buf, i) = PrefixError(w, j)
      BY <3>1 DEF FrameLen, PrefixError
    <3>3. FrameLen(w, j) \in Nat /\ FrameLen(w, j) >= 2
      BY <1>1, <2>1, <2>3, FrameLenFacts
    <3>4. CASE PrefixError(w, j) # "none"
      <4>1. Scan(w, j) = PrefixError(w, j)
        BY <2>1, <2>3, <3>4, ScanCases
      <4>2. Scan(buf, i) = PrefixError(buf, i)
        BY <2>1, <2>3, <3>2, <3>4, ScanCases
      <4> QED
        BY <3>2, <4>1, <4>2
    <3>6. CASE PrefixError(w, j) = "none" /\ n < FrameLen(w, j)
      <4>1. Scan(w, j) = "none"
        BY <2>1, <2>3, <3>6, ScanCases
      <4>2. Scan(buf, i) = "none"
        BY <2>1, <2>3, <3>2, <3>6, ScanCases, SMTT(30)
      <4> QED
        BY <4>1, <4>2
    <3>5. CASE PrefixError(w, j) = "none" /\ n >= FrameLen(w, j)
      <4> DEFINE m == n - FrameLen(w, j)
      <4>1. Whole(buf, i) /\ Whole(w, j)
        BY <2>1, <2>3, <3>2, <3>5 DEF Whole
      <4>2. /\ Scan(buf, i) = Scan(buf, i + FrameLen(w, j))
            /\ Scan(w, j) = Scan(w, j + FrameLen(w, j))
        BY <2>1, <3>2, <4>1, ScanCases
      <4>3. /\ m \in Nat /\ m < n /\ m <= L
            /\ i + FrameLen(w, j) = p + (L - m) /\ j + FrameLen(w, j) = c + (L - m)
        <5> DEFINE e == FrameLen(w, j)
        <5>1. e \in Nat /\ e >= 2 /\ n >= e
          BY <3>3, <3>5
        <5>2. m = n - e
          OBVIOUS
        <5> HIDE DEF e, m
        <5>3. /\ m \in Nat /\ m < n /\ m <= L
              /\ i + e = p + (L - m) /\ j + e = c + (L - m)
          BY <1>1, <2>1, <5>1, <5>2
        <5> QED
          BY <5>3 DEF e
      <4>4. Scan(buf, p + (L - m)) = Scan(w, c + (L - m))
        <5> HIDE DEF m
        <5> QED
          BY <1>2, <4>3
      <4> QED
        BY <4>2, <4>3, <4>4
    <3> QED
      BY <3>3, <3>4, <3>5, <3>6
  <2> QED
    BY <2>2, <2>3 DEF PrefixLen
<1> HIDE DEF T
<1>3. L \in T
  BY <1>1, <1>2, SetInduction
<1>4. L - L = 0 /\ p + 0 = p /\ c + 0 = c /\ L <= L
  BY <1>1
<1> QED
  BY <1>3, <1>4 DEF T

(* What is there of a body stays as it is when more of it arrives. *)
LEMMA BodyGrows ==
  ASSUME NEW w \in Seq(Nat), NEW z \in Seq(Nat)
  PROVE  /\ w \o z \in Seq(Nat) /\ Len(w \o z) = Len(w) + Len(z)
         /\ Len(w) \in Nat /\ Len(z) \in Nat
         /\ \A i \in 1..Len(w) : (w \o z)[i] = w[i]
  BY ConcatProperties, LenProperties

(* A prefix that is complete keeps its meaning, and a whole frame stays    *)
(* one.                                                                    *)
LEMMA FrameGrows ==
  ASSUME NEW w \in Seq(Nat), NEW z \in Seq(Nat), NEW at \in Nat,
         Len(w) - at >= PrefixLen
  PROVE  /\ FrameLen(w \o z, at) = FrameLen(w, at)
         /\ PrefixError(w \o z, at) = PrefixError(w, at)
         /\ Whole(w, at) => Whole(w \o z, at)
<1> DEFINE v == w \o z
<1>1. /\ v \in Seq(Nat) /\ Len(v) = Len(w) + Len(z) /\ Len(w) \in Nat /\ Len(z) \in Nat
      /\ \A i \in 1..Len(w) : v[i] = w[i]
  BY BodyGrows
<1> HIDE DEF v
<1>2. v[at + 1] = w[at + 1] /\ v[at + 2] = w[at + 2]
  BY <1>1 DEF PrefixLen
<1>3. FrameLen(v, at) = FrameLen(w, at) /\ PrefixError(v, at) = PrefixError(w, at)
  BY <1>2 DEF FrameLen, PrefixError
<1>4. FrameLen(w, at) \in Nat
  BY FrameLenFacts
<1>5. Whole(w, at) => Whole(v, at)
  BY <1>1, <1>3, <1>4 DEF Whole, PrefixLen
<1> QED
  BY <1>3, <1>5 DEF v

(* An error that the scan has found, it finds whatever follows. *)
LEMMA ScanGrows ==
  ASSUME NEW w \in Seq(Nat), NEW z \in Seq(Nat), Scan(w, 0) # "none"
  PROVE  Scan(w \o z, 0) = Scan(w, 0)
<1> DEFINE v == w \o z
           L == Len(w)
           T == {m \in Nat : m <= L /\ Scan(w, L - m) # "none"
                               => Scan(v, L - m) = Scan(w, L - m)}
<1>1. L \in Nat /\ v \in Seq(Nat) /\ Len(v) >= L /\ Len(v) \in Nat
  BY BodyGrows
<1>2. ASSUME NEW n \in Nat, \A m \in Nat : m < n => m \in T
      PROVE  n \in T
  <2> DEFINE at == L - n
  <2> SUFFICES ASSUME n <= L, Scan(w, at) # "none" PROVE Scan(v, at) = Scan(w, at)
    OBVIOUS
  <2>1. at \in Nat /\ at \in 0..Len(w) /\ at \in 0..Len(v) /\ Len(w) - at = n
        /\ Len(v) - at >= n /\ at = L - n
    BY <1>1
  <2> HIDE DEF at
  <2>2. n >= PrefixLen
    <3>1. ~(n < PrefixLen)
      BY <2>1, ScanCases
    <3> QED
      BY <3>1 DEF PrefixLen
  <2>3. FrameLen(v, at) = FrameLen(w, at) /\ PrefixError(v, at) = PrefixError(w, at)
        /\ (Whole(w, at) => Whole(v, at))
    BY <2>1, <2>2, FrameGrows
  <2>4. FrameLen(w, at) \in Nat /\ FrameLen(w, at) >= 2
    BY <2>1, <2>2, FrameLenFacts
  <2>5. Len(v) - at >= PrefixLen
    BY <1>1, <2>1, <2>2 DEF PrefixLen
  <2>6. CASE PrefixError(w, at) # "none"
    <3>1. Scan(w, at) = PrefixError(w, at)
      BY <2>1, <2>2, <2>6, ScanCases
    <3>2. Scan(v, at) = PrefixError(v, at)
      <4> HIDE DEF v
      <4> QED
        BY <1>1, <2>1, <2>3, <2>5, <2>6, ScanCases
    <3> QED
      BY <2>3, <3>1, <3>2
  <2>7. CASE PrefixError(w, at) = "none"
    <3>1. n >= FrameLen(w, at)
      <4>1. ~(n < FrameLen(w, at))
        BY <2>1, <2>2, <2>7, ScanCases
      <4> QED
        BY <2>4, <4>1
    <3>2. Whole(w, at)
      BY <2>1, <2>2, <2>7, <3>1 DEF Whole
    <3>3. Scan(w, at) = Scan(w, at + FrameLen(w, at))
      BY <2>1, <3>2, ScanCases
    <3>4. Scan(v, at) = Scan(v, at + FrameLen(w, at))
      <4> HIDE DEF v
      <4> QED
        BY <1>1, <2>1, <2>3, <3>2, ScanCases
    <3>5. PICK m \in Nat : m < n /\ m <= L /\ at + FrameLen(w, at) = L - m
      <4> DEFINE e == FrameLen(w, at)
      <4>1. e \in Nat /\ e >= 2 /\ n >= e
        BY <2>4, <3>1
      <4>0. L \in Nat /\ at = L - n /\ n <= L
        BY <1>1, <2>1
      <4> HIDE DEF e, L, T, v
      <4>2. n - e \in Nat /\ n - e < n /\ n - e <= L /\ at + e = L - (n - e)
        BY <4>0, <4>1
      <4>3. at + FrameLen(w, at) = L - (n - e)
        BY <4>2 DEF e
      <4> QED
        BY <4>2, <4>3
    <3>6. m \in T
      BY <1>2, <3>5
    <3> QED
      BY <3>3, <3>4, <3>5, <3>6
  <2> QED
    BY <2>6, <2>7
<1> HIDE DEF T
<1>3. L \in T
  BY <1>1, <1>2, SetInduction
<1>4. L - L = 0 /\ L <= L
  BY <1>1
<1> QED
  BY <1>3, <1>4 DEF T

----------------------------------------------------------------------------
(* Chains of frames *)

(* The first k frames of a body are whole; b gives the offsets at which    *)
(* they start, and the one at which the last ends.                         *)
Chain(w, k, b) ==
  /\ b \in [0..k -> Nat] /\ b[0] = 0
  /\ \A i \in 0..(k - 1) : Whole(w, b[i]) /\ b[i + 1] = b[i] + FrameLen(w, b[i])

(* A chain stays within the body. *)
LEMMA ChainWithin ==
  ASSUME NEW w \in Seq(Nat), NEW k \in Nat, NEW b, Chain(w, k, b),
         NEW i \in 0..k
  PROVE  b[i] \in 0..Len(w) /\ b[i] \in Nat
<1>1. Len(w) \in Nat /\ b[i] \in Nat
  BY LenProperties DEF Chain
<1>2. CASE i = 0
  BY <1>1, <1>2 DEF Chain
<1>3. CASE i # 0
  <2>1. i - 1 \in 0..(k - 1) /\ i - 1 \in 0..k /\ (i - 1) + 1 = i
    BY <1>3
  <2>2. Whole(w, b[i - 1]) /\ b[i] = b[i - 1] + FrameLen(w, b[i - 1]) /\ b[i - 1] \in Nat
    BY <2>1 DEF Chain
  <2>3. FrameLen(w, b[i - 1]) \in Nat
    BY <2>2, FrameLenFacts DEF Whole
  <2> QED
    BY <1>1, <2>2, <2>3 DEF Whole
<1> QED
  BY <1>2, <1>3

(* Where a chain ends, the scan finds what it finds at the beginning. *)
LEMMA ChainScan ==
  ASSUME NEW w \in Seq(Nat), NEW k \in Nat, NEW b, Chain(w, k, b)
  PROVE  Scan(w, b[k]) = Scan(w, 0)
<1> DEFINE T == {m \in Nat : m <= k => Scan(w, b[m]) = Scan(w, 0)}
<1>1. ASSUME NEW n \in Nat, \A m \in Nat : m < n => m \in T
      PROVE  n \in T
  <2> SUFFICES ASSUME n <= k PROVE Scan(w, b[n]) = Scan(w, 0)
    OBVIOUS
  <2>1. CASE n = 0
    BY <2>1 DEF Chain
  <2>2. CASE n # 0
    <3> DEFINE m == n - 1
    <3>1. m \in Nat /\ m < n /\ m <= k /\ m \in 0..(k - 1) /\ m \in 0..k /\ m + 1 = n
      BY <2>2
    <3> HIDE DEF m
    <3>2. Scan(w, b[m]) = Scan(w, 0)
      BY <1>1, <3>1
    <3>3. Whole(w, b[m]) /\ b[n] = b[m] + FrameLen(w, b[m]) /\ b[m] \in 0..Len(w)
      BY <3>1, ChainWithin, Zenon DEF Chain
    <3>4. Scan(w, b[m]) = Scan(w, b[m] + FrameLen(w, b[m]))
      BY <3>3, ScanCases
    <3> QED
      BY <3>2, <3>3, <3>4
  <2> QED
    BY <2>1, <2>2
<1> HIDE DEF T
<1>2. k \in T
  BY <1>1, SetInduction
<1> QED
  BY <1>2 DEF T

(* A chain remains one when the body grows. *)
LEMMA ChainGrows ==
  ASSUME NEW w \in Seq(Nat), NEW z \in Seq(Nat), NEW k \in Nat, NEW b, Chain(w, k, b)
  PROVE  Chain(w \o z, k, b)
<1>1. ASSUME NEW i \in 0..(k - 1)
      PROVE  Whole(w \o z, b[i]) /\ b[i + 1] = b[i] + FrameLen(w \o z, b[i])
  <2>1. Whole(w, b[i]) /\ b[i + 1] = b[i] + FrameLen(w, b[i]) /\ b[i] \in Nat
    BY DEF Chain
  <2>2. Len(w) - b[i] >= PrefixLen
    BY <2>1 DEF Whole
  <2>3. FrameLen(w \o z, b[i]) = FrameLen(w, b[i]) /\ Whole(w \o z, b[i])
    BY <2>1, <2>2, FrameGrows
  <2> QED
    BY <2>1, <2>3
<1> QED
  BY <1>1 DEF Chain

(* A whole frame at its end makes a chain longer. *)
LEMMA ChainExtends ==
  ASSUME NEW w \in Seq(Nat), NEW k \in Nat, NEW b, Chain(w, k, b), Whole(w, b[k])
  PROVE  \E a : Chain(w, k + 1, a) /\ a[k + 1] = b[k] + FrameLen(w, b[k])
<1> DEFINE e == b[k] + FrameLen(w, b[k])
           a == [i \in 0..(k + 1) |-> IF i = k + 1 THEN e ELSE b[i]]
<1>1. e \in Nat
  <2>1. b[k] \in Nat /\ Len(w) - b[k] >= PrefixLen
    BY ChainWithin DEF Whole
  <2>2. FrameLen(w, b[k]) \in Nat
    BY <2>1, FrameLenFacts
  <2> QED
    BY <2>1, <2>2
<1>2. \A i \in 0..k : a[i] = b[i] /\ b[i] \in Nat
  BY DEF Chain
<1>3. a[k + 1] = e
  OBVIOUS
<1>4. a \in [0..(k + 1) -> Nat] /\ a[0] = 0
  BY <1>1, <1>2 DEF Chain
<1>5. ASSUME NEW i \in 0..k
      PROVE  Whole(w, a[i]) /\ a[i + 1] = a[i] + FrameLen(w, a[i])
  <2>1. CASE i = k
    BY <1>2, <1>3, <2>1
  <2>2. CASE i # k
    <3>1. i \in 0..(k - 1) /\ i + 1 \in 0..k
      BY <2>2
    <3> HIDE DEF a
    <3> QED
      BY <1>2, <3>1 DEF Chain
  <2> QED
    BY <2>1, <2>2
<1>6. (k + 1) - 1 = k
  OBVIOUS
<1> HIDE DEF a
<1>7. Chain(w, k + 1, a)
  BY <1>4, <1>5, <1>6 DEF Chain
<1> QED
  BY <1>3, <1>7

(* There is only one chain that no whole frame follows. *)
LEMMA ChainUnique ==
  ASSUME NEW w \in Seq(Nat),
         NEW k \in Nat, NEW b, Chain(w, k, b), ~Whole(w, b[k]),
         NEW l \in Nat, NEW a, Chain(w, l, a), ~Whole(w, a[l])
  PROVE  k = l /\ b[k] = a[l]
<1> DEFINE T == {m \in Nat : m <= k /\ m <= l => b[m] = a[m]}
<1>1. ASSUME NEW n \in Nat, \A m \in Nat : m < n => m \in T
      PROVE  n \in T
  <2> SUFFICES ASSUME n <= k, n <= l PROVE b[n] = a[n]
    OBVIOUS
  <2>1. CASE n = 0
    BY <2>1 DEF Chain
  <2>2. CASE n # 0
    <3> DEFINE m == n - 1
    <3>1. m \in Nat /\ m < n /\ m <= k /\ m <= l /\ m \in 0..(k - 1) /\ m \in 0..(l - 1)
          /\ m + 1 = n
      BY <2>2
    <3> HIDE DEF m
    <3>2. b[m] = a[m]
      BY <1>1, <3>1
    <3> QED
      BY <3>1, <3>2 DEF Chain
  <2> QED
    BY <2>1, <2>2
<1> HIDE DEF T
<1>2. \A m \in Nat : m \in T
  BY <1>1, SetInduction
<1>3. ~(k < l)
  <2> SUFFICES ASSUME k < l PROVE FALSE
    OBVIOUS
  <2>1. b[k] = a[k]
    BY <1>2 DEF T
  <2> QED
    BY <2>1 DEF Chain
<1>4. ~(l < k)
  <2> SUFFICES ASSUME l < k PROVE FALSE
    OBVIOUS
  <2>1. b[l] = a[l]
    BY <1>2 DEF T
  <2> QED
    BY <2>1 DEF Chain
<1>5. k = l
  BY <1>3, <1>4
<1> QED
  BY <1>2, <1>5 DEF T

----------------------------------------------------------------------------
(* The scanner and the body *)

Scanners == [buf : Seq(Nat), pos : Nat, failed : Errors]
Responses == [count : Nat, first : Seq(Nat)]

(* What the scanner has not consumed is the body from offset c on. *)
Rest(s, w, c) ==
  /\ s.pos <= Len(s.buf) /\ c \in 0..Len(w)
  /\ Len(s.buf) - s.pos = Len(w) - c
  /\ \A j \in 1..(Len(w) - c) : s.buf[s.pos + j] = w[c + j]

(* The scanner has consumed a chain of frames, which were counted, and the *)
(* payload of the first of them was kept; there is no error in the body.   *)
Agrees(s, r, w) ==
  /\ s \in Scanners /\ s.failed = "none" /\ r \in Responses
  /\ Scan(w, 0) = "none"
  /\ \E k \in Nat : \E b :
       /\ Chain(w, k, b) /\ Rest(s, w, b[k]) /\ r.count = k
       /\ r.first = IF k = 0 THEN <<>> ELSE SubSeq(w, PrefixLen + 1, FrameLen(w, 0))

(* The part of the buffer that is consumed is small. *)
Compact(s) == s.pos < CompactAt \/ s.pos <= Len(s.buf) - s.pos

Left(s) == Len(s.buf) - s.pos

(* The scanner sees the frame that is in the body, and has a message       *)
(* exactly when that is whole.                                             *)
LEMMA RestFacts ==
  ASSUME NEW w \in Seq(Nat), NEW s \in Scanners, s.failed = "none",
         NEW c, Rest(s, w, c), Scan(w, c) = "none"
  PROVE  /\ HasMessage(s) <=> Whole(w, c)
         /\ Len(w) - c >= PrefixLen => FrameLen(s.buf, s.pos) = FrameLen(w, c)
         /\ Len(w) - c >= PrefixLen => PrefixError(w, c) = "none"
<1>1. /\ c \in Nat /\ c \in 0..Len(w) /\ Len(w) \in Nat
      /\ s.pos \in Nat /\ s.buf \in Seq(Nat) /\ Len(s.buf) \in Nat
      /\ Len(s.buf) - s.pos = Len(w) - c
  BY LenProperties DEF Rest, Scanners
<1>2. Len(w) - c >= PrefixLen => FrameLen(s.buf, s.pos) = FrameLen(w, c)
  <2> SUFFICES ASSUME Len(w) - c >= PrefixLen
               PROVE  FrameLen(s.buf, s.pos) = FrameLen(w, c)
    OBVIOUS
  <2>1. s.buf[s.pos + 2] = w[c + 2]
    BY <1>1 DEF Rest, PrefixLen
  <2> QED
    BY <2>1 DEF FrameLen
<1>3. Len(w) - c >= PrefixLen => PrefixError(w, c) = "none"
  BY <1>1, ScanCases
<1>4. Whole(w, c) <=> Len(w) - c >= PrefixLen /\ Len(w) - c >= FrameLen(w, c)
  BY <1>3 DEF Whole
<1>5. HasMessage(s) <=> Len(w) - c >= PrefixLen /\ Len(w) - c >= FrameLen(w, c)
  BY <1>1, <1>2 DEF HasMessage
<1> QED
  BY <1>2, <1>3, <1>4, <1>5

(* Next() consumes the frame, whether it empties the buffer, compacts it   *)
(* or only moves on.                                                       *)
LEMMA AfterNextFacts ==
  ASSUME NEW w \in Seq(Nat), NEW s \in Scanners, s.failed = "none",
         NEW c, Rest(s, w, c), Scan(w, c) = "none", HasMessage(s)
  PROVE  /\ AfterNext(s) \in Scanners /\ AfterNext(s).failed = "none"
         /\ Rest(AfterNext(s), w, c + FrameLen(w, c))
         /\ Compact(AfterNext(s)) /\ Left(AfterNext(s)) <= Left(s) - 2
<1> DEFINE e == FrameLen(w, c)
           L == Len(s.buf)
           W == Len(w)
           q == s.pos
           p == q + e
           buf == s.buf
           t == AfterNext(s)
<1>1. /\ c \in Nat /\ c <= W /\ W \in Nat /\ q \in Nat /\ L \in Nat /\ L - q = W - c
      /\ buf \in Seq(Nat) /\ L = Len(buf)
  BY LenProperties DEF Rest, Scanners
<1>2. Whole(w, c)
  BY RestFacts
<1>3. W - c >= PrefixLen /\ W - c >= e
  BY <1>2 DEF Whole
<1>4. e \in Nat /\ e >= 2
  BY <1>1, <1>3, FrameLenFacts
<1>5. FrameLen(s.buf, s.pos) = e
  BY <1>3, RestFacts
<1>6. \A j \in 1..(W - c) : buf[q + j] = w[c + j]
  BY DEF Rest
<1>7. t = IF p = L THEN [s EXCEPT !.buf = <<>>, !.pos = 0]
          ELSE IF p >= CompactAt /\ p >= L \div 2
          THEN [s EXCEPT !.buf = SubSeq(buf, p + 1, L), !.pos = 0]
          ELSE [s EXCEPT !.pos = p]
  BY <1>5 DEF AfterNext
<1>8. p = q + e
  OBVIOUS
<1>9. Left(s) = L - q
  BY DEF Left
<1> SUFFICES /\ t \in Scanners /\ t.failed = "none" /\ Rest(t, w, c + e)
             /\ Compact(t) /\ Left(t) <= L - q - 2
  BY <1>9
<1>10. ASSUME NEW x \in Seq(Nat), NEW y \in Nat
       PROVE  [s EXCEPT !.buf = x, !.pos = y]
                = [buf |-> x, pos |-> y, failed |-> "none"]
  <2> DEFINE u == [s EXCEPT !.buf = x, !.pos = y]
  <2>1. u \in Scanners /\ u.buf = x /\ u.pos = y /\ u.failed = "none"
    BY Zenon DEF Scanners
  <2> HIDE DEF u
  <2>2. u = [buf |-> x, pos |-> y, failed |-> "none"]
    BY <2>1 DEF Scanners
  <2> QED
    BY <2>2 DEF u
<1>11. \A y : [s EXCEPT !.pos = y] = [buf |-> buf, pos |-> y, failed |-> "none"]
  BY DEF Scanners
<1>12. W = Len(w)
  OBVIOUS
<1> HIDE DEF e, L, W, q, p, buf, t
<1>13. /\ c + e \in 0..W /\ p \in Nat /\ p <= L /\ L - p = W - (c + e)
       /\ L - p <= L - q - 2
  BY <1>1, <1>3, <1>4, <1>8
<1>14. ASSUME NEW j \in 1..(W - (c + e)) PROVE buf[p + j] = w[(c + e) + j]
  <2>1. e + j \in 1..(W - c) /\ p + j = q + (e + j) /\ (c + e) + j = c + (e + j)
    BY <1>1, <1>4, <1>8
  <2> QED
    BY <1>6, <2>1
<1>15. ASSUME NEW x \in Seq(Nat), NEW y \in Nat, y <= Len(x), Len(x) - y = L - p,
              \A j \in 1..(L - p) : x[y + j] = buf[p + j],
              t = [buf |-> x, pos |-> y, failed |-> "none"],
              y < CompactAt \/ y <= Len(x) - y
       PROVE  /\ t \in Scanners /\ t.failed = "none" /\ Rest(t, w, c + e)
              /\ Compact(t) /\ Left(t) <= L - q - 2
  <2>1. t \in Scanners /\ t.failed = "none" /\ t.buf = x /\ t.pos = y
    BY <1>15 DEF Scanners, Errors
  <2>2. \A j \in 1..(W - (c + e)) : x[y + j] = w[(c + e) + j]
    BY <1>13, <1>14, <1>15
  <2>3. Rest(t, w, c + e)
    BY <1>12, <1>13, <1>15, <2>1, <2>2 DEF Rest
  <2>4. Compact(t) /\ Left(t) <= L - q - 2
    BY <1>13, <1>15, <2>1 DEF Compact, Left
  <2> QED
    BY <2>1, <2>3, <2>4
<1>16. CASE p = L
  <2> DEFINE x == <<>>
  <2>1. x \in Seq(Nat) /\ Len(x) = 0 /\ L - p = 0
    BY <1>1, <1>16
  <2>2. t = [s EXCEPT !.buf = x, !.pos = 0]
    BY <1>7, <1>16
  <2> HIDE DEF x
  <2>3. t = [buf |-> x, pos |-> 0, failed |-> "none"]
    BY <1>10, <2>1, <2>2, Zenon
  <2>4. /\ 0 <= Len(x) /\ Len(x) - 0 = L - p /\ 0 <= Len(x) - 0
        /\ \A j \in 1..(L - p) : x[0 + j] = buf[p + j]
    BY <2>1
  <2> QED
    BY <1>15, <2>1, <2>3, <2>4, Zenon
<1>17. CASE p # L /\ p >= CompactAt /\ p >= L \div 2
  <2> DEFINE x == SubSeq(buf, p + 1, L)
  <2>1. t = [s EXCEPT !.buf = x, !.pos = 0]
    BY <1>7, <1>17
  <2>2. ASSUME NEW i \in (p + 1)..L PROVE buf[i] \in Nat
    <3>1. i \in 1..Len(buf)
      BY <1>1, <1>13
    <3> QED
      BY <1>1, <3>1, ElementOfSeq
  <2>3. p + 1 \in Int /\ L \in Int /\ p + 1 <= L /\ L - (p + 1) + 1 = L - p
    BY <1>1, <1>13, <1>17, SMTT(30)
  <2>4. /\ x \in Seq(Nat) /\ Len(x) = L - p
        /\ \A j \in 1..(L - p) : x[j] = buf[(p + 1) + j - 1]
    BY <2>2, <2>3, SubSeqProperties
  <2> HIDE DEF x
  <2>5. \A j \in 1..(L - p) : 0 + j = j /\ (p + 1) + j - 1 = p + j
    BY <1>1, <1>13
  <2>6. 0 <= Len(x) /\ Len(x) - 0 = L - p /\ 0 \in Nat /\ 0 <= Len(x) - 0
    BY <1>1, <1>13, <2>4
  <2>7. \A j \in 1..(L - p) : x[0 + j] = buf[p + j]
    BY <2>4, <2>5, SMTT(30)
  <2>8. t = [buf |-> x, pos |-> 0, failed |-> "none"]
    BY <1>10, <2>1, <2>4, ZenonT(30)
  <2> QED
    BY <1>15, <2>4, <2>6, <2>7, <2>8
<1>18. CASE p # L /\ ~(p >= CompactAt /\ p >= L \div 2)
  <2>1. t = [buf |-> buf, pos |-> p, failed |-> "none"]
    BY <1>7, <1>11, <1>18
  <2>2. p < CompactAt \/ p <= L - p
    BY <1>1, <1>13, <1>18, ScannerAssumption
  <2> QED
    BY <1>1, <1>13, <1>15, <2>1, <2>2, ZenonT(30)
<1> QED
  BY <1>16, <1>17, <1>18

(* The message that Next() returns is the payload of the frame. *)
LEMMA MessageFacts ==
  ASSUME NEW w \in Seq(Nat), NEW s \in Scanners, s.failed = "none",
         NEW c, Rest(s, w, c), Scan(w, c) = "none", HasMessage(s)
  PROVE  /\ Message(s) \in Seq(Nat)
         /\ Message(s) = SubSeq(w, c + PrefixLen + 1, c + FrameLen(w, c))
<1> DEFINE e == FrameLen(w, c)
           W == Len(w)
           q == s.pos
           buf == s.buf
           L == Len(buf)
           x == SubSeq(buf, q + PrefixLen + 1, q + e)
           y == SubSeq(w, c + PrefixLen + 1, c + e)
<1>1. /\ c \in Nat /\ c <= W /\ W \in Nat /\ q \in Nat /\ L \in Nat /\ L - q = W - c
      /\ buf \in Seq(Nat)
  BY LenProperties DEF Rest, Scanners
<1>2. Whole(w, c)
  BY RestFacts
<1>3. W - c >= PrefixLen /\ W - c >= e
  BY <1>2 DEF Whole
<1>4. e \in Nat /\ e >= 2
  BY <1>1, <1>3, FrameLenFacts
<1>5. \A j \in 1..(W - c) : buf[q + j] = w[c + j]
  BY DEF Rest
<1>6. Message(s) = x
  <2>1. FrameLen(s.buf, s.pos) = e
    BY <1>3, RestFacts
  <2> QED
    BY <2>1 DEF Message
<1>7. L = Len(buf) /\ W = Len(w) /\ PrefixLen = 2
  BY DEF PrefixLen
<1> HIDE DEF e, W, q, buf, L
<1>8. /\ q + PrefixLen + 1 \in Int /\ q + e \in Int
      /\ c + PrefixLen + 1 \in Int /\ c + e \in Int
      /\ (q + PrefixLen + 1 <= q + e) = (e >= 3) /\ (c + PrefixLen + 1 <= c + e) = (e >= 3)
      /\ (q + e) - (q + PrefixLen + 1) + 1 = e - 2
      /\ (c + e) - (c + PrefixLen + 1) + 1 = e - 2
  BY <1>1, <1>4, <1>7
<1>9. ASSUME NEW i \in (q + PrefixLen + 1)..(q + e) PROVE buf[i] \in Nat
  <2>1. i \in 1..Len(buf)
    BY <1>1, <1>3, <1>4, <1>7
  <2> QED
    BY <1>1, <2>1, ElementOfSeq
<1>10. ASSUME NEW i \in (c + PrefixLen + 1)..(c + e) PROVE w[i] \in Nat
  <2>1. i \in 1..Len(w)
    BY <1>1, <1>3, <1>4, <1>7
  <2> QED
    BY <2>1, ElementOfSeq
<1>11. /\ x \in Seq(Nat) /\ Len(x) = IF e >= 3 THEN e - 2 ELSE 0
       /\ \A j \in 1..(e - 2) : x[j] = buf[(q + PrefixLen + 1) + j - 1]
  <2> DEFINE m == q + PrefixLen + 1
             n == q + e
  <2>1. m \in Int /\ n \in Int /\ (m <= n) = (e >= 3) /\ n - m + 1 = e - 2
    BY <1>8
  <2>2. \A i \in m..n : buf[i] \in Nat
    BY <1>9
  <2> HIDE DEF m, n
  <2>3. /\ SubSeq(buf, m, n) \in Seq(Nat)
        /\ Len(SubSeq(buf, m, n)) = IF m <= n THEN n - m + 1 ELSE 0
        /\ \A j \in 1..(n - m + 1) : SubSeq(buf, m, n)[j] = buf[m + j - 1]
    BY <2>1, <2>2, SubSeqProperties
  <2> QED
    BY <2>1, <2>3 DEF m, n
<1>12. /\ y \in Seq(Nat) /\ Len(y) = IF e >= 3 THEN e - 2 ELSE 0
       /\ \A j \in 1..(e - 2) : y[j] = w[(c + PrefixLen + 1) + j - 1]
  <2> DEFINE m == c + PrefixLen + 1
             n == c + e
  <2>1. m \in Int /\ n \in Int /\ (m <= n) = (e >= 3) /\ n - m + 1 = e - 2
    BY <1>8
  <2>2. \A i \in m..n : w[i] \in Nat
    BY <1>10
  <2> HIDE DEF m, n
  <2>3. /\ SubSeq(w, m, n) \in Seq(Nat)
        /\ Len(SubSeq(w, m, n)) = IF m <= n THEN n - m + 1 ELSE 0
        /\ \A j \in 1..(n - m + 1) : SubSeq(w, m, n)[j] = w[m + j - 1]
    BY <2>1, <2>2, SubSeqProperties
  <2> QED
    BY <2>1, <2>3 DEF m, n
<1> HIDE DEF x, y
<1>13. ASSUME NEW j \in 1..Len(x) PROVE x[j] = y[j]
  <2>1. /\ j \in 1..(e - 2) /\ 2 + j \in 1..(W - c)
        /\ (q + PrefixLen + 1) + j - 1 = q + (2 + j)
        /\ (c + PrefixLen + 1) + j - 1 = c + (2 + j)
    BY <1>1, <1>3, <1>4, <1>7, <1>11
  <2> QED
    BY <1>5, <1>11, <1>12, <2>1, Zenon
<1>14. x = y
  BY <1>11, <1>12, <1>13, SeqEqual, ZenonT(30)
<1> QED
  BY <1>6, <1>11, <1>14 DEF y, e

(* A turn of the loop in OnData keeps the scanner, the count and the first *)
(* message in agreement with the body, and consumes something.             *)
LEMMA TurnFacts ==
  ASSUME NEW w \in Seq(Nat), NEW d, Agrees(d.s, d.r, w), HasMessage(d.s)
  PROVE  /\ Agrees(Turn(d).s, Turn(d).r, w)
         /\ Compact(Turn(d).s) /\ Left(Turn(d).s) <= Left(d.s) - 2
<1> DEFINE s == d.s
           r == d.r
           t == AfterNext(s)
           first == IF r.count = 0 THEN Message(s) ELSE r.first
           u == [count |-> r.count + 1, first |-> first]
<1>1. Turn(d).s = t /\ Turn(d).r = u
  BY DEF Turn
<1>2. PICK k \in Nat : \E b :
        /\ Chain(w, k, b) /\ Rest(s, w, b[k]) /\ r.count = k
        /\ r.first = IF k = 0 THEN <<>> ELSE SubSeq(w, PrefixLen + 1, FrameLen(w, 0))
  BY DEF Agrees
<1>3. PICK b :
        /\ Chain(w, k, b) /\ Rest(s, w, b[k]) /\ r.count = k
        /\ r.first = IF k = 0 THEN <<>> ELSE SubSeq(w, PrefixLen + 1, FrameLen(w, 0))
  BY <1>2
<1>4. s \in Scanners /\ s.failed = "none" /\ r \in Responses /\ HasMessage(s)
      /\ Scan(w, 0) = "none"
  BY DEF Agrees
<1> HIDE DEF s, r
<1>5. Scan(w, b[k]) = "none"
  BY <1>3, <1>4, ChainScan
<1>6. /\ t \in Scanners /\ t.failed = "none" /\ Rest(t, w, b[k] + FrameLen(w, b[k]))
      /\ Compact(t) /\ Left(t) <= Left(s) - 2
  BY <1>3, <1>4, <1>5, AfterNextFacts, SMTT(30)
<1>7. Whole(w, b[k])
  BY <1>3, <1>4, <1>5, RestFacts, SMTT(30)
<1>8. PICK a : Chain(w, k + 1, a) /\ a[k + 1] = b[k] + FrameLen(w, b[k])
  BY <1>3, <1>7, ChainExtends
<1>9. Message(s) \in Seq(Nat)
      /\ Message(s) = SubSeq(w, b[k] + PrefixLen + 1, b[k] + FrameLen(w, b[k]))
  BY <1>3, <1>4, <1>5, MessageFacts
<1>10. first \in Seq(Nat) /\ first = SubSeq(w, PrefixLen + 1, FrameLen(w, 0))
  <2>1. CASE k = 0
    <3>1. b[k] = 0 /\ first = Message(s)
      BY <1>3, <2>1 DEF Chain
    <3>2. 0 + PrefixLen + 1 = PrefixLen + 1 /\ 0 + FrameLen(w, 0) = FrameLen(w, 0)
      <4>1. FrameLen(w, 0) \in Nat
        BY <1>7, <3>1, FrameLenFacts DEF Whole
      <4> QED
        BY <4>1 DEF PrefixLen
    <3> QED
      BY <1>9, <3>1, <3>2, ZenonT(30)
  <2>2. CASE k # 0
    BY <1>3, <1>4, <2>2, Zenon DEF Responses
  <2> QED
    BY <2>1, <2>2
<1> HIDE DEF first, t
<1>11. u \in Responses /\ u.count = k + 1 /\ u.first = first
  <2>1. u = [count |-> k + 1, first |-> first]
    BY <1>3
  <2>2. first \in Seq(Nat)
    BY <1>10
  <2> QED
    BY <2>1, <2>2 DEF Responses
<1> HIDE DEF u
<1>12. k + 1 \in Nat /\ k + 1 # 0
  OBVIOUS
<1>13. Agrees(t, u, w)
  <2> DEFINE K == k + 1
  <2>1. /\ Chain(w, K, a) /\ Rest(t, w, a[K]) /\ u.count = K
        /\ u.first = IF K = 0 THEN <<>> ELSE SubSeq(w, PrefixLen + 1, FrameLen(w, 0))
    BY <1>6, <1>8, <1>10, <1>11, <1>12, ZenonT(30)
  <2>2. K \in Nat
    BY <1>12
  <2> HIDE DEF K
  <2> QED
    BY <1>4, <1>6, <1>11, <2>1, <2>2 DEF Agrees
<1> QED
  BY <1>1, <1>6, <1>13 DEF s

(* Drain is the repetition of turns. *)
LEMMA DrainTurns ==
  ASSUME NEW s, NEW r, Len(s.buf) \in Nat
  PROVE  \E f : /\ f[0] = [s |-> s, r |-> r]
                /\ \A n \in 1..Len(s.buf) : f[n] = Turn(f[n - 1])
                /\ Drain(s, r) = f[Len(s.buf)]
<1> DEFINE N == Len(s.buf)
           d == [s |-> s, r |-> r]
           T == {n \in Nat :
                   \E f : f = [i \in 0..n |-> IF i = 0 THEN d ELSE Turn(f[i - 1])]}
<1> HIDE DEF d
<1>1. ASSUME NEW n \in Nat, \A m \in Nat : m < n => m \in T
      PROVE  n \in T
  <2>1. CASE n = 0
    <3> DEFINE f == [i \in 0..0 |-> d]
    <3>1. f = [i \in 0..0 |-> IF i = 0 THEN d ELSE Turn(f[i - 1])]
      OBVIOUS
    <3> QED
      BY <2>1, <3>1, Zenon
  <2>2. CASE n # 0
    <3>1. n - 1 \in Nat /\ n - 1 < n
      BY <2>2
    <3>2. n - 1 \in T
      BY <1>1, <3>1, ZenonT(30) DEF T
    <3>3. PICK g : g = [i \in 0..(n - 1) |-> IF i = 0 THEN d ELSE Turn(g[i - 1])]
      BY <3>2
    <3> DEFINE f == [i \in 0..n |-> IF i = n THEN Turn(g[n - 1]) ELSE g[i]]
    <3>4. \A i \in 0..(n - 1) : f[i] = g[i]
      BY <2>2
    <3>5. f[n] = Turn(g[n - 1])
      OBVIOUS
    <3>6. ASSUME NEW i \in 0..n
          PROVE  f[i] = IF i = 0 THEN d ELSE Turn(f[i - 1])
      <4> HIDE DEF f
      <4>1. CASE i = n
        <5>1. n - 1 \in 0..(n - 1)
          BY <2>2
        <5> QED
          BY <2>2, <3>4, <3>5, <4>1, <5>1
      <4>2. CASE i # n
        <5>1. i \in 0..(n - 1)
          BY <4>2
        <5>2. g[i] = IF i = 0 THEN d ELSE Turn(g[i - 1])
          BY <3>3, <5>1
        <5>3. i # 0 => i - 1 \in 0..(n - 1)
          BY <5>1
        <5> QED
          BY <3>4, <5>1, <5>2, <5>3
      <4> QED
        BY <4>1, <4>2
    <3>7. f = [i \in 0..n |-> IF i = 0 THEN d ELSE Turn(f[i - 1])]
      BY <3>6
    <3> QED
      BY <3>7, Zenon
  <2> QED
    BY <2>1, <2>2
<1>2. N \in T
  <2> HIDE DEF T
  <2> QED
    BY <1>1, SetInduction
<1> DEFINE f == CHOOSE f : f = [n \in 0..Len(s.buf) |->
                  IF n = 0 THEN [s |-> s, r |-> r] ELSE Turn(f[n - 1])]
<1>3. Drain(s, r) = f[Len(s.buf)]
  BY DEF Drain
<1>4. f = [n \in 0..N |-> IF n = 0 THEN d ELSE Turn(f[n - 1])]
  BY <1>2, ZenonT(30) DEF d
<1> HIDE DEF f
<1>5. f[0] = d
  BY <1>4
<1>6. \A n \in 1..N : f[n] = Turn(f[n - 1])
  BY <1>4
<1> QED
  BY <1>3, <1>5, <1>6 DEF d

(* A scanner that has failed has no messages. *)
LEMMA DrainFailed ==
  ASSUME NEW s \in Scanners, NEW r, s.failed # "none"
  PROVE  Drain(s, r) = [s |-> s, r |-> r]
<1> DEFINE N == Len(s.buf)
           d == [s |-> s, r |-> r]
<1>1. N \in Nat
  BY LenProperties DEF Scanners
<1>2. PICK f : /\ f[0] = d
               /\ \A n \in 1..N : f[n] = Turn(f[n - 1])
               /\ Drain(s, r) = f[N]
  BY <1>1, DrainTurns
<1>3. Turn(d) = d
  BY DEF Turn, HasMessage
<1> DEFINE T == {n \in Nat : n <= N => f[n] = d}
<1> HIDE DEF d, N
<1>4. ASSUME NEW n \in Nat, \A m \in Nat : m < n => m \in T
      PROVE  n \in T
  <2> SUFFICES ASSUME n <= N PROVE f[n] = d
    OBVIOUS
  <2>1. CASE n = 0
    BY <1>2, <2>1
  <2>2. CASE n # 0
    <3>1. n - 1 \in Nat /\ n - 1 < n /\ n - 1 <= N /\ n \in 1..N
      BY <1>1, <2>2
    <3>2. f[n - 1] = d
      BY <1>4, <3>1
    <3> QED
      BY <1>2, <1>3, <3>1, <3>2
  <2> QED
    BY <2>1, <2>2
<1> HIDE DEF T
<1>5. N \in T
  BY <1>1, <1>4, SetInduction
<1> QED
  BY <1>1, <1>2, <1>5 DEF T, d

(* The loop in OnData ends when no message is left, in agreement with the  *)
(* body: there are never more messages than octets.                        *)
LEMMA DrainFacts ==
  ASSUME NEW w \in Seq(Nat), NEW s, NEW r, Agrees(s, r, w)
  PROVE  /\ Agrees(Drain(s, r).s, Drain(s, r).r, w) /\ ~HasMessage(Drain(s, r).s)
         /\ Compact(s) => Compact(Drain(s, r).s)
<1> DEFINE N == Len(s.buf)
<1>1. N \in Nat /\ Left(s) <= N
  <2>1. s \in Scanners
    BY DEF Agrees
  <2>2. s.buf \in Seq(Nat) /\ s.pos \in Nat
    BY <2>1, SMTT(30) DEF Scanners
  <2> QED
    BY <2>2, LenProperties DEF Left
<1>2. PICK f : /\ f[0] = [s |-> s, r |-> r]
               /\ \A n \in 1..N : f[n] = Turn(f[n - 1])
               /\ Drain(s, r) = f[N]
  BY <1>1, DrainTurns
<1> DEFINE P(n) == /\ Agrees(f[n].s, f[n].r, w) /\ (Compact(s) => Compact(f[n].s))
                   /\ HasMessage(f[n].s) => Left(f[n].s) + n <= Left(s)
           T == {n \in Nat : n <= N => P(n)}
<1>3. \A t, q : Agrees(t, q, w) => Left(t) \in Nat /\ (HasMessage(t) => Left(t) >= 2)
  <2> SUFFICES ASSUME NEW t, NEW q, Agrees(t, q, w)
               PROVE  Left(t) \in Nat /\ (HasMessage(t) => Left(t) >= 2)
    OBVIOUS
  <2>1. t \in Scanners /\ t.pos <= Len(t.buf)
    BY DEF Agrees, Rest
  <2>2. t.buf \in Seq(Nat) /\ t.pos \in Nat /\ Len(t.buf) \in Nat
    BY <2>1, LenProperties DEF Scanners
  <2> QED
    BY <2>1, <2>2 DEF Left, HasMessage, PrefixLen
<1> HIDE DEF N
<1>4. ASSUME NEW n \in Nat, \A m \in Nat : m < n => m \in T
      PROVE  n \in T
  <2> SUFFICES ASSUME n <= N PROVE P(n)
    OBVIOUS
  <2>1. CASE n = 0
    <3>1. f[n].s = s /\ f[n].r = r
      BY <1>2, <2>1
    <3>2. Left(s) \in Nat
      BY <1>3
    <3> QED
      BY <2>1, <3>1, <3>2
  <2>2. CASE n # 0
    <3> DEFINE d == f[n - 1]
    <3>1. n - 1 \in Nat /\ n - 1 < n /\ n - 1 <= N /\ n \in 1..N
      BY <1>1, <2>2
    <3>2. P(n - 1)
      BY <1>4, <3>1
    <3>3. f[n] = Turn(d)
      BY <1>2, <3>1, SMTT(30)
    <3> HIDE DEF d
    <3>4. CASE HasMessage(d.s)
      <4>1. Agrees(d.s, d.r, w) /\ Left(d.s) + (n - 1) <= Left(s)
        BY <3>2, <3>4 DEF d
      <4>2. /\ Agrees(f[n].s, f[n].r, w) /\ Compact(f[n].s)
            /\ Left(f[n].s) <= Left(d.s) - 2
        BY <3>3, <3>4, <4>1, TurnFacts
      <4>3. Left(d.s) \in Nat /\ Left(s) \in Nat /\ Left(f[n].s) \in Nat
        BY <1>3, <4>1, <4>2
      <4>4. Left(f[n].s) + n <= Left(s)
        BY <4>1, <4>2, <4>3
      <4> QED
        BY <4>2, <4>4
    <3>5. CASE ~HasMessage(d.s)
      <4>1. f[n] = d
        BY <3>3, <3>5 DEF Turn
      <4> QED
        BY <3>2, <3>5, <4>1 DEF d
    <3> QED
      BY <3>4, <3>5
  <2> QED
    BY <2>1, <2>2
<1>5. P(N)
  <2>1. N \in T
    <3> HIDE DEF T
    <3> QED
      BY <1>1, <1>4, SetInduction
  <2> QED
    BY <1>1, <2>1
<1>6. ~HasMessage(f[N].s)
  <2> SUFFICES ASSUME HasMessage(f[N].s) PROVE FALSE
    OBVIOUS
  <2>1. Left(f[N].s) \in Nat /\ Left(f[N].s) >= 2 /\ Left(s) \in Nat
    BY <1>3, <1>5
  <2> QED
    BY <1>1, <1>5, <2>1
<1> QED
  BY <1>2, <1>5, <1>6

(* Feed: the new octets are part of the rest, and the scan of it finds     *)
(* what a scan of the whole body would.                                    *)
LEMMA FeedFacts ==
  ASSUME NEW w \in Seq(Nat), NEW z \in Seq(Nat), NEW s, NEW r,
         Agrees(s, r, w), Compact(s)
  PROVE  /\ Feed(s, z) \in Scanners /\ Feed(s, z).failed = Scan(w \o z, 0)
         /\ Feed(s, z).failed = "none"
              => Agrees(Feed(s, z), r, w \o z) /\ Compact(Feed(s, z))
<1> DEFINE v == w \o z
           x == s.buf \o z
           q == s.pos
           t == Feed(s, z)
<1>1. s \in Scanners /\ s.failed = "none" /\ r \in Responses
  BY DEF Agrees
<1>2. PICK k \in Nat : \E b :
        /\ Chain(w, k, b) /\ Rest(s, w, b[k]) /\ r.count = k
        /\ r.first = IF k = 0 THEN <<>> ELSE SubSeq(w, PrefixLen + 1, FrameLen(w, 0))
  BY DEF Agrees
<1>3. PICK b :
        /\ Chain(w, k, b) /\ Rest(s, w, b[k]) /\ r.count = k
        /\ r.first = IF k = 0 THEN <<>> ELSE SubSeq(w, PrefixLen + 1, FrameLen(w, 0))
  BY <1>2
<1> DEFINE c == b[k]
<1>4. /\ s.buf \in Seq(Nat) /\ q \in Nat /\ c \in Nat /\ q <= Len(s.buf) /\ c <= Len(w)
      /\ Len(s.buf) - q = Len(w) - c
      /\ \A j \in 1..(Len(w) - c) : s.buf[q + j] = w[c + j]
  BY <1>1, <1>3, ChainWithin, SMTT(30) DEF Rest, Scanners
<1>5. /\ x \in Seq(Nat) /\ Len(x) = Len(s.buf) + Len(z)
      /\ v \in Seq(Nat) /\ Len(v) = Len(w) + Len(z)
      /\ Len(s.buf) \in Nat /\ Len(w) \in Nat /\ Len(z) \in Nat
      /\ \A i \in 1..(Len(s.buf) + Len(z)) :
           x[i] = IF i <= Len(s.buf) THEN s.buf[i] ELSE z[i - Len(s.buf)]
      /\ \A i \in 1..(Len(w) + Len(z)) :
           v[i] = IF i <= Len(w) THEN w[i] ELSE z[i - Len(w)]
  BY <1>4, ConcatProperties, LenProperties
<1>6. Chain(v, k, b)
  BY <1>3, ChainGrows
<1>7. t = [s EXCEPT !.buf = x, !.failed = Scan(x, q)]
  BY <1>1 DEF Feed
<1> DEFINE B == Len(s.buf)
           W == Len(w)
           Z == Len(z)
<1> HIDE DEF v, x, q, t, c, B, W, Z
<1>0. /\ B \in Nat /\ W \in Nat /\ Z \in Nat /\ q \in Nat /\ c \in Nat
      /\ q <= B /\ c <= W /\ B - q = W - c /\ Len(x) = B + Z /\ Len(v) = W + Z
  BY <1>4, <1>5 DEF B, W, Z
<1>8. /\ q \in 0..Len(x) /\ c \in 0..Len(v) /\ Len(x) - q = Len(v) - c
  BY <1>0
<1>9. ASSUME NEW j \in 1..(Len(v) - c) PROVE x[q + j] = v[c + j]
  <2>1. /\ q + j \in 1..(B + Z) /\ c + j \in 1..(W + Z)
        /\ q + j <= B <=> j <= W - c
        /\ c + j <= W <=> j <= W - c
        /\ (q + j) - B = (c + j) - W
    BY <1>0
  <2>2. x[q + j] = IF q + j <= B THEN s.buf[q + j] ELSE z[(q + j) - B]
    BY <1>5, <2>1, Zenon DEF B, Z
  <2>3. v[c + j] = IF c + j <= W THEN w[c + j] ELSE z[(c + j) - W]
    BY <1>5, <2>1, Zenon DEF W, Z
  <2>4. j <= W - c => s.buf[q + j] = w[c + j]
    <3>1. j <= W - c => j \in 1..(W - c)
      BY <1>0
    <3> QED
      BY <1>4, <3>1 DEF W
  <2> QED
    BY <2>1, <2>2, <2>3, <2>4
<1>10. Scan(x, q) = Scan(v, c)
  BY <1>5, <1>8, <1>9, ScanShifts, ZenonT(30)
<1>11. Scan(v, c) = Scan(v, 0)
  BY <1>5, <1>6, ChainScan DEF c
<1>12. Scan(v, 0) \in Errors
  <2>1. Scan(v, 0) = Scan(v, 0) /\ 0 \in 0..Len(v)
    BY <1>5
  <2> QED
    BY <1>5, ScanRange
<1>13. t \in Scanners /\ t.buf = x /\ t.pos = q /\ t.failed = Scan(v, 0)
  BY <1>1, <1>5, <1>7, <1>10, <1>11, <1>12, ZenonT(30) DEF Scanners, q
<1>14. ASSUME Scan(v, 0) = "none" PROVE Agrees(t, r, v)
  <2>1. Rest(t, v, c)
    BY <1>8, <1>9, <1>13 DEF Rest
  <2>2. r.first = IF k = 0 THEN <<>> ELSE SubSeq(v, PrefixLen + 1, FrameLen(v, 0))
    <3>1. CASE k = 0
      BY <1>3, <3>1
    <3>2. CASE k # 0
      <4>1. Whole(w, 0)
        BY <1>3, <3>2 DEF Chain
      <4> DEFINE e == FrameLen(w, 0)
      <4>2. Len(w) - 0 >= PrefixLen /\ Len(w) - 0 >= e
        BY <4>1 DEF Whole
      <4>3. FrameLen(v, 0) = e /\ e \in Nat /\ e >= 2
        BY <4>2, FrameGrows, FrameLenFacts DEF v
      <4> HIDE DEF e
      <4>4. SubSeq(v, 3, e) = SubSeq(w, 3, e)
        <5>1. CASE e = 2
          BY <5>1, SubSeqEmpty
        <5>2. CASE e # 2
          <6>1. 3 \in 1..Len(w) /\ e \in 1..Len(w)
            BY <1>5, <4>2, <4>3, <5>2
          <6> QED
            BY <6>1, SubSeqOfConcat1 DEF v
        <5> QED
          BY <5>1, <5>2, Zenon
      <4>5. r.first = SubSeq(w, PrefixLen + 1, e)
        BY <1>3, <3>2, Zenon DEF e
      <4>6. PrefixLen + 1 = 3
        BY DEF PrefixLen
      <4> QED
        BY <3>2, <4>3, <4>4, <4>5, <4>6, SMTT(30)
    <3> QED
      BY <3>1, <3>2
  <2> QED
    BY <1>1, <1>3, <1>6, <1>13, <1>14, <2>1, <2>2 DEF Agrees, c
<1>15. Compact(t)
  <2>1. q < CompactAt \/ q <= Len(s.buf) - q
    BY DEF Compact, q
  <2> QED
    BY <1>4, <1>5, <1>13, <2>1, SMTT(30) DEF Compact
<1> QED
  BY <1>13, <1>14, <1>15 DEF t, v

(* Scanners that agree with the same body, and have no message left, have  *)
(* found the same.                                                         *)
LEMMA AgreeUnique ==
  ASSUME NEW w \in Seq(Nat),
         NEW s, NEW r, Agrees(s, r, w), ~HasMessage(s),
         NEW t, NEW q, Agrees(t, q, w), ~HasMessage(t)
  PROVE  r = q /\ (HasPartialMessage(s) <=> HasPartialMessage(t))
<1>1. PICK k, b :
        /\ k \in Nat
        /\ Chain(w, k, b) /\ Rest(s, w, b[k]) /\ r.count = k
        /\ r.first = IF k = 0 THEN <<>> ELSE SubSeq(w, PrefixLen + 1, FrameLen(w, 0))
  BY DEF Agrees
<1>2. PICK l, a :
        /\ l \in Nat
        /\ Chain(w, l, a) /\ Rest(t, w, a[l]) /\ q.count = l
        /\ q.first = IF l = 0 THEN <<>> ELSE SubSeq(w, PrefixLen + 1, FrameLen(w, 0))
  BY DEF Agrees
<1>3. /\ s \in Scanners /\ s.failed = "none" /\ r \in Responses
      /\ t \in Scanners /\ t.failed = "none" /\ q \in Responses
      /\ Scan(w, 0) = "none"
  BY DEF Agrees
<1>4. /\ k \in Nat /\ Chain(w, k, b) /\ Rest(s, w, b[k])
      /\ l \in Nat /\ Chain(w, l, a) /\ Rest(t, w, a[l])
  BY <1>1, <1>2
<1>5. ~Whole(w, b[k]) /\ ~Whole(w, a[l])
  <2>1. Scan(w, b[k]) = "none"
    BY <1>3, <1>4, ChainScan, Zenon
  <2>2. Scan(w, a[l]) = "none"
    BY <1>3, <1>4, ChainScan, Zenon
  <2>3. ~Whole(w, b[k])
    BY <1>3, <1>4, <2>1, RestFacts, Zenon
  <2>4. ~Whole(w, a[l])
    BY <1>3, <1>4, <2>2, RestFacts, Zenon
  <2> QED
    BY <2>3, <2>4
<1>6. k = l /\ b[k] = a[l]
  BY <1>4, <1>5, ChainUnique, ZenonT(30)
<1>7. r.count = q.count /\ r.first = q.first
  BY <1>1, <1>2, <1>6
<1>8. r = q
  BY <1>3, <1>7 DEF Responses
<1>9. Len(s.buf) - s.pos = Len(t.buf) - t.pos
  BY <1>1, <1>2, <1>6 DEF Rest
<1>10. s.pos \in Nat /\ Len(s.buf) \in Nat /\ t.pos \in Nat /\ Len(t.buf) \in Nat
  <2>1. s.buf \in Seq(Nat) /\ t.buf \in Seq(Nat) /\ s.pos \in Nat /\ t.pos \in Nat
    BY <1>3 DEF Scanners
  <2> QED
    BY <2>1, LenProperties
<1> QED
  BY <1>8, <1>9, <1>10, SMTT(30) DEF HasPartialMessage

----------------------------------------------------------------------------
(* The call *)

(* The scanner has found in the body what one scan of it would; unless     *)
(* that is an error, it agrees with the body and has handed over all its   *)
(* messages.                                                               *)
BodyInv ==
  /\ wire \in Seq(Nat) /\ scanner \in Scanners
  /\ scanner.failed = Scan(wire, 0)
  /\ scanner.failed = "none" =>
       Agrees(scanner, responses, wire) /\ ~HasMessage(scanner) /\ Compact(scanner)

(* A call that is closed gets no more of a response, so that its verdict   *)
(* remains what FinalizeLocked would say, unless the channel failed it.    *)
VerdictInv ==
  /\ state = "Closed" => stage \in {"ended", "closed"}
  /\ state # "Closed" => result = Pending
  /\ state = "Closed" => \/ result.code = "Unavailable"
                         \/ \E e \in ErrorCodes : result = Finalize(e)

CallInv == BodyInv /\ VerdictInv

(* A new scanner agrees with an empty body. *)
LEMMA NewAgrees ==
  /\ Agrees(NewScanner, [count |-> 0, first |-> <<>>], <<>>)
  /\ ~HasMessage(NewScanner) /\ Compact(NewScanner)
  /\ NewScanner \in Scanners /\ NewScanner.failed = "none" /\ Scan(<<>>, 0) = "none"
<1> DEFINE w == <<>>
           s == NewScanner
           r == [count |-> 0, first |-> w]
<1>1. w \in Seq(Nat) /\ Len(w) = 0
  OBVIOUS
<1> HIDE DEF w
<1>2. s = [buf |-> w, pos |-> 0, failed |-> "none"]
  BY DEF NewScanner, w
<1> HIDE DEF s
<1>3. s \in Scanners /\ s.buf = w /\ s.pos = 0 /\ s.failed = "none"
  BY <1>1, <1>2 DEF Scanners, Errors
<1>4. r \in Responses /\ r.count = 0 /\ r.first = w
  BY <1>1 DEF Responses
<1> HIDE DEF r
<1>5. Scan(w, 0) = "none"
  <2>1. 0 \in 0..Len(w) /\ Len(w) - 0 < PrefixLen
    BY <1>1 DEF PrefixLen
  <2> QED
    BY <1>1, <2>1, ScanCases, Zenon
<1>6. Agrees(s, r, w)
  <2> DEFINE b == [i \in 0..0 |-> 0]
  <2>1. b \in [0..0 -> Nat] /\ b[0] = 0
    OBVIOUS
  <2> HIDE DEF b
  <2>2. Chain(w, 0, b)
    BY <2>1 DEF Chain
  <2>3. Rest(s, w, b[0])
    BY <1>1, <1>3, <2>1 DEF Rest
  <2>4. r.first = <<>>
    BY <1>4 DEF w
  <2> QED
    BY <1>3, <1>4, <1>5, <2>2, <2>3, <2>4, ZenonT(30) DEF Agrees
<1>7. ~HasMessage(s) /\ Compact(s)
  BY <1>1, <1>3, ScannerAssumption DEF HasMessage, Compact, PrefixLen
<1> QED
  BY <1>3, <1>5, <1>6, <1>7 DEF s, r, w

(* The invariant holds for a new call. *)
LEMMA InitCall ==
  ASSUME Init
  PROVE  CallInv
<1>1. /\ wire = <<>> /\ scanner = NewScanner /\ responses = [count |-> 0, first |-> <<>>]
      /\ state = "Created" /\ result = Pending
  BY DEF Init
<1>2. <<>> \in Seq(Nat)
  OBVIOUS
<1>3. BodyInv
  BY <1>1, <1>2, NewAgrees DEF BodyInv
<1> QED
  BY <1>1, <1>3 DEF CallInv, VerdictInv

(* OnData keeps the invariant of the body. *)
LEMMA OnDataInv ==
  ASSUME BodyInv, NEW chunk \in Seq(Nat), OnData(chunk)
  PROVE  BodyInv'
<1>1. wire' = wire \o chunk /\ wire' \in Seq(Nat) /\ wire \in Seq(Nat)
  BY BodyGrows, ZenonT(30) DEF BodyInv, OnData
<1>2. CASE scanner.failed # "none"
  <2>1. scanner' = scanner /\ scanner \in Scanners /\ scanner.failed = Scan(wire, 0)
    BY <1>2 DEF OnData, None, BodyInv
  <2>2. Scan(wire', 0) = Scan(wire, 0)
    BY <1>1, <1>2, <2>1, ScanGrows
  <2> QED
    BY <1>1, <1>2, <2>1, <2>2, SMTT(30) DEF BodyInv
<1>3. CASE scanner.failed = "none"
  <2> DEFINE t == Feed(scanner, chunk)
             d == Drain(t, responses)
  <2>1. scanner' = d.s /\ responses' = d.r
    BY <1>3 DEF OnData, None
  <2>2. Agrees(scanner, responses, wire) /\ Compact(scanner)
    BY <1>3 DEF BodyInv
  <2>3. /\ t \in Scanners /\ t.failed = Scan(wire', 0)
        /\ t.failed = "none" => Agrees(t, responses, wire') /\ Compact(t)
    BY <1>1, <2>2, FeedFacts, SMTT(30)
  <2> HIDE DEF t
  <2>4. CASE t.failed = "none"
    <3>1. /\ Agrees(d.s, d.r, wire') /\ ~HasMessage(d.s) /\ Compact(d.s)
      BY <1>1, <2>3, <2>4, DrainFacts, Zenon
    <3>2. d.s \in Scanners /\ d.s.failed = "none"
      BY <3>1 DEF Agrees
    <3> HIDE DEF d
    <3> QED
      BY <1>1, <2>1, <2>3, <2>4, <3>1, <3>2, SMTT(30) DEF BodyInv
  <2>5. CASE t.failed # "none"
    <3>1. d = [s |-> t, r |-> responses]
      BY <2>3, <2>5, DrainFailed
    <3>2. scanner' = t
      BY <2>1, <3>1
    <3> QED
      BY <1>1, <2>3, <2>5, <3>2 DEF BodyInv
  <2> QED
    BY <2>4, <2>5
<1> QED
  BY <1>2, <1>3, SMTT(30)

(* What FinalizeLocked says depends on the response alone. *)
LEMMA FinalizeSame ==
  ASSUME UNCHANGED <<scanner, responses, http, status_raw>>
  PROVE  \A e : Finalize(e)' = Finalize(e)
  BY DEF Finalize

(* A step keeps the invariant, and whatever is closed as it is. *)
LEMMA NextCall ==
  ASSUME CallInv, [Next]_vars
  PROVE  /\ CallInv'
         /\ state = "Closed" => state' = "Closed" /\ result' = result
<1> DEFINE same == UNCHANGED <<scanner, responses, wire>>
           final == state = "Closed" => state' = "Closed" /\ result' = result
<1>1. same => BodyInv'
  BY DEF CallInv, BodyInv
<1>2. CASE OnSubmitted
  <2>1. same /\ final /\ VerdictInv'
    BY <1>2 DEF OnSubmitted, CallInv, VerdictInv, Pending
  <2> QED
    BY <1>1, <2>1 DEF CallInv
<1>3. CASE \E st \in HttpStatuses, grpc, end_stream \in BOOLEAN,
              gs \in GrpcStatuses \cup {None} :
             OnResponseHeaders(st, grpc, end_stream, gs)
  <2>1. /\ same /\ state # "Closed" /\ state' = "Open" /\ result' = result
    BY <1>3 DEF OnResponseHeaders, CallInv, VerdictInv
  <2>2. final /\ VerdictInv'
    BY <2>1 DEF CallInv, VerdictInv, Pending
  <2> QED
    BY <1>1, <2>1, <2>2 DEF CallInv
<1>4. CASE \E chunk \in Chunks : OnData(chunk)
  <2>1. PICK chunk \in Chunks : OnData(chunk)
    BY <1>4
  <2>2. chunk \in Seq(Nat)
    <3>1. PICK n \in 1..(MaxBytes - Len(wire)) : chunk \in [1..n -> Bytes]
      BY DEF Chunks
    <3>2. n \in Nat /\ chunk \in Seq(Bytes)
      BY <3>1
    <3> QED
      BY <3>2, BytesAssumption, SeqMonotonic, Zenon
  <2>3. BodyInv'
    BY <2>1, <2>2, OnDataInv DEF CallInv
  <2>4. /\ state # "Closed" /\ state' = state /\ result' = result
    BY <2>1 DEF OnData, CallInv, VerdictInv
  <2>5. final /\ VerdictInv'
    BY <2>4 DEF CallInv, VerdictInv, Pending
  <2> QED
    BY <2>3, <2>5 DEF CallInv
<1>5. CASE \E gs \in GrpcStatuses \cup {None} : OnTrailers(gs)
  <2>1. same /\ state # "Closed" /\ state' = state /\ result' = result
    BY <1>5 DEF OnTrailers, CallInv, VerdictInv
  <2>2. final /\ VerdictInv'
    BY <2>1 DEF CallInv, VerdictInv, Pending
  <2> QED
    BY <1>1, <2>1, <2>2 DEF CallInv
<1>6. CASE \E error_code \in ErrorCodes : OnClose(error_code)
  <2>1. PICK e \in ErrorCodes : OnClose(e)
    BY <1>6
  <2>2. same /\ stage' = "closed" /\ \A x : Finalize(x)' = Finalize(x)
    BY <2>1, FinalizeSame DEF OnClose
  <2>3. CASE state = "Closed"
    <3>1. state' = "Closed" /\ result' = result
      BY <2>1, <2>3 DEF OnClose
    <3>2. VerdictInv'
      BY <2>2, <2>3, <3>1 DEF CallInv, VerdictInv
    <3> QED
      BY <1>1, <2>2, <3>1, <3>2 DEF CallInv
  <2>4. CASE state # "Closed"
    <3>1. state' = "Closed" /\ result' = Finalize(e)
      BY <2>1, <2>4 DEF OnClose
    <3>2. VerdictInv'
      BY <2>2, <3>1 DEF VerdictInv
    <3> QED
      BY <1>1, <2>2, <2>4, <3>2 DEF CallInv
  <2> QED
    BY <2>3, <2>4
<1>7. CASE FailLocal
  <2>1. /\ same /\ state # "Closed" /\ state' = "Closed"
        /\ stage' \in {"ended", "closed"} /\ result'.code = "Unavailable"
    BY <1>7 DEF FailLocal, Pending
  <2>2. VerdictInv'
    BY <2>1 DEF VerdictInv
  <2> QED
    BY <1>1, <2>1, <2>2 DEF CallInv
<1>8. CASE WaitReturns \/ UNCHANGED vars
  <2>1. same /\ UNCHANGED <<state, result, stage, http, status_raw>>
    BY <1>8 DEF WaitReturns, vars
  <2>2. \A x : Finalize(x)' = Finalize(x)
    BY <2>1, FinalizeSame
  <2>3. final /\ VerdictInv'
    BY <2>1, <2>2 DEF CallInv, VerdictInv, Pending
  <2> QED
    BY <1>1, <2>1, <2>3 DEF CallInv
<1> QED
  BY <1>2, <1>3, <1>4, <1>5, <1>6, <1>7, <1>8 DEF Next, Done

----------------------------------------------------------------------------
(* The theorems *)

(* CallInv holds in every state of a call: for any body, and any order of  *)
(* the hooks that nghttp2 allows.                                          *)
THEOREM CallInvariance == Spec => []CallInv
<1>1. Init => CallInv
  BY InitCall
<1>2. CallInv /\ [Next]_vars => CallInv'
  BY NextCall
<1> QED
  BY <1>1, <1>2, PTL DEF Spec

(* The result is final: no hook that comes late changes it (call_state.cc, *)
(* the tests for kClosed).                                                 *)
THEOREM ResultsAreFinal == Spec => ResultFinal
<1>1. CallInv /\ [Next]_vars
        => [state = "Closed" => state' = "Closed" /\ result' = result]_vars
  BY NextCall
<1> QED
  BY <1>1, CallInvariance, PTL DEF Spec, ResultFinal

(* However a body is cut into DATA chunks, OnData's scanner finds what it  *)
(* would find in one piece.                                                *)
THEOREM CutsNeverMatter == Spec => []CutsDoNotMatter
<1>1. ASSUME CallInv PROVE CutsDoNotMatter
  <2> DEFINE none == [count |-> 0, first |-> <<>>]
             empty == <<>>
             t == Feed(NewScanner, wire)
             d == Drain(t, none)
  <2>1. wire \in Seq(Nat) /\ scanner.failed = Scan(wire, 0)
    BY <1>1 DEF CallInv, BodyInv
  <2>2. Agrees(NewScanner, none, empty) /\ Compact(NewScanner)
    BY NewAgrees
  <2>3. empty \o wire = wire /\ empty \in Seq(Nat)
    BY <2>1, ConcatEmptySeq
  <2> HIDE DEF none, empty
  <2>4. /\ t \in Scanners /\ t.failed = Scan(wire, 0)
        /\ t.failed = "none" => Agrees(t, none, wire)
    BY <2>1, <2>2, <2>3, FeedFacts, ZenonT(30)
  <2> HIDE DEF t
  <2>5. CASE scanner.failed = "none"
    <3>1. Agrees(d.s, d.r, wire) /\ ~HasMessage(d.s)
      BY <2>1, <2>4, <2>5, DrainFacts
    <3>2. Agrees(scanner, responses, wire) /\ ~HasMessage(scanner)
      BY <1>1, <2>5 DEF CallInv, BodyInv
    <3> HIDE DEF d
    <3>3. responses = d.r /\ (HasPartialMessage(scanner) <=> HasPartialMessage(d.s))
      BY <2>1, <3>1, <3>2, AgreeUnique, SMTT(30)
    <3>4. d.s.failed = "none"
      BY <3>1 DEF Agrees
    <3>5. HasPartialMessage(scanner) = HasPartialMessage(d.s)
      BY <3>3 DEF HasPartialMessage
    <3> QED
      BY <2>5, <3>3, <3>4, <3>5 DEF CutsDoNotMatter, None, d, t, none
  <2>6. CASE scanner.failed # "none"
    <3>1. d = [s |-> t, r |-> none]
      BY <2>1, <2>4, <2>6, DrainFailed
    <3>2. d.s.failed = scanner.failed
      BY <2>1, <2>4, <3>1
    <3> HIDE DEF d
    <3> QED
      BY <2>6, <3>2 DEF CutsDoNotMatter, None, d, t, none
  <2> QED
    BY <2>5, <2>6
<1> QED
  BY <1>1, CallInvariance, PTL

(* The buffer stays bounded, whatever the peer sends (grpc_wire.cc, the    *)
(* compaction in Next).                                                    *)
THEOREM BufferStaysBounded == Spec => []BufferBounded
<1>1. ASSUME CallInv PROVE BufferBounded
  <2> SUFFICES ASSUME scanner.failed = "none"
               PROVE  Left(scanner) < PrefixLen + MaxMessageSize /\ Compact(scanner)
    BY DEF BufferBounded, None, Left, Compact
  <2>1. /\ wire \in Seq(Nat) /\ Agrees(scanner, responses, wire)
        /\ ~HasMessage(scanner) /\ Compact(scanner)
    BY <1>1 DEF CallInv, BodyInv
  <2>2. PICK k, b : k \in Nat /\ Chain(wire, k, b) /\ Rest(scanner, wire, b[k])
    BY <2>1, SMTT(30) DEF Agrees
  <2> DEFINE c == b[k]
  <2>3. scanner \in Scanners /\ scanner.failed = "none" /\ Scan(wire, c) = "none"
    BY <2>1, <2>2, ChainScan DEF Agrees
  <2>4. c \in Nat /\ c <= Len(wire) /\ Len(wire) \in Nat
    BY <2>1, <2>2, ChainWithin, LenProperties
  <2>5. Left(scanner) = Len(wire) - c
    BY <2>2 DEF Rest, Left
  <2> HIDE DEF c
  <2>6. CASE Len(wire) - c >= PrefixLen
    <3>1. /\ ~Whole(wire, c) /\ PrefixError(wire, c) = "none"
      BY <2>1, <2>2, <2>3, <2>6, RestFacts DEF c
    <3>2. wire[c + 2] \in Nat
      <4>1. c + 2 \in 1..Len(wire)
        BY <2>4, <2>6 DEF PrefixLen
      <4> QED
        BY <2>1, <4>1, ElementOfSeq
    <3>3. wire[c + 2] <= MaxMessageSize
      BY <3>1, <3>2, ScannerAssumption DEF PrefixError
    <3>4. Len(wire) - c < PrefixLen + wire[c + 2]
      BY <2>4, <2>6, <3>1, <3>2 DEF Whole, FrameLen, PrefixLen
    <3> QED
      BY <2>1, <2>4, <2>5, <3>2, <3>3, <3>4, ScannerAssumption, SMTT(30) DEF PrefixLen
  <2>7. CASE ~(Len(wire) - c >= PrefixLen)
    BY <2>1, <2>4, <2>5, <2>7, ScannerAssumption DEF PrefixLen
  <2> QED
    BY <2>6, <2>7
<1> QED
  BY <1>1, CallInvariance, PTL

(* A body that is one valid frame and nothing else. *)
OneFrame(w) == Whole(w, 0) /\ FrameLen(w, 0) = Len(w)

(* One message and nothing left over is what the scanner finds exactly in  *)
(* a body of one frame.                                                    *)
LEMMA OneFrameFacts ==
  ASSUME BodyInv
  PROVE  /\ OneFrame(wire) <=> /\ Len(wire) >= PrefixLen /\ wire[1] = 0
                               /\ wire[2] <= MaxMessageSize
                               /\ Len(wire) = PrefixLen + wire[2]
         /\ OneFrame(wire) <=> /\ scanner.failed = "none" /\ responses.count = 1
                               /\ ~HasPartialMessage(scanner)
         /\ OneFrame(wire) =>
              responses.first = SubSeq(wire, PrefixLen + 1, Len(wire))
<1>1. wire \in Seq(Nat) /\ Len(wire) \in Nat
  BY LenProperties DEF BodyInv
<1>2. OneFrame(wire) <=> /\ Len(wire) >= PrefixLen /\ wire[1] = 0
                         /\ wire[2] <= MaxMessageSize
                         /\ Len(wire) = PrefixLen + wire[2]
  <2>1. Len(wire) >= PrefixLen => wire[2] \in Nat
    <3>1. Len(wire) >= PrefixLen => 2 \in 1..Len(wire)
      BY <1>1 DEF PrefixLen
    <3> QED
      BY <1>1, <3>1, ElementOfSeq
  <2> QED
    BY <1>1, <2>1, ScannerAssumption
       DEF OneFrame, Whole, PrefixError, FrameLen, PrefixLen
<1>3. ASSUME scanner.failed = "none", responses.count = 1, ~HasPartialMessage(scanner)
      PROVE  OneFrame(wire)
  <2>1. PICK k, b : /\ k \in Nat /\ Chain(wire, k, b) /\ Rest(scanner, wire, b[k])
                    /\ responses.count = k
    BY <1>3 DEF BodyInv, Agrees
  <2>2. b[0] = 0 /\ Whole(wire, 0) /\ b[1] = FrameLen(wire, 0) /\ k = 1
    <3>1. 0 \in 0..(k - 1) /\ 0 + 1 = 1 /\ k = 1
      BY <1>3, <2>1
    <3>2. b[0] = 0 /\ Whole(wire, b[0]) /\ b[0 + 1] = b[0] + FrameLen(wire, b[0])
      BY <2>1, <3>1 DEF Chain
    <3>3. FrameLen(wire, 0) \in Nat
      BY <1>1, <3>2, FrameLenFacts DEF Whole
    <3> QED
      BY <3>1, <3>2, <3>3
  <2>3. scanner.pos \in Nat /\ scanner.buf \in Seq(Nat) /\ Len(scanner.buf) \in Nat
    BY LenProperties DEF BodyInv, Scanners
  <2>4. b[1] \in Nat /\ b[1] <= Len(wire)
        /\ Len(scanner.buf) - scanner.pos = Len(wire) - b[1]
        /\ scanner.pos <= Len(scanner.buf)
    BY <1>1, <2>1, <2>2, ChainWithin DEF Rest
  <2>5. b[1] = Len(wire)
    BY <1>1, <1>3, <2>3, <2>4 DEF HasPartialMessage
  <2> QED
    BY <2>2, <2>5, SMTT(30) DEF OneFrame
<1>4. ASSUME OneFrame(wire)
      PROVE  /\ scanner.failed = "none" /\ responses.count = 1
             /\ ~HasPartialMessage(scanner)
             /\ responses.first = SubSeq(wire, PrefixLen + 1, Len(wire))
  <2> DEFINE W == Len(wire)
             a == [i \in 0..1 |-> IF i = 0 THEN 0 ELSE W]
  <2>1. Whole(wire, 0) /\ FrameLen(wire, 0) = W /\ 0 \in 0..W /\ 0 + W = W
    BY <1>1, <1>4 DEF OneFrame
  <2>2. ~Whole(wire, W)
    BY <1>1 DEF Whole, PrefixLen
  <2>3. Scan(wire, 0) = "none"
    <3>1. Scan(wire, 0) = Scan(wire, W)
      BY <1>1, <2>1, ScanCases
    <3>2. W \in 0..Len(wire) /\ Len(wire) - W < PrefixLen
      BY <1>1 DEF PrefixLen
    <3>3. Scan(wire, W) = "none"
      BY <1>1, <3>2, ScanCases
    <3> QED
      BY <3>1, <3>3
  <2>4. scanner.failed = "none"
    BY <2>3 DEF BodyInv
  <2>5. Chain(wire, 1, a) /\ a[1] = W
    <3>1. a \in [0..1 -> Nat] /\ a[0] = 0 /\ a[1] = W
      BY <1>1
    <3>2. \A i \in 0..(1 - 1) : i = 0 /\ i + 1 = 1
      OBVIOUS
    <3> HIDE DEF a
    <3> QED
      BY <2>1, <3>1, <3>2 DEF Chain
  <2> HIDE DEF a
  <2>6. PICK k, b :
          /\ k \in Nat
          /\ Chain(wire, k, b) /\ Rest(scanner, wire, b[k]) /\ responses.count = k
          /\ responses.first = IF k = 0 THEN <<>>
                               ELSE SubSeq(wire, PrefixLen + 1, FrameLen(wire, 0))
    BY <2>4, SMTT(30) DEF BodyInv, Agrees
  <2>7. scanner \in Scanners /\ ~HasMessage(scanner) /\ Scan(wire, b[k]) = "none"
    BY <1>1, <2>3, <2>4, <2>6, ChainScan, SMTT(30) DEF BodyInv
  <2>8. ~Whole(wire, b[k])
    BY <1>1, <2>4, <2>6, <2>7, RestFacts, SMTT(30)
  <2>9. k = 1 /\ b[k] = W
    <3> DEFINE l == 1
    <3>1. l \in Nat /\ Chain(wire, l, a) /\ ~Whole(wire, a[l]) /\ a[l] = W
      BY <2>2, <2>5, SMTT(30)
    <3> HIDE DEF l
    <3>2. k = l /\ b[k] = a[l]
      BY <1>1, <2>6, <2>8, <3>1, ChainUnique
    <3> QED
      BY <3>1, <3>2 DEF l
  <2>10. scanner.pos \in Nat /\ scanner.buf \in Seq(Nat) /\ Len(scanner.buf) \in Nat
    BY <2>7, LenProperties DEF Scanners
  <2>11. ~HasPartialMessage(scanner)
    BY <1>1, <2>6, <2>9, <2>10, SMTT(30) DEF HasPartialMessage, Rest
  <2>12. responses.first = SubSeq(wire, PrefixLen + 1, FrameLen(wire, 0))
    BY <2>6, <2>9
  <2> QED
    BY <2>1, <2>4, <2>6, <2>9, <2>11, <2>12, Zenon
<1> QED
  BY <1>2, <1>3, <1>4

(* A caller is told Ok only for a status of OK and a body of one frame     *)
(* (FinalizeLocked), and gets its payload; and for these it is told Ok,    *)
(* unless the channel failed the call first.                               *)
THEOREM OkMeansOneMessage == Spec => []OkIsOneMessage
<1>1. ASSUME CallInv PROVE OkIsOneMessage
  <2>1. BodyInv /\ VerdictInv
    BY <1>1 DEF CallInv
  <2>2. ASSUME result.code = "Ok"
        PROVE  /\ status_raw = "Ok" /\ OneFrame(wire)
               /\ result.response = SubSeq(wire, PrefixLen + 1, Len(wire))
    <3>1. PICK e \in ErrorCodes : result = Finalize(e)
      BY <2>1, <2>2 DEF VerdictInv, Pending
    <3>2. scanner.failed \in Errors
      BY <2>1 DEF BodyInv, Scanners
    <3>3. \A raw : ParseGrpcStatus(raw) = "Ok" => raw = "Ok"
      BY Zenon DEF ParseGrpcStatus
    <3>4. \A st : HttpStatusToGrpcCode(st) # "Ok"
      BY DEF HttpStatusToGrpcCode
    <3>5. ResetCode(e) # "Ok"
      BY DEF ResetCode
    <3>6. \A code : [Pending EXCEPT !.code = code].code = code
      BY DEF Pending
    <3>7. /\ scanner.failed = "none" /\ status_raw = "Ok"
          /\ ~HasPartialMessage(scanner) /\ responses.count = 1
          /\ result = [code |-> "Ok", response |-> responses.first]
      BY <2>2, <3>1, <3>2, <3>3, <3>4, <3>5, <3>6 DEF Finalize, None, Errors
    <3> QED
      BY <2>1, <3>7, OneFrameFacts
  <2>3. ASSUME state = "Closed", status_raw = "Ok", OneFrame(wire)
        PROVE  result.code \in {"Ok", "Unavailable"}
    <3>1. CASE result.code = "Unavailable"
      BY <3>1
    <3>2. CASE \E e \in ErrorCodes : result = Finalize(e)
      <4>1. PICK e \in ErrorCodes : result = Finalize(e)
        BY <3>2
      <4>2. /\ scanner.failed = "none" /\ responses.count = 1
            /\ ~HasPartialMessage(scanner)
        BY <2>1, <2>3, OneFrameFacts
      <4>3. ParseGrpcStatus("Ok") = "Ok"
        BY DEF ParseGrpcStatus
      <4>4. result = [code |-> "Ok", response |-> responses.first]
        BY <2>3, <4>1, <4>2, <4>3 DEF Finalize, None
      <4> QED
        BY <4>4
    <3> QED
      BY <2>1, <2>3, <3>1, <3>2 DEF VerdictInv
  <2> QED
    BY <2>1, <2>2, <2>3, OneFrameFacts DEF OkIsOneMessage
<1> QED
  BY <1>1, CallInvariance, PTL
=============================================================================
