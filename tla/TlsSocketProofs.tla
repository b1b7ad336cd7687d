-------------------------- MODULE TlsSocketProofs --------------------------
(***************************************************************************)
(* Proofs about TlsSocket, for any number of addresses, whatever listens   *)
(* there, any number of descriptors and of files other threads open.       *)
(***************************************************************************)
EXTENDS TlsSocket, WellFoundedInduction, TLAPS

(* A set of numbers that is not empty has a least element. *)
LEMMA LeastExists ==
  ASSUME NEW T \in SUBSET Nat, T # {}
  PROVE  \E x \in T : \A y \in T : x <= y
<1> DEFINE R == OpToRel(<, Nat)
<1>1. IsWellFoundedOn(R, Nat)
  BY NatLessThanWellFounded, Zenon
<1>2. \A x, y \in Nat : y < x => <<y, x>> \in R
  BY DEF OpToRel
<1> HIDE DEF R
<1>3. PICK x \in T : \A y \in T : ~(<<y, x>> \in R)
  BY <1>1, WFMin, Zenon
<1>4. ASSUME NEW y \in T PROVE x <= y
  <2>1. x \in Nat /\ y \in Nat /\ ~(y < x)
    BY <1>2, <1>3, <1>4, Zenon
  <2> QED
    BY <2>1
<1> QED
  BY <1>4

----------------------------------------------------------------------------
(* Connecting *)

Connecting == {"TcpConnecting", "TlsHandshake"}

Sockets ==
  [state : {"Idle", "TcpConnecting", "TlsHandshake", "Connected", "Failed", "Closed"},
   fd : {-1} \cup 1..MaxFd, next : 1..(Addresses + 1), ctx : BOOLEAN, ssl : BOOLEAN,
   want : {"none", "in", "out"}]

TypeInv ==
  /\ peers \in [1..Addresses -> Kinds] /\ sock \in Sockets
  /\ table \in [1..MaxFd -> {"free", "sock", "other"}]
  /\ conn \in {"none", "syn", "up", "refused"}
  /\ watched \in {-1} \cup 1..MaxFd /\ pc \in {"idle", "try", "poll", "handshake"}
  /\ timer \in BOOLEAN /\ trouble \in BOOLEAN

(* The descriptor is open exactly while an attempt is under way or has     *)
(* succeeded, and only then is there a connection.                         *)
FdInv ==
  /\ \A f \in 1..MaxFd : table[f] = "sock" <=> f = sock.fd
  /\ pc = "idle" => sock = Idle /\ watched = -1 /\ ~timer
  /\ pc = "try" => sock.fd = -1 /\ sock.ctx /\ sock.state \in {"Idle", "TcpConnecting"}
  /\ pc = "handshake" => sock.state = "TlsHandshake"
  /\ pc = "poll" => sock.state # "Idle"
  /\ pc \in {"poll", "handshake"} /\ sock.state \in Connecting \cup {"Connected"}
       => sock.fd # -1 /\ sock.ctx /\ sock.next > 1
  /\ sock.state \in {"Failed", "Closed"}
       => /\ pc = "poll" /\ sock.fd = -1 /\ ~sock.ctx /\ ~sock.ssl
          /\ ~timer /\ watched = -1
  /\ sock.fd = -1 => conn = "none"
  /\ conn = "refused" => peers[sock.next - 1] = "refuses"
  /\ sock.state = "Connected" => peers[sock.next - 1] = "good"

(* All addresses below n refuse. *)
RefuseBelow(n) == \A i \in 1..Addresses : i < n => peers[i] = "refuses"

(* Unless there is trouble: the addresses before the one that is tried     *)
(* have refused; the descriptor is watched, so that a handshake starts     *)
(* once the connection is up; and the attempt that ended the connect was   *)
(* made at the first address that answers.                                 *)
FirstInv ==
  ~trouble =>
    /\ RefuseBelow(IF pc \in {"idle", "try"} THEN sock.next ELSE sock.next - 1)
       \/ sock.state \in {"Failed", "Closed"}
    /\ pc \in {"poll", "handshake"} /\ sock.state \in Connecting => watched = sock.fd
    /\ sock.state = "TlsHandshake" => conn = "up"
    /\ sock.state = "Failed" =>
         \/ RefuseBelow(Addresses + 1)
         \/ \E i \in 1..Addresses : RefuseBelow(i) /\ peers[i] \notin {"good", "refuses"}

TInv == TypeInv /\ FdInv /\ FirstInv

(* socket() and open() return a free number, if there is one. *)
LEMMA LowestFreeIsFree ==
  ASSUME TypeInv, Free # {}
  PROVE  LowestFree \in 1..MaxFd /\ table[LowestFree] = "free"
<1>1. Free \in SUBSET Nat
  BY AddressesAssumption DEF Free
<1>2. \E f \in Free : \A g \in Free : f <= g
  BY <1>1, LeastExists
<1>3. LowestFree \in Free
  BY <1>2 DEF LowestFree
<1> QED
  BY <1>3 DEF Free

(* The invariant holds before the connect. *)
LEMMA InitTInv ==
  ASSUME Init
  PROVE  TInv
<1>1. TypeInv
  <2>1. sock \in Sockets
    BY AddressesAssumption DEF Init, Sockets, Idle
  <2>2. table \in [1..MaxFd -> {"free", "sock", "other"}]
    BY DEF Init
  <2> QED
    BY <2>1, <2>2, Zenon DEF Init, TypeInv
<1>2. FdInv
  <2>1. sock.state = "Idle" /\ sock.fd = -1
    BY DEF Init, Idle
  <2> QED
    BY <2>1, AddressesAssumption DEF Init, FdInv, Connecting
<1>3. FirstInv
  BY AddressesAssumption DEF Init, FirstInv, RefuseBelow, Idle, Connecting
<1> QED
  BY <1>1, <1>2, <1>3 DEF TInv

(* Fail and Close give back the descriptor and everything that goes with   *)
(* it, whatever state the socket was in.                                   *)
LEMMA ReleaseFacts ==
  ASSUME TInv, NEW state \in {"Failed", "Closed"}, Release(state),
         peers' = peers, trouble' \in BOOLEAN
  PROVE  /\ TypeInv' /\ FdInv'
         /\ sock'.state = state /\ sock'.next = sock.next /\ pc' = "poll"
<1>1. TypeInv'
  BY AddressesAssumption, Zenon DEF TInv, TypeInv, Sockets, Release, Released
<1>2. sock'.state = state /\ sock'.next = sock.next /\ sock'.fd = -1
      /\ ~sock'.ctx /\ ~sock'.ssl
  BY DEF TInv, TypeInv, Sockets, Release
<1>3. \A f \in 1..MaxFd : table'[f] = "sock" <=> f = sock'.fd
  <2> SUFFICES ASSUME NEW f \in 1..MaxFd PROVE table'[f] # "sock" /\ f # -1
    BY <1>2
  <2> QED
    BY AddressesAssumption DEF TInv, FdInv, TypeInv, Release, Released
<1>4. FdInv'
  BY <1>2, <1>3 DEF Release, FdInv, Connecting
<1> QED
  BY <1>1, <1>2, <1>4 DEF Release

(* StartConnect keeps the invariant. *)
LEMMA StartConnectInv ==
  ASSUME TInv, StartConnect
  PROVE  TInv'
<1>1. CASE Release("Failed") /\ trouble' = TRUE /\ UNCHANGED <<peers, opens>>
  <2>1. TypeInv' /\ FdInv'
    BY <1>1, ReleaseFacts
  <2> QED
    BY <1>1, <2>1 DEF TInv, FirstInv
<1>2. CASE /\ pc = "idle" /\ timer' = TRUE /\ pc' = "try"
           /\ sock' = [sock EXCEPT !.ctx = TRUE]
           /\ UNCHANGED <<table, kernel, watched, trouble>>
           /\ UNCHANGED <<peers, opens>>
  <2>1. sock' = [Idle EXCEPT !.ctx = TRUE] /\ sock = Idle
    BY <1>2 DEF TInv, FdInv
  <2>2. TypeInv'
    BY <1>2, <2>1, Zenon DEF TInv, TypeInv, Sockets, Idle, kernel
  <2>3. FdInv'
    BY <1>2, <2>1 DEF TInv, FdInv, TypeInv, Sockets, Idle, kernel, Connecting
  <2>4. FirstInv'
    BY <1>2, <2>1 DEF TInv, FirstInv, RefuseBelow, TypeInv, Idle, kernel, Connecting
  <2> QED
    BY <2>2, <2>3, <2>4 DEF TInv
<1> QED
  BY <1>1, <1>2, Zenon DEF StartConnect

(* The turns of TryNextAddress that open no connection keep the invariant. *)
LEMMA TryAgainInv ==
  ASSUME TInv, TryRefused \/ TryNoSocket
  PROVE  TInv'
<1>1. /\ pc = "try" /\ sock.next <= Addresses
      /\ sock' = [sock EXCEPT !.next = @ + 1]
      /\ UNCHANGED <<peers, table, conn, watched, timer, pc>>
      /\ trouble' \in BOOLEAN
  BY Zenon DEF TryRefused, TryNoSocket, TInv, TypeInv, kernel, owner
<1>2. TypeInv'
  BY <1>1, AddressesAssumption DEF TInv, TypeInv, Sockets
<1>3. /\ sock'.next = sock.next + 1 /\ sock'.state = sock.state
      /\ sock'.fd = sock.fd /\ sock'.ctx = sock.ctx /\ sock'.ssl = sock.ssl
      /\ sock.next \in Nat
  BY <1>1, AddressesAssumption DEF TInv, TypeInv, Sockets
<1>4. FdInv'
  BY <1>1, <1>3 DEF TInv, FdInv
<1>5. FirstInv'
  <2> SUFFICES ASSUME ~trouble' PROVE FirstInv'
    BY DEF FirstInv
  <2>1. ~trouble /\ peers[sock.next] = "refuses"
    BY DEF TryRefused, TryNoSocket
  <2>2. RefuseBelow(sock.next) /\ sock.state \in {"Idle", "TcpConnecting"}
    BY <1>1, <2>1 DEF TInv, FdInv, FirstInv
  <2>3. \A i \in 1..Addresses : i < sock'.next => peers'[i] = "refuses"
    BY <1>1, <1>3, <2>1, <2>2, AddressesAssumption DEF RefuseBelow
  <2> QED
    BY <1>1, <1>3, <2>2, <2>3 DEF FirstInv, RefuseBelow
<1> QED
  BY <1>2, <1>4, <1>5 DEF TInv

(* The turn that opens a connection keeps the invariant. *)
LEMMA TryOpenedInv ==
  ASSUME TInv, NEW connected \in BOOLEAN, TryOpened(connected)
  PROVE  TInv'
<1> DEFINE fd == LowestFree
<1>1. fd \in 1..MaxFd /\ table[fd] = "free" /\ fd # -1
  BY LowestFreeIsFree, AddressesAssumption DEF TInv, TryOpened
<1>2. /\ pc = "try" /\ sock.next <= Addresses
      /\ connected => peers[sock.next] # "refuses"
      /\ sock' = [sock EXCEPT !.fd = fd, !.next = @ + 1, !.want = "out",
                    !.state = IF connected THEN "TlsHandshake" ELSE "TcpConnecting"]
      /\ table' = [table EXCEPT ![fd] = "sock"]
      /\ conn' = IF connected THEN "up" ELSE "syn"
      /\ watched' = IF watched = -1 THEN fd ELSE watched
      /\ pc' = IF watched # -1 /\ connected THEN "handshake" ELSE "poll"
      /\ trouble' = (trouble \/ watched \notin {-1, fd})
      /\ UNCHANGED <<peers, timer>>
  BY DEF TryOpened
<1> HIDE DEF fd
<1>3. trouble' \in BOOLEAN /\ timer' \in BOOLEAN
  BY <1>2 DEF TInv, TypeInv
<1>4. TypeInv'
  <2>1. sock' \in Sockets
    <3> DEFINE to == IF connected THEN "TlsHandshake" ELSE "TcpConnecting"
    <3>1. to \in {"TlsHandshake", "TcpConnecting"}
      OBVIOUS
    <3>2. sock' = [sock EXCEPT !.fd = fd, !.next = @ + 1, !.want = "out",
                     !.state = to]
      BY <1>2
    <3>3. sock \in Sockets /\ sock.next <= Addresses
      BY <1>2 DEF TInv, TypeInv
    <3>4. sock.next + 1 \in 1..(Addresses + 1) /\ fd \in {-1} \cup 1..MaxFd
      BY <1>1, <3>3, AddressesAssumption DEF Sockets
    <3> HIDE DEF to
    <3> QED
      BY <3>1, <3>2, <3>3, <3>4, Zenon DEF Sockets
  <2>2. table' \in [1..MaxFd -> {"free", "sock", "other"}]
    BY <1>1, <1>2 DEF TInv, TypeInv
  <2>3. watched' \in {-1} \cup 1..MaxFd
    BY <1>1, <1>2 DEF TInv, TypeInv
  <2> QED
    BY <1>2, <1>3, <2>1, <2>2, <2>3 DEF TInv, TypeInv
<1>5. /\ sock'.next = sock.next + 1 /\ sock'.fd = fd /\ sock'.ctx = sock.ctx
      /\ sock'.state = IF connected THEN "TlsHandshake" ELSE "TcpConnecting"
      /\ sock.next \in Nat /\ sock.next > 0
  BY <1>2, AddressesAssumption DEF TInv, TypeInv, Sockets
<1>6. sock.fd = -1 /\ sock.ctx
  BY <1>2 DEF TInv, FdInv
<1>7. \A f \in 1..MaxFd : table'[f] = "sock" <=> f = sock'.fd
  BY <1>1, <1>2, <1>5, <1>6, AddressesAssumption DEF TInv, TypeInv, FdInv
<1>8. FdInv'
  BY <1>1, <1>2, <1>5, <1>6, <1>7 DEF FdInv, Connecting
<1>9. FirstInv'
  <2> SUFFICES ASSUME ~trouble' PROVE FirstInv'
    BY DEF FirstInv
  <2>1. ~trouble /\ watched \in {-1, fd}
    BY <1>2, Zenon
  <2>2. RefuseBelow(sock.next)
    BY <1>2, <2>1 DEF TInv, FdInv, FirstInv
  <2>3. \A i \in 1..Addresses : i < sock'.next - 1 => peers'[i] = "refuses"
    BY <1>2, <1>5, <2>2, AddressesAssumption DEF RefuseBelow
  <2> QED
    BY <1>2, <1>5, <2>1, <2>3 DEF FirstInv, RefuseBelow
<1> QED
  BY <1>4, <1>8, <1>9 DEF TInv

(* Running out of addresses keeps the invariant: every one has refused. *)
LEMMA TryFailsInv ==
  ASSUME TInv, TryFails
  PROVE  TInv'
<1>1. TypeInv' /\ FdInv' /\ sock'.state = "Failed" /\ pc' = "poll"
  BY ReleaseFacts DEF TryFails, TInv, TypeInv
<1>2. FirstInv'
  <2> SUFFICES ASSUME ~trouble' PROVE FirstInv'
    BY DEF FirstInv
  <2>1. ~trouble /\ pc = "try" /\ sock.next > Addresses /\ peers' = peers
    BY DEF TryFails
  <2>2. RefuseBelow(sock.next)
    BY <2>1 DEF TInv, FdInv, FirstInv
  <2>3. \A i \in 1..Addresses : peers'[i] = "refuses"
    BY <2>1, <2>2, AddressesAssumption DEF RefuseBelow, TInv, TypeInv, Sockets
  <2> QED
    BY <1>1, <2>3 DEF FirstInv, RefuseBelow, Connecting
<1> QED
  BY <1>1, <1>2 DEF TInv

(* ContinueTlsHandshake keeps the invariant.  It is called in the two      *)
(* connecting states, of a connection that is up unless there is trouble.  *)
LEMMA HandshakeInv ==
  ASSUME TInv, ContinueTlsHandshake,
         \/ /\ pc = "poll" /\ Polled
            /\ \/ sock.state = "TcpConnecting" /\ conn # "refused"
               \/ sock.state = "TlsHandshake"
         \/ pc = "handshake"
  PROVE  TInv'
<1>1. sock.state \in Connecting /\ pc \in {"poll", "handshake"}
  BY DEF TInv, FdInv, Connecting
<1>2. sock.fd # -1 /\ sock.ctx /\ sock.next > 1
  BY <1>1 DEF TInv, FdInv
<1>3. ~trouble => conn = "up" /\ RefuseBelow(sock.next - 1)
  <2> SUFFICES ASSUME ~trouble PROVE conn = "up" /\ RefuseBelow(sock.next - 1)
    OBVIOUS
  <2>1. RefuseBelow(sock.next - 1)
    BY <1>1 DEF TInv, FirstInv, Connecting
  <2>2. CASE sock.state = "TlsHandshake"
    BY <2>1, <2>2 DEF TInv, FirstInv
  <2>3. CASE sock.state = "TcpConnecting"
    <3>1. pc = "poll" /\ Polled /\ conn # "refused"
      BY <2>3 DEF TInv, FdInv
    <3>2. watched = sock.fd
      BY <2>3, <3>1, SMTT(30) DEF TInv, FirstInv, Connecting
    <3> QED
      BY <2>1, <3>1, <3>2 DEF Polled, SocketReady
  <2> QED
    BY <1>1, <2>2, <2>3 DEF Connecting
<1>4. peers' = peers /\ trouble' = trouble /\ trouble \in BOOLEAN /\ sock \in Sockets
  BY Zenon DEF ContinueTlsHandshake, TInv, TypeInv
<1>5. sock.next - 1 \in 1..Addresses
  BY <1>2, <1>4, AddressesAssumption DEF Sockets
<1>6. CASE /\ conn # "refused"
           /\ \E want \in IF conn = "syn" THEN {"out"} ELSE {"in", "out"} :
                sock' = [[sock EXCEPT !.state = "TlsHandshake", !.ssl = TRUE]
                           EXCEPT !.want = want]
           /\ pc' = "poll"
           /\ UNCHANGED <<table, conn, watched, timer>>
  <2>1. PICK want \in {"in", "out"} :
          sock' = [sock EXCEPT !.state = "TlsHandshake", !.ssl = TRUE, !.want = want]
    <3>1. PICK want \in IF conn = "syn" THEN {"out"} ELSE {"in", "out"} :
            sock' = [[sock EXCEPT !.state = "TlsHandshake", !.ssl = TRUE]
                       EXCEPT !.want = want]
      BY <1>6, Zenon
    <3> QED
      BY <1>4, <3>1, Zenon DEF Sockets
  <2>2. sock' \in Sockets /\ sock'.state = "TlsHandshake" /\ sock'.fd = sock.fd
        /\ sock'.ctx = sock.ctx /\ sock'.next = sock.next
    BY <1>4, <2>1, Zenon DEF Sockets
  <2>3. TypeInv'
    BY <1>4, <1>6, <2>2 DEF TInv, TypeInv
  <2>4. FdInv'
    BY <1>2, <1>4, <1>6, <2>2 DEF TInv, FdInv
  <2>5. FirstInv'
    <3> SUFFICES ASSUME ~trouble PROVE FirstInv'
      BY <1>4 DEF FirstInv
    <3>1. watched = sock.fd
      BY <1>1 DEF TInv, FirstInv
    <3> QED
      BY <1>3, <1>4, <1>6, <2>2, <3>1 DEF FirstInv, RefuseBelow
  <2> QED
    BY <2>3, <2>4, <2>5 DEF TInv
<1>7. CASE /\ peers[sock.next - 1] = "good"
           /\ sock' = [[sock EXCEPT !.state = "TlsHandshake", !.ssl = TRUE]
                         EXCEPT !.state = "Connected", !.want = "in"]
           /\ pc' = "poll"
           /\ watched' = sock.fd /\ timer' = FALSE
           /\ UNCHANGED <<table, conn>>
  <2>1. sock' \in Sockets /\ sock'.state = "Connected" /\ sock'.fd = sock.fd
        /\ sock'.ctx = sock.ctx /\ sock'.next = sock.next
    BY <1>4, <1>7, Zenon DEF Sockets
  <2>2. TypeInv'
    BY <1>4, <1>7, <2>1, Zenon DEF TInv, TypeInv, Sockets
  <2>3. FdInv'
    BY <1>2, <1>4, <1>7, <2>1 DEF TInv, FdInv
  <2>4. FirstInv'
    BY <1>3, <1>4, <1>7, <2>1 DEF FirstInv, RefuseBelow, Connecting
  <2> QED
    BY <2>2, <2>3, <2>4 DEF TInv
<1>8. CASE /\ peers[sock.next - 1] = "badtls" \/ conn = "refused"
           /\ Release("Failed")
  <2>1. TypeInv' /\ FdInv' /\ sock'.state = "Failed" /\ pc' = "poll"
    BY <1>4, <1>8, ReleaseFacts
  <2>2. FirstInv'
    <3> SUFFICES ASSUME ~trouble PROVE FirstInv'
      BY <1>4 DEF FirstInv
    <3>1. peers[sock.next - 1] = "badtls"
      BY <1>3, <1>8
    <3> QED
      BY <1>3, <1>4, <1>5, <2>1, <3>1 DEF FirstInv, RefuseBelow, Connecting
  <2> QED
    BY <2>1, <2>2 DEF TInv
<1> QED
  BY <1>6, <1>7, <1>8, Zenon DEF ContinueTlsHandshake

(* CheckTcpConnected keeps the invariant: the attempt was refused, and its *)
(* descriptor is closed before the next address is tried.                  *)
LEMMA CheckInv ==
  ASSUME TInv, pc = "poll", sock.state = "TcpConnecting", CheckTcpConnected
  PROVE  TInv'
<1>1. sock.fd # -1 /\ sock.ctx /\ peers[sock.next - 1] = "refuses"
  BY DEF TInv, FdInv, Connecting, CheckTcpConnected
<1>2. /\ sock' \in Sockets /\ sock'.fd = -1 /\ sock'.ctx = sock.ctx
      /\ sock'.state = sock.state /\ sock'.next = sock.next /\ sock'.ssl = sock.ssl
      /\ sock.next \in Nat
  BY AddressesAssumption, SMTT(30) DEF TInv, TypeInv, Sockets, CheckTcpConnected
<1>3. TypeInv'
  BY <1>2 DEF TInv, TypeInv, CheckTcpConnected, Released
<1>4. \A f \in 1..MaxFd : table'[f] = "sock" <=> f = sock'.fd
  BY <1>2, AddressesAssumption
     DEF TInv, FdInv, TypeInv, CheckTcpConnected, Released
<1>5. FdInv'
  BY <1>1, <1>2, <1>4 DEF FdInv, CheckTcpConnected
<1>6. FirstInv'
  <2> SUFFICES ASSUME ~trouble PROVE FirstInv'
    BY DEF FirstInv, CheckTcpConnected
  <2>1. RefuseBelow(sock.next - 1)
    BY DEF TInv, FirstInv
  <2>2. \A i \in 1..Addresses : i < sock.next => peers[i] = "refuses"
    BY <1>1, <1>2, <2>1, AddressesAssumption DEF RefuseBelow
  <2> QED
    BY <1>2, <2>2 DEF FirstInv, RefuseBelow, CheckTcpConnected
<1> QED
  BY <1>3, <1>5, <1>6 DEF TInv

(* ContinueConnect keeps the invariant. *)
LEMMA ContinueConnectInv ==
  ASSUME TInv, ContinueConnect
  PROVE  TInv'
<1>1. CASE pc = "poll" /\ sock.state = "TcpConnecting" /\ CheckTcpConnected
  BY <1>1, CheckInv
<1>2. CASE /\ pc = "poll" /\ Polled /\ ContinueTlsHandshake
           /\ \/ sock.state = "TcpConnecting" /\ conn # "refused"
              \/ sock.state = "TlsHandshake"
  BY <1>2, HandshakeInv
<1>3. CASE pc = "handshake" /\ ContinueTlsHandshake
  BY <1>3, HandshakeInv
<1> QED
  BY <1>1, <1>2, <1>3 DEF ContinueConnect

(* The connect timer and Close keep the invariant. *)
LEMMA CloseInv ==
  ASSUME TInv, ConnectTimeout \/ Close
  PROVE  TInv'
<1>1. CASE ConnectTimeout
  <2>1. Release("Closed") /\ peers' = peers /\ trouble'
    BY <1>1 DEF ConnectTimeout
  <2>2. TypeInv' /\ FdInv'
    BY <1>1, <2>1, ReleaseFacts DEF ConnectTimeout
  <2> QED
    BY <2>1, <2>2 DEF TInv, FirstInv
<1>2. CASE Close
  <2>1. PICK state \in {"Failed", "Closed"} :
          Release(state) /\ (state = "Failed" => sock.state = "Failed")
    BY <1>2 DEF Close
  <2>2. peers' = peers /\ trouble' = trouble /\ trouble \in BOOLEAN
    BY <1>2 DEF Close, TInv, TypeInv
  <2>3. TypeInv' /\ FdInv' /\ sock'.state = state /\ pc' = "poll"
    BY <2>1, <2>2, ReleaseFacts
  <2>4. FirstInv'
    BY <2>1, <2>2, <2>3 DEF TInv, FirstInv, RefuseBelow, Connecting
  <2> QED
    BY <2>3, <2>4 DEF TInv
<1> QED
  BY <1>1, <1>2

(* The peer's answers and messages keep the invariant. *)
LEMMA PeerInv ==
  ASSUME TInv, PeerAnswers \/ PeerSends
  PROVE  TInv'
<1>1. /\ UNCHANGED <<peers, sock, table, watched, timer, pc, trouble>>
      /\ \/ conn' = conn
         \/ /\ conn = "syn"
            /\ conn' = IF peers[sock.next - 1] = "refuses" THEN "refused" ELSE "up"
  BY DEF PeerAnswers, PeerSends, owner
<1>2. TypeInv'
  BY <1>1 DEF TInv, TypeInv
<1>3. FdInv'
  BY <1>1 DEF TInv, FdInv
<1>4. FirstInv'
  BY <1>1 DEF TInv, FirstInv, RefuseBelow
<1> QED
  BY <1>2, <1>3, <1>4 DEF TInv

(* Other threads keep the invariant: they take only free numbers and give  *)
(* back only their own.                                                    *)
LEMMA OthersInv ==
  ASSUME TInv, OtherOpens \/ OtherCloses
  PROVE  TInv'
<1>1. UNCHANGED <<peers, sock, conn, watched, timer, pc, trouble>>
  BY DEF OtherOpens, OtherCloses, kernel, owner
<1>2. PICK f \in 1..MaxFd, to \in {"other", "free"} :
        table[f] # "sock" /\ table' = [table EXCEPT ![f] = to]
  <2>1. CASE OtherOpens
    BY <2>1, LowestFreeIsFree, Zenon DEF OtherOpens, TInv
  <2>2. CASE OtherCloses
    BY <2>2, Zenon DEF OtherCloses
  <2> QED
    BY <2>1, <2>2
<1>3. TypeInv'
  BY <1>1, <1>2 DEF TInv, TypeInv
<1>4. \A g \in 1..MaxFd : table'[g] = "sock" <=> g = sock.fd
  BY <1>2 DEF TInv, TypeInv, FdInv
<1>5. FdInv'
  BY <1>1, <1>4 DEF TInv, FdInv
<1>6. FirstInv'
  BY <1>1 DEF TInv, FirstInv, RefuseBelow
<1> QED
  BY <1>3, <1>5, <1>6 DEF TInv

(* Every step of a connect keeps the invariant. *)
LEMMA NextTInv ==
  ASSUME TInv, [Next]_vars
  PROVE  TInv'
<1>1. CASE StartConnect
  BY <1>1, StartConnectInv
<1>2. CASE TryRefused \/ TryNoSocket
  BY <1>2, TryAgainInv
<1>3. CASE \E connected \in BOOLEAN : TryOpened(connected)
  BY <1>3, TryOpenedInv
<1>4. CASE TryFails
  BY <1>4, TryFailsInv
<1>5. CASE ContinueConnect
  BY <1>5, ContinueConnectInv
<1>6. CASE ConnectTimeout \/ Close
  BY <1>6, CloseInv
<1>7. CASE PeerAnswers \/ PeerSends
  BY <1>7, PeerInv
<1>8. CASE OtherOpens \/ OtherCloses
  BY <1>8, OthersInv
<1>9. CASE UNCHANGED vars
  BY <1>9
     DEF TInv, TypeInv, FdInv, FirstInv, RefuseBelow, vars, kernel, owner
<1> QED
  BY <1>1, <1>2, <1>3, <1>4, <1>5, <1>6, <1>7, <1>8, <1>9
     DEF Next, TryNextAddress, Ended

(* What the invariant says of descriptors. *)
LEMMA TInvOwns ==
  ASSUME TInv
  PROVE  OneDescriptor
<1>1. {f \in 1..MaxFd : table[f] = "sock"} = {sock.fd} \ {-1}
  BY AddressesAssumption DEF TInv, TypeInv, Sockets, FdInv
<1>2. sock.state \in {"TcpConnecting", "TlsHandshake", "Connected"} /\ pc # "try"
        => sock.fd # -1 /\ sock.ctx
  BY DEF TInv, TypeInv, FdInv, Connecting, Idle
<1>3. sock.state \in {"Failed", "Closed"}
        => sock.fd = -1 /\ ~sock.ctx /\ ~sock.ssl /\ ~timer /\ watched = -1
  BY DEF TInv, FdInv
<1> QED
  BY <1>1, <1>2, <1>3 DEF OneDescriptor

(* What the invariant says of the fallback. *)
LEMMA TInvDecides ==
  ASSUME TInv
  PROVE  FirstAnswerDecides
<1> DEFINE first == CHOOSE i \in Answering : \A j \in Answering : i <= j
<1>1. ASSUME NEW i \in 1..Addresses, RefuseBelow(i), peers[i] # "refuses"
      PROVE  i \in Answering /\ first = i
  <2>1. i \in Answering /\ \A j \in Answering : i <= j
    BY <1>1, AddressesAssumption DEF Answering, RefuseBelow
  <2>2. \A k \in Answering : (\A j \in Answering : k <= j) => k = i
    BY <2>1, AddressesAssumption DEF Answering
  <2> QED
    BY <2>1, <2>2, Zenon
<1> HIDE DEF first
<1>2. ASSUME sock.state = "Connected", ~trouble
      PROVE  Answering # {} /\ sock.next = first + 1 /\ peers[first] = "good"
  <2>1. peers[sock.next - 1] = "good" /\ RefuseBelow(sock.next - 1)
    BY <1>2 DEF TInv, FirstInv, FdInv, Idle
  <2>2. sock.next \in 1..(Addresses + 1) /\ sock.next > 1
    BY <1>2 DEF TInv, TypeInv, Sockets, FdInv, Idle
  <2>3. sock.next - 1 \in 1..Addresses /\ sock.next = (sock.next - 1) + 1
    BY <2>2, AddressesAssumption
  <2> QED
    BY <1>1, <2>1, <2>3
<1>3. ASSUME sock.state = "Failed", ~trouble
      PROVE  Answering = {} \/ peers[first] # "good"
  <2>1. CASE RefuseBelow(Addresses + 1)
    BY <2>1, AddressesAssumption DEF RefuseBelow, Answering
  <2>2. CASE \E i \in 1..Addresses :
               RefuseBelow(i) /\ peers[i] \notin {"good", "refuses"}
    BY <1>1, <2>2
  <2> QED
    BY <1>3, <2>1, <2>2 DEF TInv, FirstInv
<1> QED
  BY <1>2, <1>3 DEF FirstAnswerDecides, first

----------------------------------------------------------------------------
(* The theorems *)

(* TInv holds in every state: the invariant of connecting, whatever        *)
(* listens at the addresses and whatever other threads open and close.     *)
THEOREM ConnectInvariance == Spec => []TInv
<1>1. Init => TInv
  BY InitTInv
<1>2. TInv /\ [Next]_vars => TInv'
  BY NextTInv
<1> QED
  BY <1>1, <1>2, PTL DEF Spec

(* The socket has exactly the descriptor it refers to, and holds nothing   *)
(* once it has failed or is closed (tls_socket.cc, Fail and Close).        *)
THEOREM DescriptorsAreOwned == Spec => []OneDescriptor
  BY ConnectInvariance, TInvOwns, PTL

(* The first address that answers decides how the connect ends             *)
(* (TryNextAddress, CheckTcpConnected and ContinueTlsHandshake).           *)
THEOREM FallbackIsSound == Spec => []FirstAnswerDecides
  BY ConnectInvariance, TInvDecides, PTL
=============================================================================
