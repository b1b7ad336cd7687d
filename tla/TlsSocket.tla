----------------------------- MODULE TlsSocket -----------------------------
(***************************************************************************)
(* Connecting (src/transport/tls_socket.cc) as the channel's event thread  *)
(* drives it: StartConnect, ContinueConnect whenever poll() reports the    *)
(* watched descriptor, the connect timer, and Close.  Addresses that       *)
(* refuse are fallen back from; the first that answers decides.            *)
(*                                                                         *)
(* Descriptors are numbers, as in the kernel: socket() returns the lowest  *)
(* one free, and other threads of the process open and close files         *)
(* between any two system calls of the event thread.                       *)
(***************************************************************************)
EXTENDS Integers, FiniteSets

CONSTANTS
  Addresses,   \* how many addresses the name resolves to
  MaxFd,       \* descriptors are 1..MaxFd
  MaxOpens,    \* bound: files other threads open
  MaxFlights   \* bound: messages of the peer in a handshake

ASSUME AddressesAssumption == Addresses \in Nat /\ MaxFd \in Nat
ASSUME SocketBoundsAssumption == MaxOpens \in Nat /\ MaxFlights \in Nat \ {0}

(* What listens at an address. *)
Kinds == {"good", "refuses", "hangs", "badtls"}

VARIABLES
  peers,    \* what listens at each address
  sock,     \* the TlsSocket
  table,    \* descriptors: "free", "sock" or "other"
  conn,     \* the kernel's connection: "none", "syn", "up", "refused"
  inbox,    \* the peer's next handshake message has arrived
  flights,  \* messages of the peer so far
  watched,  \* the descriptor the loop polls, -1 for none
  timer,    \* the connect timer is armed
  pc,       \* where the event thread is
  opens,    \* files other threads have opened
  trouble   \* StartConnect failed before it tried an address, socket()
            \* failed, the connect timed out, or the loop polls another
            \* number than that of the descriptor

kernel == <<conn, inbox, flights>>
owner == <<watched, timer, pc>>
vars == <<peers, sock, table, kernel, owner, opens, trouble>>

Idle == [state |-> "Idle", fd |-> -1, next |-> 1, ctx |-> FALSE,
         ssl |-> FALSE, want |-> "none"]

Init ==
  /\ peers \in [1..Addresses -> Kinds]
  /\ sock = Idle
  /\ table = [f \in 1..MaxFd |-> "free"]
  /\ conn = "none" /\ inbox = FALSE /\ flights = 0
  /\ watched = -1 /\ timer = FALSE /\ pc = "idle"
  /\ opens = 0 /\ trouble = FALSE

Free == {f \in 1..MaxFd : table[f] = "free"}
LowestFree == CHOOSE f \in Free : \A g \in Free : f <= g

(* The table once the socket's descriptor, if any, is closed. *)
Released == [f \in 1..MaxFd |-> IF f = sock.fd THEN "free" ELSE table[f]]

----------------------------------------------------------------------------
(* The event thread *)

(* Fail or Close, with what the channel does next: the timer is cancelled  *)
(* and the descriptor is no longer watched.                                *)
Release(state) ==
  /\ sock' = [sock EXCEPT !.state = state, !.fd = -1, !.ctx = FALSE,
                          !.ssl = FALSE, !.want = "none"]
  /\ table' = Released
  /\ conn' = "none" /\ inbox' = FALSE /\ UNCHANGED flights
  /\ watched' = -1 /\ timer' = FALSE /\ pc' = "poll"

(* Variant: no timer for the connect. *)
StartConnectUntimed ==
  /\ pc = "idle"
  /\ pc' = "try"
  /\ sock' = [sock EXCEPT !.ctx = TRUE]
  /\ UNCHANGED <<peers, table, kernel, watched, timer, opens, trouble>>

(* StartConnecting sets the timer and calls StartConnect, in which         *)
(* CreateSslContext or getaddrinfo may fail.                               *)
StartConnect ==
  /\ pc = "idle"
  /\ \/ /\ timer' = TRUE /\ pc' = "try"
        /\ sock' = [sock EXCEPT !.ctx = TRUE]
        /\ UNCHANGED <<table, kernel, watched, trouble>>
     \/ Release("Failed") /\ trouble' = TRUE
  /\ UNCHANGED <<peers, opens>>

(* One turn of TryNextAddress: connect() fails at once, ... *)
TryRefused ==
  /\ pc = "try" /\ sock.next <= Addresses /\ Free # {}
  /\ peers[sock.next] = "refuses"
  /\ sock' = [sock EXCEPT !.next = @ + 1]
  /\ UNCHANGED <<peers, table, kernel, owner, opens, trouble>>

(* ... or socket() does, ... *)
TryNoSocket ==
  /\ pc = "try" /\ sock.next <= Addresses /\ Free = {}
  /\ sock' = [sock EXCEPT !.next = @ + 1]
  /\ trouble' = TRUE
  /\ UNCHANGED <<peers, table, kernel, owner, opens>>

(* ... or the attempt is under way or even successful.  StartConnect's     *)
(* caller then has the descriptor watched; CheckTcpConnected's does not    *)
(* (the one of the first attempt still is), and goes on to the handshake   *)
(* if it can.                                                              *)
TryOpened(connected) ==
  /\ pc = "try" /\ sock.next <= Addresses /\ Free # {}
  /\ connected => peers[sock.next] # "refuses"
  /\ sock' = [sock EXCEPT !.fd = LowestFree, !.next = @ + 1, !.want = "out",
                 !.state = IF connected THEN "TlsHandshake" ELSE "TcpConnecting"]
  /\ table' = [table EXCEPT ![LowestFree] = "sock"]
  /\ conn' = IF connected THEN "up" ELSE "syn"
  /\ watched' = IF watched = -1 THEN LowestFree ELSE watched
  /\ pc' = IF watched # -1 /\ connected THEN "handshake" ELSE "poll"
  /\ trouble' = (trouble \/ watched \notin {-1, LowestFree})
  /\ UNCHANGED <<peers, inbox, flights, timer, opens>>

(* No address is left. *)
TryFails ==
  /\ pc = "try" /\ sock.next > Addresses
  /\ Release("Failed")
  /\ UNCHANGED <<peers, opens, trouble>>

(* ContinueTlsHandshake.  Until the peer has sent its last message it      *)
(* wants to read, or to write first; then it is done, or fails.  It also   *)
(* fails if the connection it was started on too early is refused.         *)
ContinueTlsHandshake ==
  LET s == [sock EXCEPT !.state = "TlsHandshake", !.ssl = TRUE]
      at == peers[sock.next - 1]
  IN
  /\ \/ /\ conn # "refused"
        /\ inbox => flights < MaxFlights
        /\ \E want \in IF conn = "syn" THEN {"out"} ELSE {"in", "out"} :
             sock' = [s EXCEPT !.want = want]
        /\ inbox' = FALSE /\ pc' = "poll"
        /\ UNCHANGED <<table, conn, flights, watched, timer>>
     \/ /\ inbox /\ at = "good"
        /\ sock' = [s EXCEPT !.state = "Connected", !.want = "in"]
        /\ inbox' = FALSE /\ pc' = "poll"
        /\ watched' = sock.fd /\ timer' = FALSE
        /\ UNCHANGED <<table, conn, flights>>
     \/ /\ (inbox /\ at = "badtls") \/ conn = "refused"
        /\ Release("Failed")
  /\ UNCHANGED <<peers, opens, trouble>>

(* Variant: the next address is tried without closing the descriptor. *)
CheckTcpConnectedLeaks ==
  /\ conn = "refused"
  /\ sock' = [sock EXCEPT !.fd = -1]
  /\ conn' = "none" /\ pc' = "try"
  /\ UNCHANGED <<peers, table, inbox, flights, watched, timer, opens, trouble>>

(* Variant: a refused attempt ends the connect. *)
CheckTcpConnectedGivesUp ==
  /\ conn = "refused"
  /\ Release("Failed")
  /\ UNCHANGED <<peers, opens, trouble>>

(* CheckTcpConnected, when SO_ERROR says the attempt has failed. *)
CheckTcpConnected ==
  /\ conn = "refused"
  /\ sock' = [sock EXCEPT !.fd = -1]
  /\ table' = Released
  /\ conn' = "none" /\ pc' = "try"
  /\ UNCHANGED <<peers, inbox, flights, watched, timer, opens, trouble>>

(* Variant: poll() is never asked for input. *)
SocketReadyNoInput ==
  \/ conn = "refused"
  \/ conn = "up" /\ sock.want = "out"

(* What poll() would report of the socket. *)
SocketReady ==
  \/ conn = "refused"
  \/ conn = "up" /\ (sock.want = "out" \/ inbox)

(* Another file, and a number that is not open (POLLNVAL), may be reported *)
(* at any time.                                                            *)
Polled == watched # -1 /\ (watched = sock.fd => SocketReady)

ContinueConnect ==
  \/ /\ pc = "poll" /\ Polled
     /\ \/ sock.state = "TcpConnecting" /\ CheckTcpConnected
        \/ /\ \/ sock.state = "TcpConnecting" /\ conn # "refused"
              \/ sock.state = "TlsHandshake"
           /\ ContinueTlsHandshake
  \/ pc = "handshake" /\ ContinueTlsHandshake

(* The connect timer. *)
ConnectTimeout ==
  /\ pc = "poll" /\ timer
  /\ Release("Closed")
  /\ trouble' = TRUE
  /\ UNCHANGED <<peers, opens>>

(* Close, on shutdown or when the session fails. *)
Close ==
  /\ pc = "poll" /\ sock.state # "Closed"
  /\ Release(IF sock.state = "Failed" THEN "Failed" ELSE "Closed")
  /\ UNCHANGED <<peers, opens, trouble>>

----------------------------------------------------------------------------
(* The environment *)

PeerAnswers ==
  /\ conn = "syn"
  /\ conn' = IF peers[sock.next - 1] = "refuses" THEN "refused" ELSE "up"
  /\ UNCHANGED <<peers, sock, table, inbox, flights, owner, opens, trouble>>

PeerSends ==
  /\ conn = "up" /\ sock.ssl /\ sock.state = "TlsHandshake" /\ ~inbox
  /\ peers[sock.next - 1] \in {"good", "badtls"}
  /\ flights < MaxFlights
  /\ inbox' = TRUE /\ flights' = flights + 1
  /\ UNCHANGED <<peers, sock, table, conn, owner, opens, trouble>>

OtherOpens ==
  /\ Free # {} /\ opens < MaxOpens
  /\ table' = [table EXCEPT ![LowestFree] = "other"]
  /\ opens' = opens + 1
  /\ UNCHANGED <<peers, sock, kernel, owner, trouble>>

OtherCloses ==
  /\ \E f \in 1..MaxFd :
       table[f] = "other" /\ table' = [table EXCEPT ![f] = "free"]
  /\ UNCHANGED <<peers, sock, kernel, owner, opens, trouble>>

Ended ==
  /\ pc = "poll" /\ sock.state \in {"Failed", "Closed"}
  /\ UNCHANGED vars

TryNextAddress ==
  \/ TryRefused
  \/ TryNoSocket
  \/ \E connected \in BOOLEAN : TryOpened(connected)
  \/ TryFails

Next ==
  \/ StartConnect
  \/ TryNextAddress
  \/ ContinueConnect
  \/ ConnectTimeout
  \/ Close
  \/ PeerAnswers
  \/ PeerSends
  \/ OtherOpens
  \/ OtherCloses
  \/ Ended

Spec == Init /\ [][Next]_vars

(* The event thread goes on with a handler it is in. *)
FairSpec ==
  Spec /\ WF_vars(TryNextAddress) /\ WF_vars(pc = "handshake" /\ ContinueConnect)

(* The event thread runs timers. *)
Timely == WF_vars(ConnectTimeout)

(* The network and the peer answer, and the loop serves a descriptor that  *)
(* poll() reports; the timer need not be over by then.                     *)
Patient ==
  WF_vars(ContinueConnect) /\ WF_vars(PeerAnswers) /\ WF_vars(PeerSends)

----------------------------------------------------------------------------

(* The socket has the descriptor it refers to and no other: every one that *)
(* an attempt opened is closed again, once, and never one that has since   *)
(* become another thread's file.  In the end nothing is held or armed.     *)
OneDescriptor ==
  /\ {f \in 1..MaxFd : table[f] = "sock"} = {sock.fd} \ {-1}
  /\ sock.state \in {"TcpConnecting", "TlsHandshake", "Connected"} /\ pc # "try"
       => sock.fd # -1 /\ sock.ctx
  /\ sock.state \in {"Failed", "Closed"}
       => sock.fd = -1 /\ ~sock.ctx /\ ~sock.ssl /\ ~timer /\ watched = -1

Answering == {i \in 1..Addresses : peers[i] # "refuses"}

(* Fallback: the first address that does not refuse decides.  A connected  *)
(* socket talks to it, and if it is good only trouble of our own (setup,   *)
(* no descriptors, the timer, a wrong number polled) makes the connect     *)
(* fail.                                                                   *)
FirstAnswerDecides ==
  LET first == CHOOSE i \in Answering : \A j \in Answering : i <= j IN
  /\ sock.state = "Connected" /\ ~trouble
       => Answering # {} /\ sock.next = first + 1 /\ peers[first] = "good"
  /\ sock.state = "Failed" /\ ~trouble
       => Answering = {} \/ peers[first] # "good"

(* Connecting comes to an end, whatever the peer does, and even if the     *)
(* loop should be polling the wrong descriptor: the timer sees to it.      *)
ConnectEnds ==
  Timely => (pc = "try" ~> sock.state \in {"Connected", "Failed", "Closed"})

(* tls_socket.h:5-7: "the owner polls fd() for DesiredPollEvents() and     *)
(* calls ContinueConnect() until the state leaves the connecting phases".  *)
OwnerPollsFd ==
  pc = "poll" /\ sock.state \in {"TcpConnecting", "TlsHandshake"}
    => watched = sock.fd

(* tls_socket.h:68-69: "remaining addresses are fallbacks tried on connect *)
(* failure".  If the first address that answers is good, the socket gets   *)
(* connected to it, without the timer having to interfere, unless it is    *)
(* closed or runs into trouble of its own.                                 *)
GoodAddressConnects ==
  Patient =>
    ((\E i \in Answering :
        peers[i] = "good" /\ \A j \in Answering : i <= j) /\ pc = "try"
       ~> sock.state \in {"Connected", "Closed"} \/ trouble)
=============================================================================
