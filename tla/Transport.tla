----------------------------- MODULE Transport -----------------------------
(***************************************************************************)
(* The event thread and its connection: connecting (TlsSocket), then the   *)
(* session's input and output (SessionIo) on the connected socket, and its *)
(* close.                                                                  *)
(***************************************************************************)
EXTENDS TlsSocket

CONSTANTS Streams, BodyLength, RecordMax, Room, Window, MaxPings  \* see SessionIo

ASSUME OctetsAssumption ==
  {BodyLength, RecordMax, Room} \subseteq Nat \ {0} /\ Window \in Nat

VARIABLES
  phase,   \* "connect" or "session"
  control, heads, offset, window, out, consumed, record, unsent, filled, inbound,
  step, produced, wire, pings

Io == INSTANCE SessionIo

session_vars == <<control, heads, offset, window, out, consumed, record, unsent, filled,
                  inbound, step, produced, wire, pings>>
transport_vars == <<phase, vars, session_vars>>

TransportInit == phase = "connect" /\ Init /\ Io!IoInit

ConnectStep == phase = "connect" /\ Next /\ UNCHANGED <<phase, session_vars>>

(* OnConnectProgress goes on to StartSession.  Of the connect only the     *)
(* socket matters from here on: the addresses that refused, the files of   *)
(* other threads and the number of the descriptor are forgotten.           *)
StartSession ==
  /\ phase = "connect" /\ sock.state = "Connected" /\ phase' = "session"
  /\ peers' = [i \in 1..Addresses |-> "good"]
  /\ sock' = [sock EXCEPT !.fd = 1, !.next = 2]
  /\ table' = [f \in 1..MaxFd |-> IF f = 1 THEN "sock" ELSE "free"]
  /\ watched' = 1 /\ flights' = 0 /\ opens' = 0 /\ trouble' = FALSE
  /\ UNCHANGED <<conn, inbox, timer, pc, session_vars>>

InSession(step_of_session) ==
  /\ phase = "session" /\ step_of_session /\ UNCHANGED <<phase, vars>>

(* TearDown and DoShutdown close the socket when the session is over. *)
EndSession ==
  /\ phase = "session" /\ step = "closed" /\ Close
  /\ UNCHANGED <<phase, session_vars>>

TransportNext == ConnectStep \/ StartSession \/ InSession(Io!IoNext) \/ EndSession

(* The event thread goes on with what it is in, and poll() reports what    *)
(* there is; the session's peer takes octets and grants more.              *)
TransportSpec ==
  /\ TransportInit /\ [][TransportNext]_transport_vars
  /\ WF_vars(TryNextAddress) /\ WF_vars(pc = "handshake" /\ ContinueConnect)
  /\ WF_transport_vars(InSession(Io!EventThread))
  /\ WF_transport_vars(InSession(Io!PeerReads))
  /\ SF_transport_vars(InSession(Io!PeerSends("window update")))

(* Octets go out as nghttp2 produced them, through repeated writes.        *)
WireInOrder == Io!WireInOrder

(* A request that was submitted goes out whole if the peer lets it.        *)
RequestsSent == Io!RequestsSent
=============================================================================
