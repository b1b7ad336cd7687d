----------------------------- MODULE GrpcppApi -----------------------------
(***************************************************************************)
(* The three ways into the library: an application makes its calls with    *)
(* the blocking stubs (Shim), with the async stubs on a completion queue   *)
(* (AsyncStubs) or with reactors (CallbackReactor).  They share no state.  *)
(***************************************************************************)
EXTENDS GrpcWire, CallbackReactor, AsyncStubs

CONSTANTS
  Calls, MaxMessage, PrefixSpan    \* see Shim

VARIABLES
  api,   \* which one the application uses
  call, stage, channel, headers, frame, answer, status, received, response

Blocking == INSTANCE Shim

blocking_vars ==
  <<call, stage, channel, headers, frame, answer, status, received, response>>
reactor_vars == vars
api_vars == <<api, blocking_vars, async_vars, reactor_vars>>

(* What is not used stays in one of its initial states. *)
ApiInit ==
  /\ api \in {"blocking", "async", "callback"}
  /\ IF api = "blocking" THEN Blocking!Init
     ELSE call = (CHOOSE c \in Calls[1] : TRUE) /\ Blocking!NotStarted
  /\ AsyncInit /\ (api # "async" => stub = "reader")
  /\ Init /\ (api # "callback" => kind = "unary")

BlockingStep ==
  api = "blocking" /\ Blocking!Next /\ UNCHANGED <<api, async_vars, reactor_vars>>
AsyncStep ==
  api = "async" /\ StubNext /\ UNCHANGED <<api, blocking_vars, reactor_vars>>
CallbackStep ==
  api = "callback" /\ Next /\ UNCHANGED <<api, blocking_vars, async_vars>>

ApiNext == BlockingStep \/ AsyncStep \/ CallbackStep

(* A thread in Next() gets the mutex eventually. *)
ApiSpec ==
  /\ ApiInit /\ [][ApiNext]_api_vars
  /\ \A t \in Waiters : WF_api_vars(AsyncStep /\ NextTag(t))

----------------------------------------------------------------------------
(* The properties of the components, of the composition. *)

(* A blocking call's custom metadata comes back from an echo as it was.    *)
MetadataSurvives == Blocking!MetadataSurvives

(* No metadata makes BuildRequestHeaders repeat a header of the transport. *)
TransportHeadersOnce == Blocking!TransportHeadersOnce

(* grpc-timeout is never earlier than the context's deadline.              *)
DeadlineNotEarly == Blocking!DeadlineNotEarly

(* The status message is what the server meant by grpc-message.            *)
MessageSurvives == Blocking!MessageSurvives

(* The response object holds the server's message, whatever it held.       *)
ResponseIsServers == Blocking!ResponseIsServers

(* FrameMessage's prefix is the length of the message it is put before.    *)
FramePrefixExact == Blocking!FramePrefixExact

(* CreateChannel goes where the target says, or makes a lame channel.      *)
ChannelAsAsked == Blocking!ChannelAsAsked
=============================================================================
