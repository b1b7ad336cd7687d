---------------------------- MODULE MCCallState ----------------------------
(* Flags and lengths of each kind (0 valid, 1 compressed, 2 malformed; 2   *)
(* bytes too large), and bodies long enough for two messages with payload, *)
(* or three without and a partial one.                                     *)
EXTENDS CallState

MCBytes == 0..2
MCHttpStatuses == {200, 503}
MCGrpcStatuses == {"Ok", "NotFound", "malformed", "above 16"}
MCErrorCodes == {"NO_ERROR", "REFUSED_STREAM", "CANCEL", "PROTOCOL_ERROR"}
=============================================================================
