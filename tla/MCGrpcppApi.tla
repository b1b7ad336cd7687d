---------------------------- MODULE MCGrpcppApi ----------------------------
(***************************************************************************)
(* Instance of GrpcppApi, with the calls of MCShim.                        *)
(***************************************************************************)
EXTENDS GrpcppApi

MC == INSTANCE MCShim
MCUnits == MC!MCUnits
MCCalls == MC!MCCalls
=============================================================================
