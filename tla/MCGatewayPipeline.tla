-------------------------- MODULE MCGatewayPipeline --------------------------
(***************************************************************************)
(* Small instances of GatewayPipeline: two requests to any endpoint, and   *)
(* targets that accept or refuse.                                          *)
(***************************************************************************)
EXTENDS GatewayPipeline
=============================================================================
