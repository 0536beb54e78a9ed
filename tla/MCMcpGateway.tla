---------------------------- MODULE MCMcpGateway ----------------------------
(***************************************************************************)
(* The instance of McpGateway for TLC: its cfg gives every constant, and    *)
(* the liveness property rules symmetry out.                               *)
(***************************************************************************)
EXTENDS McpGateway
=============================================================================
