---------------------------- MODULE MCConnections ----------------------------
(***************************************************************************)
(* Small instances of Connections for TLC.                                 *)
(***************************************************************************)
EXTENDS Connections, TLC

Symmetry == Permutations(Refs) \cup Permutations(Requests)
              \cup Permutations(States) \cup Permutations(OrgRows)
=============================================================================
