--------------------------- MODULE MCDurableJobs ---------------------------
(***************************************************************************)
(* Small instances of DurableJobs for TLC.                                 *)
(***************************************************************************)
EXTENDS DurableJobs

CONSTANT c1

\* All runs in one conversation.
Together == [r \in Runs |-> c1]
=============================================================================
