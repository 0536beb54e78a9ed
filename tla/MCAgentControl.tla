--------------------------- MODULE MCAgentControl ---------------------------
(***************************************************************************)
(* Small instances of AgentControl for TLC.                                *)
(***************************************************************************)
EXTENDS AgentControl, TLC

OneCase == [s \in Suites |-> <<[critical |-> TRUE, denial |-> FALSE,
                                citation |-> FALSE, tools |-> {}]>>]
AllPass == {[num |-> 1, den |-> 1, critical |-> 0]}
RequestSymmetry == Permutations(Requests)
=============================================================================
