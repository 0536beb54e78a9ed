-------------------------- MODULE MCEvaluationRuns --------------------------
(***************************************************************************)
(* Small instances of EvaluationRuns for TLC.                              *)
(***************************************************************************)
EXTENDS EvaluationRuns

CONSTANTS t1, s1

\* One case must use a tool and cite, the other is critical and must be denied.
Cite == [critical |-> FALSE, denial |-> FALSE, citation |-> TRUE, tools |-> {t1}]
Deny == [critical |-> TRUE, denial |-> TRUE, citation |-> FALSE, tools |-> {}]
MCCases == [s \in Suites |-> IF s = s1 THEN <<Cite, Deny>> ELSE <<Deny>>]

\* Half of the cases and no critical failure.
OneThreshold == {[num |-> 1, den |-> 2, critical |-> 0]}
=============================================================================
