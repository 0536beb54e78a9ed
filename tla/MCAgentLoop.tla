----------------------------- MODULE MCAgentLoop ----------------------------
EXTENDS AgentLoop

\* Every conversation of up to three messages of sizes 1 to 4.
HistoriesSmall == UNION {[1..n -> 1..4] : n \in 1..3}

\* More than any request is estimated or allowed to use.
ReportsSmall == [input : 0..8, output : 0..4]
=============================================================================
