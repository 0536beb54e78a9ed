----------------------------- MODULE MCRunQuota -----------------------------
(***************************************************************************)
(* Small instances of RunQuota for TLC: two users of one organization whose *)
(* limits bite at different points.                                        *)
(***************************************************************************)
EXTENDS RunQuota, TLC

CONSTANTS u1, u2, r1, r2, r3, org

\* u1 asks for the first two runs, u2 for the third.
Asker == [r \in Runs |-> IF r = r3 THEN u2 ELSE u1]

\* The organization's budget admits a second reservation once the first run
\* turned out cheap; the concurrency limit that bites is the user's.
Daily == [s \in Scopes |-> IF s = org THEN 3 ELSE 4]
Concurrent == [s \in Scopes |-> IF s = org THEN 2 ELSE 1]
ClientSymmetry == Permutations(Clients)
=============================================================================
