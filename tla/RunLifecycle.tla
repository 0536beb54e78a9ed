---------------------------- MODULE RunLifecycle ----------------------------
(***************************************************************************)
(* What the platform promises the caller of a durable run, without jobs,   *)
(* leases, workers or retries: a created run is executed at most once, it  *)
(* ends at most once and for good, and it completes only after having been *)
(* executed.                                                               *)
(***************************************************************************)
EXTENDS Naturals

CONSTANT Runs

VARIABLES
  phase,   \* where each run stands
  starts   \* how often its Agent was started

Ended == {"completed", "failed", "cancelled", "timed_out"}

Init == /\ phase = [r \in Runs |-> "absent"]
        /\ starts = [r \in Runs |-> 0]

\* The steps of one run: from phase p and n starts to phase q and m starts.
Create(p, n, q, m) == p = "absent" /\ q = "pending" /\ m = n
Begin(p, n, q, m) == p = "pending" /\ n = 0 /\ q = "executing" /\ m = 1
EndEarly(p, n, q, m) == p = "pending" /\ q \in Ended \ {"completed"} /\ m = n
End(p, n, q, m) == p = "executing" /\ q \in Ended /\ m = n

Moves(p, n, q, m) ==
  \/ q = p /\ m = n
  \/ Create(p, n, q, m)
  \/ Begin(p, n, q, m)
  \/ EndEarly(p, n, q, m)
  \/ End(p, n, q, m)

\* One step may move several runs: recovery handles all lost runs at once.
Next == \A r \in Runs : Moves(phase[r], starts[r], phase'[r], starts'[r])

Spec == Init /\ [][Next]_<<phase, starts>>
=============================================================================
