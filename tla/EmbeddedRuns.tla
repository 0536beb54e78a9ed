---------------------------- MODULE EmbeddedRuns ----------------------------
(***************************************************************************)
(* Runs in embedded execution mode.  The API process that accepts a        *)
(* message commits a queued run and submits it to its own RunExecutor; an  *)
(* asyncio task claims the run, executes the Agent, commits the outcome    *)
(* and publishes events.  Processes crash, drain and start again; a        *)
(* process that starts fails stale running runs and submits the queued     *)
(* ones, also those that another live process holds.                       *)
(*                                                                         *)
(* One action is one transaction or one publication, with the code up to   *)
(* the next point where another process can interfere.  The runs are       *)
(* independent of each other: waiting for a permit of the semaphore is the *)
(* time a submitted task stays submitted.  Quotas are in RunQuota.         *)
(***************************************************************************)
EXTENDS Naturals, Sequences, FiniteSets

CONSTANTS
  Runs,
  Processes,  \* API processes with a RunExecutor
  LogLength,  \* maxlen of the event stream of a run
  MaxDeltas,  \* bound on message.delta events of a run
  MaxFaults   \* bound on failed publications and failed transactions

ASSUME EmbeddedAssumption ==
  /\ Processes # {}
  /\ LogLength \in Nat \ {0}
  /\ MaxDeltas \in Nat
  /\ MaxFaults \in Nat

VARIABLES
  status,   \* Run.status, "absent" before the row exists; "overdue" is running
            \* with started_at older than stale_run_after_seconds
  cancel,   \* cancellation: "no", "asked" (cancellation_requested_at is set),
            \* "signalled" (the run-cancel key was set in Redis too)
  log,      \* every event published for the run, in order
  gone,     \* how many of the oldest ones Redis has dropped
  handler,  \* handler[r]: create_message_run for r, with its process
  up,       \* up[p]: "up", "closing" or "down"
  task,     \* task[p][r]: the asyncio task of p for r
  faults,   \* faults so far
  claims    \* history: how often r was claimed

serverVars == <<status, cancel, log, gone, handler, up, task, faults, claims>>

TERMINAL_RUN_STATUSES == {"completed", "failed", "cancelled", "timed_out"}
Running == {"running", "overdue"}
Active == {"queued"} \cup Running
RunStatus == {"absent"} \cup Active \cup TERMINAL_RUN_STATUSES

\* message.delta and the terminal events, named by the status they report.  The
\* other events (queued, started, tools, citations, cancellation) only change a
\* label of the page and are left out.
RunEvents == {"delta"} \cup TERMINAL_RUN_STATUSES

NoTask == [pc |-> "none", out |-> "completed"]
NoHandler == [pc |-> "none", at |-> CHOOSE p \in Processes : TRUE]

\* In the body of the try statement of _execute; "failing" and "telling" are in
\* its exception handlers.
InTry == {"claimed", "model", "completing", "announcing"}
TaskStates == {"none", "submitted", "claiming", "failing", "telling"} \cup InTry

Task == [pc : TaskStates, out : TERMINAL_RUN_STATUSES]
Handler == [pc : {"none", "created", "rejecting", "telling"}, at : Processes]

TypeOK ==
  /\ status \in [Runs -> RunStatus]
  /\ cancel \in [Runs -> {"no", "asked", "signalled"}]
  /\ log \in [Runs -> Seq(RunEvents)]
  /\ gone \in [Runs -> Nat]
  /\ \A r \in Runs : gone[r] <= Len(log[r])
  /\ handler \in [Runs -> Handler]
  /\ up \in [Processes -> {"up", "closing", "down"}]
  /\ task \in [Processes -> [Runs -> Task]]
  /\ faults \in 0..MaxFaults
  /\ claims \in [Runs -> Nat]

Init ==
  /\ status = [r \in Runs |-> "absent"]
  /\ cancel = [r \in Runs |-> "no"]
  /\ log = [r \in Runs |-> <<>>]
  /\ gone = [r \in Runs |-> 0]
  /\ handler = [r \in Runs |-> NoHandler]
  /\ up = [p \in Processes |-> "up"]
  /\ task = [p \in Processes |-> [r \in Runs |-> NoTask]]
  /\ faults = 0
  /\ claims = [r \in Runs |-> 0]

-----------------------------------------------------------------------------
(* Events *)

\* XADD with an approximate MAXLEN: Redis may drop the entries beyond it.
Add(r, event) ==
  /\ log' = [log EXCEPT ![r] = Append(@, event)]
  /\ \/ UNCHANGED gone
     \/ /\ Len(log[r]) + 1 > gone[r] + LogLength
        /\ gone' = [gone EXCEPT ![r] = Len(log[r]) + 1 - LogLength]

\* _publish_event: a failure is logged and forgotten.
Publish(r, event) ==
  \/ Add(r, event) /\ UNCHANGED faults
  \/ faults < MaxFaults /\ faults' = faults + 1 /\ UNCHANGED <<log, gone>>

\* The stream expires a day after the last publication.
Expire(r) ==
  /\ handler[r] = NoHandler
  /\ \A p \in Processes : task[p][r] = NoTask
  /\ gone[r] < Len(log[r])
  /\ gone' = [gone EXCEPT ![r] = Len(log[r])]
  /\ UNCHANGED <<status, cancel, log, handler, up, task, faults, claims>>

-----------------------------------------------------------------------------
(* create_message_run *)

Goto(p, r, pc) == task' = [task EXCEPT ![p][r].pc = pc]
EndTask(p, r) == task' = [task EXCEPT ![p][r] = NoTask]

\* The executor of p accepts runs.
CreateRun(p, r) ==
  /\ up[p] = "up"
  /\ status[r] = "absent"
  /\ status' = [status EXCEPT ![r] = "queued"]
  /\ handler' = [handler EXCEPT ![r] = [pc |-> "created", at |-> p]]
  /\ UNCHANGED <<cancel, log, gone, up, task, faults, claims>>

\* submit(): one task for each run.
SubmitTask(p, r) ==
  IF task[p][r] = NoTask THEN Goto(p, r, "submitted") ELSE UNCHANGED task

\* After run.queued the run is submitted, or rejected when the executor was
\* closed in the meantime.
Submit(p, r) ==
  /\ handler[r] = [pc |-> "created", at |-> p]
  /\ IF up[p] = "up"
       THEN /\ SubmitTask(p, r)
            /\ handler' = [handler EXCEPT ![r] = NoHandler]
       ELSE /\ handler' = [handler EXCEPT ![r].pc = "rejecting"]
            /\ UNCHANGED task
  /\ UNCHANGED <<status, cancel, log, gone, up, faults, claims>>

\* reject_submission: finish_run_with_error, and the event if that ended it.
RejectSubmission(p, r) ==
  /\ handler[r] = [pc |-> "rejecting", at |-> p]
  /\ IF status[r] \in TERMINAL_RUN_STATUSES
       THEN /\ handler' = [handler EXCEPT ![r] = NoHandler]
            /\ UNCHANGED status
       ELSE /\ status' = [status EXCEPT ![r] = "failed"]
            /\ handler' = [handler EXCEPT ![r].pc = "telling"]
  /\ UNCHANGED <<cancel, log, gone, up, task, faults, claims>>

\* A database error leaves the rejected run queued.
RejectFails(p, r) ==
  /\ handler[r] = [pc |-> "rejecting", at |-> p]
  /\ faults < MaxFaults
  /\ faults' = faults + 1
  /\ handler' = [handler EXCEPT ![r] = NoHandler]
  /\ UNCHANGED <<status, cancel, log, gone, up, task, claims>>

TellRejection(p, r) ==
  /\ handler[r] = [pc |-> "telling", at |-> p]
  /\ Publish(r, "failed")
  /\ handler' = [handler EXCEPT ![r] = NoHandler]
  /\ UNCHANGED <<status, cancel, up, task, claims>>

-----------------------------------------------------------------------------
(* cancel_run *)

RequestCancel(r) ==
  /\ status[r] \in Active
  /\ cancel[r] = "no"
  /\ cancel' = [cancel EXCEPT ![r] = "asked"]
  /\ UNCHANGED <<status, log, gone, handler, up, task, faults, claims>>

\* The key in Redis; a request that dies first never sets it.
SignalCancel(r) ==
  /\ cancel[r] = "asked"
  /\ cancel' = [cancel EXCEPT ![r] = "signalled"]
  /\ UNCHANGED <<status, log, gone, handler, up, task, faults, claims>>

-----------------------------------------------------------------------------
(* The task of a run *)

\* The task runs for the first time and gets a permit.
Execute(p, r) ==
  /\ task[p][r].pc = "submitted"
  /\ Goto(p, r, "claiming")
  /\ UNCHANGED <<status, cancel, log, gone, handler, up, faults, claims>>

\* execute() finds the executor closed: the run stays queued.
ExecuteClosed(p, r) ==
  /\ task[p][r].pc = "submitted"
  /\ up[p] = "closing"
  /\ EndTask(p, r)
  /\ UNCHANGED <<status, cancel, log, gone, handler, up, faults, claims>>

Claim(p, r) ==
  /\ status' = [status EXCEPT ![r] = "running"]
  /\ claims' = [claims EXCEPT ![r] = @ + 1]
  /\ Goto(p, r, "claimed")

\* Variant with a bug: a run that another process claimed is claimed as well.
ClaimRunAgain(p, r) ==
  /\ task[p][r].pc = "claiming"
  /\ IF status[r] \in Active
       THEN Claim(p, r)
       ELSE EndTask(p, r) /\ UNCHANGED <<status, claims>>
  /\ UNCHANGED <<cancel, log, gone, handler, up, faults>>

\* claim_run: only a queued run is claimed, in one transaction.
ClaimRun(p, r) ==
  /\ task[p][r].pc = "claiming"
  /\ IF status[r] = "queued"
       THEN Claim(p, r)
       ELSE EndTask(p, r) /\ UNCHANGED <<status, claims>>
  /\ UNCHANGED <<cancel, log, gone, handler, up, faults>>

\* A database error in claim_run ends the task and leaves the run queued.
ClaimFails(p, r) ==
  /\ task[p][r].pc = "claiming"
  /\ faults < MaxFaults
  /\ faults' = faults + 1
  /\ EndTask(p, r)
  /\ UNCHANGED <<status, cancel, log, gone, handler, up, claims>>

Fail(p, r, s) == task' = [task EXCEPT ![p][r] = [pc |-> "failing", out |-> s]]

\* _is_cancel_requested falls back on the database.
IsCancelRequested(r) == cancel[r] # "no"

\* The configuration of the Agent is loaded (it may be refused) and the
\* cancellation tested before the model is asked.
Prepare(p, r) ==
  /\ task[p][r].pc = "claimed"
  /\ \/ IF IsCancelRequested(r) THEN Fail(p, r, "cancelled") ELSE Goto(p, r, "model")
     \/ Fail(p, r, "failed")
  /\ UNCHANGED <<status, cancel, log, gone, handler, up, faults, claims>>

Deltas(r) == Cardinality({i \in DOMAIN log[r] : log[r][i] = "delta"})

\* on_delta looks only at the key, which expires after 300 seconds.
OnDelta(p, r) ==
  /\ task[p][r].pc = "model"
  /\ \/ /\ cancel[r] = "signalled"
        /\ Fail(p, r, "cancelled")
        /\ UNCHANGED <<log, gone, faults>>
     \/ /\ Deltas(r) < MaxDeltas
        /\ Publish(r, "delta")
        /\ UNCHANGED task
  /\ UNCHANGED <<status, cancel, handler, up, claims>>

\* The Agent answers, fails or runs out of time; an answer is dropped when the
\* run was cancelled, or breaks a limit or the citation policy.
AgentRun(p, r) ==
  /\ task[p][r].pc = "model"
  /\ \/ IF IsCancelRequested(r)
          THEN Fail(p, r, "cancelled")
          ELSE Goto(p, r, "completing")
     \/ \E s \in {"failed", "timed_out"} : Fail(p, r, s)
  /\ UNCHANGED <<status, cancel, log, gone, handler, up, faults, claims>>

\* complete_run stores the answer of a run that is still running.
CompleteRun(p, r) ==
  /\ task[p][r].pc = "completing"
  /\ IF status[r] \in Running
       THEN /\ status' = [status EXCEPT ![r] = "completed"]
            /\ task' = [task EXCEPT ![p][r] = [pc |-> "announcing", out |-> "completed"]]
       ELSE EndTask(p, r) /\ UNCHANGED status
  /\ UNCHANGED <<cancel, log, gone, handler, up, faults, claims>>

\* Variant with a bug: the outcome is reported by a task that did not decide it.
FinishErrorAlways(p, r) ==
  /\ task[p][r].pc = "failing"
  /\ status' = [status EXCEPT ![r] =
       IF @ \in TERMINAL_RUN_STATUSES THEN @ ELSE task[p][r].out]
  /\ Goto(p, r, "telling")
  /\ UNCHANGED <<cancel, log, gone, handler, up, faults, claims>>

\* _finish_error: only the one that ended the run reports it.
FinishError(p, r) ==
  /\ task[p][r].pc = "failing"
  /\ IF status[r] \in TERMINAL_RUN_STATUSES
       THEN EndTask(p, r) /\ UNCHANGED status
       ELSE /\ status' = [status EXCEPT ![r] = task[p][r].out]
            /\ Goto(p, r, "telling")
  /\ UNCHANGED <<cancel, log, gone, handler, up, faults, claims>>

\* A database error while the failure is stored leaves the run running.
FinishFails(p, r) ==
  /\ task[p][r].pc = "failing"
  /\ faults < MaxFaults
  /\ faults' = faults + 1
  /\ EndTask(p, r)
  /\ UNCHANGED <<status, cancel, log, gone, handler, up, claims>>

\* The terminal event is the last one of the task.
TellOutcome(p, r) ==
  /\ task[p][r].pc \in {"announcing", "telling"}
  /\ Publish(r, task[p][r].out)
  /\ EndTask(p, r)
  /\ UNCHANGED <<status, cancel, handler, up, claims>>

-----------------------------------------------------------------------------
(* Processes *)

\* close(): no run is accepted any more and the tasks get a grace period.
Close(p) ==
  /\ up[p] = "up"
  /\ up' = [up EXCEPT ![p] = "closing"]
  /\ UNCHANGED <<status, cancel, log, gone, handler, task, faults, claims>>

\* Then every task is cancelled.  In the try body the run is marked as failed,
\* without an event; in another handler nothing marks it; during the claim the
\* transaction may still commit.
CancelTask(p, r) ==
  /\ up[p] = "closing"
  /\ task[p][r] # NoTask
  /\ EndTask(p, r)
  /\ \/ /\ task[p][r].pc \in InTry
        /\ status' = [status EXCEPT ![r] =
             IF @ \in TERMINAL_RUN_STATUSES THEN @ ELSE "failed"]
        /\ UNCHANGED claims
     \/ /\ task[p][r].pc \notin InTry
        /\ UNCHANGED <<status, claims>>
     \/ /\ task[p][r].pc = "claiming" /\ status[r] = "queued"
        /\ status' = [status EXCEPT ![r] = "running"]
        /\ claims' = [claims EXCEPT ![r] = @ + 1]
  /\ UNCHANGED <<cancel, log, gone, handler, up, faults>>

\* The process of p is gone, with its tasks and its requests.
Exit(p) ==
  /\ up' = [up EXCEPT ![p] = "down"]
  /\ task' = [task EXCEPT ![p] = [r \in Runs |-> NoTask]]
  /\ handler' = [r \in Runs |-> IF handler[r].at = p THEN NoHandler ELSE handler[r]]
  /\ UNCHANGED <<status, cancel, log, gone, faults, claims>>

\* A drained process exits, or any process dies.
Crash(p) == up[p] # "down" /\ Exit(p)

\* stale_run_after_seconds have passed since the claim, whether or not the task
\* that claimed the run is alive.
Age(r) ==
  /\ status[r] = "running"
  /\ status' = [status EXCEPT ![r] = "overdue"]
  /\ UNCHANGED <<cancel, log, gone, handler, up, task, faults, claims>>

\* recover_incomplete_runs: runs that became stale have failed.
Recovered == [r \in Runs |-> IF status[r] = "overdue" THEN "failed" ELSE status[r]]

\* Variant with a bug: queued runs are not submitted again.
StartWithoutQueued(p) ==
  /\ up[p] = "down"
  /\ up' = [up EXCEPT ![p] = "up"]
  /\ status' = Recovered
  /\ UNCHANGED <<cancel, log, gone, handler, task, faults, claims>>

\* start(): recovery, then the submission of the queued runs.
Start(p) ==
  /\ up[p] = "down"
  /\ up' = [up EXCEPT ![p] = "up"]
  /\ status' = Recovered
  /\ task' = [task EXCEPT ![p] = [r \in Runs |->
       IF status[r] = "queued" THEN [NoTask EXCEPT !.pc = "submitted"] ELSE NoTask]]
  /\ UNCHANGED <<cancel, log, gone, handler, faults, claims>>

-----------------------------------------------------------------------------

\* What a live task does next, without faults.
TaskStep(p, r) ==
  \/ Prepare(p, r) \/ AgentRun(p, r) \/ CompleteRun(p, r)
  \/ FinishError(p, r) \/ TellOutcome(p, r)

HandlerStep(p, r) ==
  Submit(p, r) \/ RejectSubmission(p, r) \/ TellRejection(p, r)

ServerNext ==
  \/ \E r \in Runs : RequestCancel(r) \/ SignalCancel(r) \/ Age(r) \/ Expire(r)
  \/ \E p \in Processes, r \in Runs :
       \/ CreateRun(p, r) \/ HandlerStep(p, r) \/ RejectFails(p, r)
       \/ Execute(p, r) \/ ExecuteClosed(p, r) \/ ClaimRun(p, r) \/ ClaimFails(p, r)
       \/ TaskStep(p, r) \/ OnDelta(p, r) \/ FinishFails(p, r) \/ CancelTask(p, r)
  \/ \E p \in Processes : Close(p) \/ Crash(p) \/ Start(p)
=============================================================================
