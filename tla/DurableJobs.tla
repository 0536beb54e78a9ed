---------------------------- MODULE DurableJobs ----------------------------
(***************************************************************************)
(* Durable execution of Agent Runs in external-worker mode: the rows of    *)
(* `runs', `run_jobs' and `run_job_attempts', the RunJobService and        *)
(* ConversationService transactions that change them, the worker tasks     *)
(* that execute leased jobs, the cancellation handler of the API and its   *)
(* Redis flag, lease expiry, worker crashes and graceful shutdown.         *)
(*                                                                         *)
(* One action is one database transaction (they lock the job row, then the *)
(* run row) or one call of a worker task whose outcome matters.  A         *)
(* transaction that raises commits nothing; one whose reply is lost is the *)
(* committed transaction followed by Crash.                                *)
(***************************************************************************)
EXTENDS Integers, FiniteSets

CONSTANTS
  Runs,            \* run ids; each run has exactly one job (unique run_id)
  Workers,         \* worker tasks; a process of concurrency n is n of them
  Conversations,   \* conversation ids
  ConversationOf,  \* the conversation of each run
  MaxAttempts,     \* RunJob.max_attempts
  LeaseTicks,      \* lease_seconds, in ticks of the model's clock
  MaxYields,       \* bound: how often the capacity check may refuse one job
  Survivor         \* the worker that is always started again

ASSUME ConstantsAssumption ==
  /\ ConversationOf \in [Runs -> Conversations]
  /\ MaxAttempts \in Nat \ {0}
  /\ LeaseTicks \in Nat \ {0}
  /\ MaxYields \in Nat
  /\ Survivor \in Workers

VARIABLES
  run,       \* runs table
  job,       \* run_jobs table
  open,      \* open[r]: attempt numbers of r whose completed_at is null
  task,      \* the worker tasks
  flag,      \* Redis keys run-cancel:<run>
  api,       \* api[r]: where the cancel_run handler for r stands
  executions \* history: how often the Agent was started for each run

vars == <<run, job, open, task, flag, api, executions>>

-----------------------------------------------------------------------------
(* Types *)

TERMINAL_RUN_STATUSES == {"completed", "failed", "cancelled", "timed_out"}
ACTIVE == {"queued", "running"}
RunStatus == ACTIVE \cup TERMINAL_RUN_STATUSES
ClaimableJob == {"queued", "retry_wait"}
TerminalJob == {"succeeded", "failed", "dead_letter", "cancelled"}
RunJobStatus == ClaimableJob \cup {"leased"} \cup TerminalJob

ErrorCode == {"none", "cancelled", "job_attempts_exhausted",
              "worker_lost_during_execution", "execution_error"}

\* A nullable timestamp column, of which only null or not null matters.
Stamp == {"null", "set"}

\* `absent' stands for a row that create_run has not inserted yet.
RunRow == [status  : RunStatus \cup {"absent"},
           error   : ErrorCode,
           cancel  : Stamp,                      \* cancellation_requested_at
           step    : RunStatus \cup {"absent"},  \* RunStep with sequence 1
           answers : Nat]                        \* assistant messages stored

\* The lease token is drawn fresh at every claim, so the attempt number
\* stands for the pair (lease_owner, lease_token); 0 is the cleared lease.
JobRow == [status   : RunJobStatus \cup {"absent"},
           lease    : Nat,
           ttl      : 0..LeaseTicks,  \* ticks to lease_expires_at
           claims   : Nat,            \* attempt_count
           failures : Nat,            \* failure_count
           yields   : Nat,            \* attempts closed as capacity_wait
           started  : Stamp]          \* execution_started_at

\* Where RunWorker._execute and RunExecutor._execute stand.
ExecutorPC == {"prepare", "start", "model", "check", "complete", "error", "clear"}
HeartbeatPC == ExecutorPC \cup {"claim_run"}
LeasedPC == HeartbeatPC \cup {"reserve", "reject", "capacity", "yield", "release", "finish"}

NoRun == "none"
Failure == {"failed", "cancelled", "timed_out"}
Task == [pc : LeasedPC \cup {"idle", "down"}, run : Runs \cup {NoRun},
         lease : Nat, outcome : Failure]

AbsentRun == [status |-> "absent", error |-> "none", cancel |-> "null",
              step |-> "absent", answers |-> 0]
AbsentJob == [status |-> "absent", lease |-> 0, ttl |-> 0, claims |-> 0,
              failures |-> 0, yields |-> 0, started |-> "null"]
Idle == [pc |-> "idle", run |-> NoRun, lease |-> 0, outcome |-> "failed"]

TypeOK ==
  /\ run \in [Runs -> RunRow]
  /\ job \in [Runs -> JobRow]
  /\ open \in [Runs -> SUBSET Nat]
  /\ task \in [Workers -> Task]
  /\ \A w \in Workers : task[w].pc \in LeasedPC => task[w].run \in Runs
  /\ flag \in SUBSET Runs
  /\ api \in [Runs -> {"idle", "cancel_queued", "set_flag"}]
  /\ executions \in [Runs -> Nat]

Init ==
  /\ run = [r \in Runs |-> AbsentRun]
  /\ job = [r \in Runs |-> AbsentJob]
  /\ open = [r \in Runs |-> {}]
  /\ task = [w \in Workers |-> Idle]
  /\ flag = {}
  /\ api = [r \in Runs |-> "idle"]
  /\ executions = [r \in Runs |-> 0]

-----------------------------------------------------------------------------
(* Helpers of RunJobService and ConversationService *)

\* _locked_lease and _lock_durable_job: the row still carries w's lease.
LockedLease(w) ==
  LET j == job[task[w].run]
  IN  j.status = "leased" /\ j.lease = task[w].lease /\ j.ttl > 0

\* _job_status_for_run
JobStatusForRun(status) ==
  CASE status = "completed" -> "succeeded"
    [] status = "cancelled" -> "cancelled"
    [] OTHER -> "failed"

\* A job row that leaves its lease: new status, _clear_lease.
ClearLease(j, status) == [j EXCEPT !.status = status, !.lease = 0, !.ttl = 0]

\* A lease that ends with one more counted failure, or with a capacity wait.
CountFailure(j, status) ==
  [ClearLease(j, status) EXCEPT !.failures = j.failures + 1]
CountYield(j) ==
  [ClearLease(j, "retry_wait") EXCEPT !.yields = j.yields + 1]

\* The lease of the next attempt.
NewLease(j) ==
  [j EXCEPT !.status = "leased", !.claims = j.claims + 1, !.lease = j.claims + 1,
            !.ttl = LeaseTicks]

\* The run and its step reach a terminal status together.
EndRun(row, status, error) ==
  [row EXCEPT !.status = status, !.error = error,
              !.step = IF row.step = "absent" THEN "absent" ELSE status]

\* A completed run, with its assistant message.
Answered(row) ==
  [EndRun(row, "completed", "none") EXCEPT !.answers = row.answers + 1]

\* Variant with a bug: only a running run is failed, so that a job may be
\* dead-lettered while its run stays queued.
FailRunningOnly(row, error) ==
  IF row.status # "running" THEN row ELSE EndRun(row, "failed", error)

\* _fail_run: a terminal run is left alone.
FailRun(row, error) ==
  IF row.status \in TERMINAL_RUN_STATUSES THEN row ELSE EndRun(row, "failed", error)

\* Variant with a bug: the step rows of the lost attempt are kept.
ResetRunKeepingSteps(row) ==
  IF row.status # "running" THEN row ELSE [row EXCEPT !.status = "queued"]

\* _reset_run_for_retry: back to queued, steps deleted.
ResetRunForRetry(row) ==
  IF row.status # "running" THEN row
  ELSE [row EXCEPT !.status = "queued", !.step = "absent"]

\* _finish_attempt for the attempt of lease n.
FinishAttempt(r, n) == open' = [open EXCEPT ![r] = @ \ {n}]

Goto(w, pc) == task' = [task EXCEPT ![w].pc = pc]

\* An exception handler of RunExecutor._execute that ends the run as status.
Fail(w, status) == task' = [task EXCEPT ![w].pc = "error", ![w].outcome = status]

-----------------------------------------------------------------------------
(* The API *)

\* create_run: the user message, the run and its job in one transaction, if
\* the conversation has no active run.
CreateRun(r) ==
  /\ run[r].status = "absent"
  /\ \A s \in Runs : ConversationOf[s] = ConversationOf[r] => run[s].status \notin ACTIVE
  /\ run' = [run EXCEPT ![r].status = "queued"]
  /\ job' = [job EXCEPT ![r].status = "queued"]
  /\ UNCHANGED <<open, task, flag, api, executions>>

\* cancel_run, first transaction: ConversationService.request_cancel.  The
\* handler goes on only when the run it read was not terminal.
RequestCancel(r) ==
  /\ api[r] = "idle"
  /\ run[r].status \in ACTIVE
  /\ run' = [run EXCEPT ![r].cancel = "set"]
  /\ api' = [api EXCEPT ![r] = "cancel_queued"]
  /\ UNCHANGED <<job, open, task, flag, executions>>

\* cancel_run, second transaction: RunJobService.cancel_queued.
CancelQueued(r) ==
  /\ api[r] = "cancel_queued"
  /\ IF job[r].status \in ClaimableJob /\ run[r].status \notin TERMINAL_RUN_STATUSES
     THEN /\ job' = [job EXCEPT ![r].status = "cancelled"]
          /\ run' = [run EXCEPT ![r].status = "cancelled", ![r].error = "cancelled"]
          /\ api' = [api EXCEPT ![r] = "idle"]
     ELSE /\ api' = [api EXCEPT ![r] = "set_flag"]
          /\ UNCHANGED <<run, job>>
  /\ UNCHANGED <<open, task, flag, executions>>

\* cancel_run, otherwise: RunControl.request_cancel sets the Redis key.
SetCancelFlag(r) ==
  /\ api[r] = "set_flag"
  /\ flag' = flag \cup {r}
  /\ api' = [api EXCEPT ![r] = "idle"]
  /\ UNCHANGED <<run, job, open, task, executions>>

\* The API process dies, or its next call raises, between two of these steps.
ApiCrash(r) ==
  /\ api[r] # "idle"
  /\ api' = [api EXCEPT ![r] = "idle"]
  /\ UNCHANGED <<run, job, open, task, flag, executions>>

\* The Redis key expires (ex=300).
FlagExpires(r) ==
  /\ r \in flag
  /\ flag' = flag \ {r}
  /\ UNCHANGED <<run, job, open, task, api, executions>>

-----------------------------------------------------------------------------
(* The loop of a worker process: recover_expired, then claim *)

\* Variant with a bug: a started execution is retried too.
RecoveredJobAnyTime(r) ==
  LET j == job[r]
  IN  IF j.failures + 1 < MaxAttempts
      THEN CountFailure(j, "retry_wait")
      ELSE CountFailure(j, "dead_letter")

\* What recover_expired writes into one job row ...
RecoveredJob(r) ==
  LET j == job[r]
  IN  IF run[r].status \in TERMINAL_RUN_STATUSES
      THEN ClearLease(j, JobStatusForRun(run[r].status))
      ELSE IF j.started = "null" /\ j.failures + 1 < MaxAttempts
           THEN CountFailure(j, "retry_wait")
           ELSE CountFailure(j, "dead_letter")

\* ... and into its run.
RecoveredRun(r) ==
  LET j == job[r]
  IN  IF run[r].status \in TERMINAL_RUN_STATUSES
      THEN run[r]
      ELSE IF j.started = "null" /\ j.failures + 1 < MaxAttempts
           THEN ResetRunForRetry(run[r])
           ELSE FailRun(run[r], "worker_lost_during_execution")

\* Variant with a bug: only leases whose execution started are recovered.
RecoverStartedOnly(w) ==
  /\ task[w].pc # "down"
  /\ \E r \in Runs :
       /\ job[r].status = "leased" /\ job[r].ttl = 0 /\ job[r].started = "set"
       /\ job' = [job EXCEPT ![r] = RecoveredJob(r)]
       /\ run' = [run EXCEPT ![r] = RecoveredRun(r)]
       /\ FinishAttempt(r, job[r].lease)
  /\ UNCHANGED <<task, flag, api, executions>>

\* recover_expired, one transaction over the expired leases S it could lock
\* (SKIP LOCKED, limit): each goes to retry_wait, or to dead_letter when the
\* execution had started or the attempts are used up.
RecoverExpired(w) ==
  /\ task[w].pc # "down"
  /\ \E S \in SUBSET {r \in Runs : job[r].status = "leased" /\ job[r].ttl = 0} :
       /\ S # {}
       /\ job' = [r \in Runs |-> IF r \in S THEN RecoveredJob(r) ELSE job[r]]
       /\ run' = [r \in Runs |-> IF r \in S THEN RecoveredRun(r) ELSE run[r]]
       /\ open' = [r \in Runs |-> IF r \in S THEN open[r] \ {job[r].lease} ELSE open[r]]
  /\ UNCHANGED <<task, flag, api, executions>>

\* claim: lease an available job and insert its attempt.  available_at is
\* abstracted: a waiting job may be picked at any later time.
Claim(w) ==
  /\ task[w].pc = "idle"
  /\ \E r \in Runs :
       /\ job[r].status \in ClaimableJob
       /\ IF run[r].status \in TERMINAL_RUN_STATUSES
          THEN /\ job' = [job EXCEPT ![r].status = JobStatusForRun(run[r].status)]
               /\ UNCHANGED <<open, task>>
          ELSE LET n == job[r].claims + 1
               IN  /\ job' = [job EXCEPT ![r] = NewLease(@)]
                   /\ open' = [open EXCEPT ![r] = @ \cup {n}]
                   /\ task' = [task EXCEPT ![w] = [pc |-> "reserve", run |-> r, lease |-> n,
                                                   outcome |-> "failed"]]
  /\ UNCHANGED <<run, flag, api, executions>>

\* _lease_heartbeat renews a lease that is still valid.
Heartbeat(w) ==
  /\ task[w].pc \in HeartbeatPC
  /\ LockedLease(w)
  /\ job' = [job EXCEPT ![task[w].run].ttl = LeaseTicks]
  /\ UNCHANGED <<run, open, task, flag, api, executions>>

\* Time passes for the lease of r: lease_expires_at comes closer.
Tick(r) ==
  /\ job[r].status = "leased"
  /\ job[r].ttl > 0
  /\ job' = [job EXCEPT ![r].ttl = @ - 1]
  /\ UNCHANGED <<run, open, task, flag, api, executions>>

-----------------------------------------------------------------------------
(* RunWorker._execute *)

\* quota.reserve: admitted, refused (QuotaExceededError), or Redis fails.
Reserve(w) ==
  /\ task[w].pc = "reserve"
  /\ \E pc \in {"capacity", "reject", "release"} : Goto(w, pc)
  /\ UNCHANGED <<run, job, open, flag, api, executions>>

\* quota.acquire_concurrency: a slot, no capacity, or Redis fails; then the
\* handler releases the job unless its own call of Redis, abandon, fails too.
AcquireConcurrency(w) ==
  /\ task[w].pc = "capacity"
  /\ \/ \E pc \in {"claim_run", "release", "finish"} : Goto(w, pc)
     \/ job[task[w].run].yields < MaxYields /\ Goto(w, "yield")
  /\ UNCHANGED <<run, job, open, flag, api, executions>>

\* Variant with a bug: the attempt of a capacity wait is left open.
ReleaseKeepingAttempt(w) ==
  LET r == task[w].run
  IN  /\ task[w].pc = "yield"
      /\ job' = [job EXCEPT ![r] = IF LockedLease(w) THEN CountYield(@) ELSE @]
      /\ Goto(w, "finish")
      /\ UNCHANGED <<run, open, flag, api, executions>>

\* release_for_capacity: back to retry_wait without counting a failure.
ReleaseForCapacity(w) ==
  LET r == task[w].run
  IN  /\ task[w].pc = "yield"
      /\ IF LockedLease(w) /\ job[r].started = "null"
         THEN /\ job' = [job EXCEPT ![r] = CountYield(@)]
              /\ FinishAttempt(r, task[w].lease)
         ELSE UNCHANGED <<job, open>>
      /\ Goto(w, "finish")
      /\ UNCHANGED <<run, flag, api, executions>>

\* release_before_execution: retry_wait, or dead_letter after MaxAttempts.
ReleaseBeforeExecution(w) ==
  LET r == task[w].run
      exhausted == job[r].failures + 1 >= MaxAttempts
  IN  /\ task[w].pc = "release"
      /\ IF LockedLease(w) /\ job[r].started = "null"
         THEN /\ job' = [job EXCEPT ![r] =
                          CountFailure(@, IF exhausted THEN "dead_letter" ELSE "retry_wait")]
              /\ run' = [run EXCEPT ![r] = IF exhausted
                                           THEN FailRun(@, "job_attempts_exhausted")
                                           ELSE ResetRunForRetry(@)]
              /\ FinishAttempt(r, task[w].lease)
         ELSE UNCHANGED <<run, job, open>>
      /\ Goto(w, "finish")
      /\ UNCHANGED <<flag, api, executions>>

\* The last step of _execute, finish_from_run: the job takes over a terminal
\* run's status if the lease is still held.
FinishFromRun(w) ==
  LET r == task[w].run
  IN  /\ task[w].pc = "finish"
      /\ IF LockedLease(w) /\ run[r].status \in TERMINAL_RUN_STATUSES
         THEN /\ job' = [job EXCEPT ![r] = ClearLease(@, JobStatusForRun(run[r].status))]
              /\ FinishAttempt(r, task[w].lease)
         ELSE UNCHANGED <<job, open>>
      /\ task' = [task EXCEPT ![w] = Idle]
      /\ UNCHANGED <<run, flag, api, executions>>

-----------------------------------------------------------------------------
(* RunExecutor._execute *)

\* claim_run is not fenced by the lease: it looks at the run row only.  When
\* it finds the run not queued, or raises, the executor returns at once.
ClaimRun(w) ==
  LET r == task[w].run
  IN  /\ task[w].pc = "claim_run"
      /\ \/ /\ run[r].status = "queued"
            /\ run' = [run EXCEPT ![r].status = "running", ![r].step = "running"]
            /\ Goto(w, "prepare")
         \/ /\ Goto(w, "finish")
            /\ UNCHANGED run
      /\ UNCHANGED <<job, open, flag, api, executions>>

\* Variant with a bug: only the Redis key is read.
IsCancelFlagged(r) == r \in flag

\* _is_cancel_requested: the Redis key, then the run row.
IsCancelRequested(r) == r \in flag \/ run[r].cancel = "set"

\* Loading configuration and messages, the preflight limits, and the two
\* cancellation checks before the execution starts.
Prepare(w) ==
  /\ task[w].pc = "prepare"
  /\ \/ IsCancelRequested(task[w].run) /\ Fail(w, "cancelled")
     \/ ~IsCancelRequested(task[w].run) /\ Goto(w, "start")
     \/ Fail(w, "failed")
  /\ UNCHANGED <<run, job, open, flag, api, executions>>

\* Variant with a bug: the lease is not checked again before the start.
MarkUnfenced(w) ==
  LET r == task[w].run
  IN  /\ task[w].pc = "start"
      /\ job' = [job EXCEPT ![r].started = "set"]
      /\ executions' = [executions EXCEPT ![r] = @ + 1]
      /\ Goto(w, "model")
      /\ UNCHANGED <<run, open, flag, api>>

\* mark_execution_started.  A worker that lost its lease gives up and leaves
\* the run row as it is; the run timeout may strike here too.
MarkExecutionStarted(w) ==
  LET r == task[w].run
  IN  /\ task[w].pc = "start"
      /\ \/ /\ LockedLease(w)
            /\ job' = [job EXCEPT ![r].started = "set"]
            /\ executions' = [executions EXCEPT ![r] = @ + 1]
            /\ Goto(w, "model")
         \/ /\ ~LockedLease(w)
            /\ Goto(w, "clear")
            /\ UNCHANGED <<job, executions>>
         \/ /\ \E status \in {"timed_out", "failed"} : Fail(w, status)
            /\ UNCHANGED <<job, executions>>
      /\ UNCHANGED <<run, open, flag, api>>

\* SingleAgent.run ends: an answer, a cancellation seen by on_delta in Redis,
\* the run timeout, or an error of the model, a limit or a policy.
AgentRun(w) ==
  /\ task[w].pc = "model"
  /\ \/ Goto(w, "check")
     \/ task[w].run \in flag /\ Fail(w, "cancelled")
     \/ \E status \in {"timed_out", "failed"} : Fail(w, status)
  /\ UNCHANGED <<run, job, open, flag, api, executions>>

\* The cancellation check after the answer, then settlement and the limits.
FinalCheck(w) ==
  /\ task[w].pc = "check"
  /\ \/ IsCancelRequested(task[w].run) /\ Fail(w, "cancelled")
     \/ ~IsCancelRequested(task[w].run) /\ Goto(w, "complete")
     \/ Fail(w, "failed")
  /\ UNCHANGED <<run, job, open, flag, api, executions>>

\* Variant with a bug: neither the lease nor the run status is checked.
CompleteUnfenced(w) ==
  LET r == task[w].run
  IN  /\ task[w].pc = "complete"
      /\ run' = [run EXCEPT ![r] = Answered(@)]
      /\ job' = [job EXCEPT ![r] = ClearLease(@, "succeeded")]
      /\ FinishAttempt(r, task[w].lease)
      /\ Goto(w, "clear")
      /\ UNCHANGED <<flag, api, executions>>

\* complete_run with _finalize_durable_job: answer, run, job and attempt in
\* one transaction, under a valid lease whose execution started.
CompleteRun(w) ==
  LET r == task[w].run
  IN  /\ task[w].pc = "complete"
      /\ \/ /\ LockedLease(w) /\ job[r].started = "set" /\ run[r].status = "running"
            /\ run' = [run EXCEPT ![r] = Answered(@)]
            /\ job' = [job EXCEPT ![r] = ClearLease(@, "succeeded")]
            /\ FinishAttempt(r, task[w].lease)
            /\ Goto(w, "clear")
         \/ /\ ~(LockedLease(w) /\ job[r].started = "set" /\ run[r].status = "running")
            /\ Goto(w, "clear")
            /\ UNCHANGED <<run, job, open>>
         \/ /\ Fail(w, "failed")
            /\ UNCHANGED <<run, job, open>>
      /\ UNCHANGED <<flag, api, executions>>

\* finish_run_with_error with _finalize_durable_job, for worker w.
FinishRunWithError(w, status) ==
  LET r == task[w].run
  IN  /\ LockedLease(w)
      /\ run[r].status \notin TERMINAL_RUN_STATUSES
      /\ run' = [run EXCEPT ![r] = EndRun(@, status, IF status = "cancelled"
                                             THEN "cancelled" ELSE "execution_error")]
      /\ job' = [job EXCEPT ![r] = ClearLease(@, IF status = "cancelled" THEN "cancelled"
                                                                    ELSE "failed")]
      /\ FinishAttempt(r, task[w].lease)

\* _finish_error: it commits, finds nothing to do, or raises and is swallowed.
FinishError(w) ==
  /\ task[w].pc = "error"
  /\ \/ FinishRunWithError(w, task[w].outcome)
     \/ UNCHANGED <<run, job, open>>
  /\ Goto(w, "clear")
  /\ UNCHANGED <<flag, api, executions>>

\* reject_submission after the quota refused the job.
RejectSubmission(w) ==
  /\ task[w].pc = "reject"
  /\ \/ FinishRunWithError(w, "failed")
     \/ UNCHANGED <<run, job, open>>
  /\ Goto(w, "finish")
  /\ UNCHANGED <<flag, api, executions>>

\* The finally clause: _clear_control deletes the Redis key of the run.
ClearControl(w) ==
  /\ task[w].pc = "clear"
  /\ \/ flag' = flag \ {task[w].run}
     \/ flag' = flag
  /\ Goto(w, "finish")
  /\ UNCHANGED <<run, job, open, api, executions>>

-----------------------------------------------------------------------------
(* Faults of a worker *)

\* _drain cancels a task after the grace period: inside the executor's try
\* block the run is ended as failed (service_shutdown), before it nothing is.
Shutdown(w) ==
  /\ \/ task[w].pc \in {"prepare", "start", "model", "check", "complete"} /\ Fail(w, "failed")
     \/ /\ task[w].pc \in {"reserve", "capacity", "reject", "yield", "release", "claim_run"}
        /\ Goto(w, "finish")
  /\ UNCHANGED <<run, job, open, flag, api, executions>>

\* The process dies with a task in flight; its lease stays behind.
Crash(w) ==
  /\ task[w].pc \in LeasedPC
  /\ task' = [task EXCEPT ![w] = [Idle EXCEPT !.pc = "down"]]
  /\ UNCHANGED <<run, job, open, flag, api, executions>>

\* The supervisor starts the process again.
Restart(w) ==
  /\ task[w].pc = "down"
  /\ task' = [task EXCEPT ![w] = Idle]
  /\ UNCHANGED <<run, job, open, flag, api, executions>>

-----------------------------------------------------------------------------

ApiNext(r) ==
  \/ CreateRun(r) \/ RequestCancel(r) \/ CancelQueued(r) \/ SetCancelFlag(r)
  \/ ApiCrash(r) \/ FlagExpires(r) \/ Tick(r)

\* The task of w goes on.
TaskStep(w) ==
  \/ Reserve(w) \/ AcquireConcurrency(w) \/ ReleaseForCapacity(w)
  \/ ReleaseBeforeExecution(w) \/ RejectSubmission(w) \/ ClaimRun(w) \/ Prepare(w)
  \/ MarkExecutionStarted(w) \/ AgentRun(w) \/ FinalCheck(w) \/ CompleteRun(w)
  \/ FinishError(w) \/ ClearControl(w) \/ FinishFromRun(w)

WorkerNext(w) ==
  \/ TaskStep(w) \/ Claim(w) \/ RecoverExpired(w) \/ Heartbeat(w)
  \/ Shutdown(w) \/ Crash(w) \/ Restart(w)

Next == (\E r \in Runs : ApiNext(r)) \/ (\E w \in Workers : WorkerNext(w))

Spec == Init /\ [][Next]_vars
-----------------------------------------------------------------------------
(* Safety *)

\* The Agent, whose tools may have side effects, is started at most once for
\* a run, however often its lease is lost, and a job that can still be
\* claimed was never started (recover_expired, mark_execution_started).
AtMostOnceExecution ==
  \A r \in Runs : /\ executions[r] <= 1
                  /\ job[r].status \in ClaimableJob => executions[r] = 0

\* The rows of job and run tell the same story ...
Agree(r) ==
  /\ job[r].status = "absent" <=> run[r].status = "absent"
  /\ job[r].status \in ClaimableJob \cup {"leased"} <=> run[r].status \in ACTIVE
  /\ job[r].status = "succeeded" <=> run[r].status = "completed"
  /\ job[r].status = "cancelled" <=> run[r].status = "cancelled"
  /\ job[r].status = "dead_letter" => run[r].status = "failed"

\* ... always: both are live or both are terminal, with matching outcomes
\* (complete_run, cancel_queued, finish_run_with_error and recover_expired
\* commit both in one transaction).
JobRunAgreement == \A r \in Runs : Agree(r)

\* Exactly the attempt of the current lease is open, and every other claim is
\* accounted for by a failure or a capacity wait ...
Ledger(r) ==
  LET j == job[r]
  IN  /\ open[r] = IF j.status = "leased" THEN {j.claims} ELSE {}
      /\ j.failures + j.yields <= j.claims
      /\ j.claims <= j.failures + j.yields + 1
      /\ j.status \in ClaimableJob => j.claims = j.failures + j.yields
      /\ j.status = "leased" => j.claims = j.failures + j.yields + 1
      /\ j.failures <= MaxAttempts
      /\ j.status \in ClaimableJob \cup {"leased"} => j.failures < MaxAttempts

\* ... always, so that a job is claimed at most MaxAttempts times besides its
\* capacity waits (claim, _finish_attempt, failure_count).
AttemptLedger == \A r \in Runs : Ledger(r)

\* A run stores one assistant message exactly when it is completed, and only
\* a run whose execution started completes (complete_run).
OneAnswerPerCompletion ==
  \A r \in Runs :
    /\ run[r].answers = IF run[r].status = "completed" THEN 1 ELSE 0
    /\ run[r].status = "completed" => executions[r] = 1

\* The phases in which a task has not called mark_execution_started yet.
BeforeStart == {"reserve", "capacity", "yield", "release", "reject", "claim_run",
                "prepare", "start"}

\* Fencing: a lease has one holder, and while a task that has not started the
\* execution still holds the current lease, nobody has started it.
LeaseFencing ==
  \A w \in Workers : task[w].pc \in LeasedPC =>
    LET j == job[task[w].run]
    IN  /\ task[w].lease >= 1
        /\ task[w].lease <= j.claims
        /\ \A v \in Workers :
             /\ task[v].pc \in LeasedPC
             /\ task[v].run = task[w].run
             /\ task[v].lease = task[w].lease
             => v = w
        /\ task[w].pc \in BeforeStart /\ task[w].lease = j.lease => j.started = "null"

\* A queued run has no step row: claim_run inserts (run, sequence 1) under a
\* unique constraint, so a leftover step would make the run unclaimable.
QueuedRunHasNoStep ==
  \A r \in Runs : run[r].status = "queued" => run[r].step = "absent"

\* A conversation has at most one active run, also when retries move runs
\* from running back to queued (index uq_runs_one_active_conversation).
OneActiveRunPerConversation ==
  \A r, s \in Runs :
    /\ ConversationOf[r] = ConversationOf[s]
    /\ run[r].status \in ACTIVE
    /\ run[s].status \in ACTIVE
    => r = s

-----------------------------------------------------------------------------
(* What a step may never do *)

\* Terminal rows are final: no late worker, recovery or cancellation rewrites
\* the outcome of a run or of its job.
TerminalIsFinal ==
  [][\A r \in Runs :
       /\ run[r].status \in TERMINAL_RUN_STATUSES =>
            /\ run'[r].status = run[r].status
            /\ run'[r].error = run[r].error
            /\ run'[r].answers = run[r].answers
       /\ job[r].status \in TerminalJob => job'[r] = job[r]]_vars

\* The cancellation of r is recorded and no worker is past its final check.
CancelEffective(r) ==
  /\ run[r].cancel = "set"
  /\ run[r].status # "completed"
  /\ \A w \in Workers : ~(task[w].pc = "complete" /\ task[w].run = r)

\* A recorded cancellation that no worker can have missed stays effective:
\* the run never completes, whatever becomes of the Redis flag, the API
\* process and the workers.
CancellationHolds ==
  [][\A r \in Runs : CancelEffective(r) => CancelEffective(r)']_vars

-----------------------------------------------------------------------------
(* The abstract specification *)

\* The phase of r that RunLifecycle speaks of.
PhaseOf(r) ==
  IF run[r].status \in ACTIVE
  THEN IF executions[r] = 0 THEN "pending" ELSE "executing"
  ELSE run[r].status

Lifecycle == INSTANCE RunLifecycle
               WITH phase <- [r \in Runs |-> PhaseOf(r)], starts <- executions

\* Leases, retries, recovery and races are invisible to the caller: the
\* durable machinery implements the run lifecycle, never replaying an
\* execution and never changing an outcome.
ImplementsLifecycle == Lifecycle!Spec

-----------------------------------------------------------------------------
(* Liveness *)

\* One worker keeps running: the supervisor restarts it, its loop recovers and
\* claims, its calls return (the Agent's by the run timeout).  The tasks of the
\* other workers go on or crash, and may stay down.  Time passes.
FairSpec ==
  /\ Spec
  /\ \A r \in Runs : WF_vars(Tick(r))
  /\ \A w \in Workers : WF_vars(TaskStep(w))
  /\ WF_vars(Restart(Survivor))
  /\ WF_vars(RecoverExpired(Survivor))
  /\ WF_vars(Claim(Survivor))

\* Every created run reaches a terminal status: no run stays queued or running
\* for ever after crashes, lost leases, stale claims and capacity waits.
RunTerminates ==
  \A r \in Runs : run[r].status \in ACTIVE ~> run[r].status \in TERMINAL_RUN_STATUSES
=============================================================================
