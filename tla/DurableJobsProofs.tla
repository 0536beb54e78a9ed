------------------------- MODULE DurableJobsProofs -------------------------
(***************************************************************************)
(* Machine-checked proofs about DurableJobs, for every set of runs and     *)
(* workers and every value of MaxAttempts, LeaseTicks and MaxYields.       *)
(***************************************************************************)
EXTENDS DurableJobs, TLAPS

-----------------------------------------------------------------------------
(* Row helpers *)

\* _clear_lease with any stored status yields a well-formed job row.
LEMMA ClearLeaseType ==
  ASSUME NEW j \in JobRow, NEW s \in RunJobStatus
  PROVE  /\ ClearLease(j, s) \in JobRow
         /\ ClearLease(j, s).status = s
         /\ ClearLease(j, s).lease = 0
         /\ ClearLease(j, s).claims = j.claims
         /\ ClearLease(j, s).failures = j.failures
         /\ ClearLease(j, s).yields = j.yields
         /\ ClearLease(j, s).started = j.started
<1>1. 0 \in 0..LeaseTicks
  BY ConstantsAssumption
<1> QED BY <1>1 DEF ClearLease, JobRow

\* Counting a failure or a capacity wait changes that counter only.
LEMMA CountType ==
  ASSUME NEW j \in JobRow, NEW s \in RunJobStatus
  PROVE  /\ CountFailure(j, s) \in JobRow
         /\ CountFailure(j, s).status = s
         /\ CountFailure(j, s).lease = 0
         /\ CountFailure(j, s).claims = j.claims
         /\ CountFailure(j, s).failures = j.failures + 1
         /\ CountFailure(j, s).yields = j.yields
         /\ CountFailure(j, s).started = j.started
         /\ CountYield(j) \in JobRow
         /\ CountYield(j).status = "retry_wait"
         /\ CountYield(j).lease = 0
         /\ CountYield(j).claims = j.claims
         /\ CountYield(j).failures = j.failures
         /\ CountYield(j).yields = j.yields + 1
         /\ CountYield(j).started = j.started
<1> "retry_wait" \in RunJobStatus
  BY DEF RunJobStatus, ClaimableJob
<1>1. \A t \in RunJobStatus : ClearLease(j, t) \in JobRow
  BY ClearLeaseType
<1>2. j.failures + 1 \in Nat /\ j.yields + 1 \in Nat
  BY DEF JobRow
<1>3. CountFailure(j, s) \in JobRow /\ CountYield(j) \in JobRow
  BY <1>1, <1>2 DEF CountFailure, CountYield, JobRow
<1> QED BY <1>1, <1>3, ClearLeaseType DEF CountFailure, CountYield, JobRow

\* A claim leases the row under the next attempt number.
LEMMA NewLeaseType ==
  ASSUME NEW j \in JobRow
  PROVE  /\ NewLease(j) \in JobRow
         /\ NewLease(j).status = "leased"
         /\ NewLease(j).claims = j.claims + 1
         /\ NewLease(j).lease = j.claims + 1
         /\ NewLease(j).failures = j.failures
         /\ NewLease(j).yields = j.yields
         /\ NewLease(j).started = j.started
<1>1. j.claims + 1 \in Nat /\ LeaseTicks \in 0..LeaseTicks
  BY ConstantsAssumption DEF JobRow
<1> QED BY <1>1 DEF NewLease, JobRow, RunJobStatus

\* Ending a run yields a well-formed run row with that status and error.
LEMMA EndRunType ==
  ASSUME NEW row \in RunRow, NEW s \in TERMINAL_RUN_STATUSES, NEW e \in ErrorCode
  PROVE  /\ EndRun(row, s, e) \in RunRow
         /\ EndRun(row, s, e).status = s
         /\ EndRun(row, s, e).error = e
         /\ EndRun(row, s, e).answers = row.answers
         /\ EndRun(row, s, e).cancel = row.cancel
BY DEF EndRun, RunRow, RunStatus

\* A completed run has one more assistant message.
LEMMA AnsweredType ==
  ASSUME NEW row \in RunRow
  PROVE  /\ Answered(row) \in RunRow
         /\ Answered(row).status = "completed"
         /\ Answered(row).answers = row.answers + 1
         /\ Answered(row).cancel = row.cancel
<1>1. /\ EndRun(row, "completed", "none") \in RunRow
      /\ EndRun(row, "completed", "none").status = "completed"
      /\ EndRun(row, "completed", "none").cancel = row.cancel
  BY EndRunType DEF TERMINAL_RUN_STATUSES, ErrorCode
<1>2. row.answers + 1 \in Nat
  BY DEF RunRow
<1> QED BY <1>1, <1>2 DEF Answered, RunRow

\* _fail_run leaves terminal runs alone and fails the others.
LEMMA FailRunType ==
  ASSUME NEW row \in RunRow, NEW e \in ErrorCode
  PROVE  /\ FailRun(row, e) \in RunRow
         /\ FailRun(row, e).answers = row.answers
         /\ FailRun(row, e).cancel = row.cancel
         /\ row.status \in TERMINAL_RUN_STATUSES => FailRun(row, e) = row
         /\ row.status \notin TERMINAL_RUN_STATUSES => FailRun(row, e).status = "failed"
<1>1. "failed" \in TERMINAL_RUN_STATUSES
  BY DEF TERMINAL_RUN_STATUSES
<1> QED BY <1>1, EndRunType DEF FailRun

\* _reset_run_for_retry only takes a running run back to queued.
LEMMA ResetRunType ==
  ASSUME NEW row \in RunRow
  PROVE  /\ ResetRunForRetry(row) \in RunRow
         /\ ResetRunForRetry(row).answers = row.answers
         /\ ResetRunForRetry(row).cancel = row.cancel
         /\ row.status # "running" => ResetRunForRetry(row) = row
         /\ row.status = "running" => /\ ResetRunForRetry(row).status = "queued"
                                      /\ ResetRunForRetry(row).step = "absent"
BY DEF ResetRunForRetry, RunRow, RunStatus, ACTIVE

\* _job_status_for_run always yields a terminal job status.
LEMMA JobStatusForRunType ==
  ASSUME NEW s
  PROVE  JobStatusForRun(s) \in TerminalJob
BY DEF JobStatusForRun, TerminalJob

-----------------------------------------------------------------------------
(* Type correctness *)

\* The rows recover_expired writes are well formed.
LEMMA RecoveredType ==
  ASSUME TypeOK, NEW r \in Runs
  PROVE  RecoveredJob(r) \in JobRow /\ RecoveredRun(r) \in RunRow
<1>1. job[r] \in JobRow /\ run[r] \in RunRow
  BY DEF TypeOK
<1>3. JobStatusForRun(run[r].status) \in RunJobStatus
  BY JobStatusForRunType DEF RunJobStatus
<1>4. RecoveredJob(r) \in JobRow
  <2>1. ClearLease(job[r], JobStatusForRun(run[r].status)) \in JobRow
    BY <1>1, <1>3, ClearLeaseType
  <2>2. /\ CountFailure(job[r], "retry_wait") \in JobRow
        /\ CountFailure(job[r], "dead_letter") \in JobRow
    BY <1>1, CountType DEF RunJobStatus, ClaimableJob, TerminalJob
  <2> QED BY <2>1, <2>2 DEF RecoveredJob
<1>5. RecoveredRun(r) \in RunRow
  BY <1>1, FailRunType, ResetRunType DEF RecoveredRun, ErrorCode
<1> QED BY <1>4, <1>5

\* Every step preserves the type invariant.
LEMMA TypeStep ==
  ASSUME TypeOK, [Next]_vars
  PROVE  TypeOK'
<1> USE DEF TypeOK
<1>a. /\ \A r \in Runs : job[r] \in JobRow /\ run[r] \in RunRow
      /\ \A w \in Workers : task[w] \in Task
  OBVIOUS
<1>1. ASSUME NEW r \in Runs, ApiNext(r)
      PROVE  TypeOK'
  <2>1. CASE CreateRun(r)
    <3>1. [run[r] EXCEPT !.status = "queued"] \in RunRow
      BY <1>a DEF RunRow, RunStatus, ACTIVE
    <3>2. [job[r] EXCEPT !.status = "queued"] \in JobRow
      BY <1>a DEF JobRow, RunJobStatus, ClaimableJob
    <3> QED BY <2>1, <3>1, <3>2 DEF CreateRun
  <2>2. CASE RequestCancel(r)
    BY <2>2 DEF RequestCancel, RunRow, Stamp
  <2>3. CASE CancelQueued(r)
    <3>1. [run[r] EXCEPT !.status = "cancelled", !.error = "cancelled"] \in RunRow
      BY <1>a DEF RunRow, RunStatus, ErrorCode, TERMINAL_RUN_STATUSES
    <3>2. [job[r] EXCEPT !.status = "cancelled"] \in JobRow
      BY <1>a DEF JobRow, RunJobStatus, TerminalJob
    <3>3. run' \in [Runs -> RunRow]
      BY <2>3, <3>1 DEF CancelQueued
    <3>4. job' \in [Runs -> JobRow]
      BY <2>3, <3>2 DEF CancelQueued
    <3>5. api' \in [Runs -> {"idle", "cancel_queued", "set_flag"}]
      BY <2>3 DEF CancelQueued
    <3> QED BY <2>3, <3>3, <3>4, <3>5 DEF CancelQueued
  <2>4. CASE SetCancelFlag(r)
    BY <2>4 DEF SetCancelFlag
  <2>5. CASE ApiCrash(r)
    BY <2>5 DEF ApiCrash
  <2>6. CASE FlagExpires(r)
    BY <2>6 DEF FlagExpires
  <2>7. CASE Tick(r)
    <3>1. job[r].ttl - 1 \in 0..LeaseTicks
      BY <2>7, <1>a, ConstantsAssumption DEF Tick, JobRow
    <3> QED BY <2>7, <3>1 DEF Tick, JobRow
  <2> QED BY <1>1, <2>1, <2>2, <2>3, <2>4, <2>5, <2>6, <2>7 DEF ApiNext
<1>2. ASSUME NEW w \in Workers, NEW pc \in LeasedPC, task[w].pc \in LeasedPC, Goto(w, pc)
      PROVE  /\ task' \in [Workers -> Task]
             /\ \A v \in Workers : task'[v].pc \in LeasedPC => task'[v].run \in Runs
  BY <1>2 DEF Goto, Task
<1>3. ASSUME NEW w \in Workers, NEW s \in Failure, task[w].pc \in LeasedPC, Fail(w, s)
      PROVE  /\ task' \in [Workers -> Task]
             /\ \A v \in Workers : task'[v].pc \in LeasedPC => task'[v].run \in Runs
  <2>1. [task[w] EXCEPT !.pc = "error", !.outcome = s] \in Task
    BY <1>a DEF Task, LeasedPC, HeartbeatPC, ExecutorPC
  <2>2. task' = [task EXCEPT ![w] = [task[w] EXCEPT !.pc = "error", !.outcome = s]]
    BY <1>3 DEF Fail
  <2>3. [task[w] EXCEPT !.pc = "error", !.outcome = s].run \in Runs
    BY <1>3, <1>a DEF Task
  <2> QED BY <2>1, <2>2, <2>3
<1>4. ASSUME NEW w \in Workers, WorkerNext(w)
      PROVE  TypeOK'
  <2> DEFINE r == task[w].run
  <2>a. task[w].pc \in LeasedPC => r \in Runs /\ job[r] \in JobRow /\ run[r] \in RunRow
    OBVIOUS
  <2>0. task[w].pc \in LeasedPC /\ FinishAttempt(r, task[w].lease) => open' \in [Runs -> SUBSET Nat]
    BY <2>a DEF FinishAttempt
  <2> USE DEF LeasedPC, HeartbeatPC, ExecutorPC
  <2>1. CASE Reserve(w)
    BY <2>1, <1>2 DEF Reserve
  <2>2. CASE AcquireConcurrency(w)
    BY <2>2, <1>2 DEF AcquireConcurrency
  <2>3. CASE ReleaseForCapacity(w)
    <3>1. CountYield(job[r]) \in JobRow
      BY <2>3, <2>a, CountType DEF ReleaseForCapacity, RunJobStatus
    <3>2. job' \in [Runs -> JobRow] /\ open' \in [Runs -> SUBSET Nat]
      BY <2>3, <2>a, <2>0, <3>1 DEF ReleaseForCapacity
    <3> QED BY <2>3, <3>2, <1>2 DEF ReleaseForCapacity
  <2>4. CASE ReleaseBeforeExecution(w)
    <3>2. /\ CountFailure(job[r], "dead_letter") \in JobRow
          /\ CountFailure(job[r], "retry_wait") \in JobRow
      BY <2>4, <2>a, CountType DEF ReleaseBeforeExecution, RunJobStatus, ClaimableJob, TerminalJob
    <3>3. /\ FailRun(run[r], "job_attempts_exhausted") \in RunRow
          /\ ResetRunForRetry(run[r]) \in RunRow
      BY <2>4, <2>a, FailRunType, ResetRunType DEF ReleaseBeforeExecution, ErrorCode
    <3>4. /\ job' \in [Runs -> JobRow] /\ open' \in [Runs -> SUBSET Nat]
          /\ run' \in [Runs -> RunRow]
      BY <2>4, <2>a, <2>0, <3>2, <3>3 DEF ReleaseBeforeExecution
    <3> QED BY <2>4, <3>4, <1>2 DEF ReleaseBeforeExecution
  <2>5. ASSUME NEW s \in Failure, task[w].pc \in LeasedPC,
               FinishRunWithError(w, s) \/ UNCHANGED <<run, job, open>>
        PROVE  /\ job' \in [Runs -> JobRow] /\ open' \in [Runs -> SUBSET Nat]
               /\ run' \in [Runs -> RunRow]
    <3>1. \A e \in ErrorCode : EndRun(run[r], s, e) \in RunRow
      BY <2>5, <2>a, EndRunType DEF Failure, TERMINAL_RUN_STATUSES
    <3>2. /\ ClearLease(job[r], "cancelled") \in JobRow
          /\ ClearLease(job[r], "failed") \in JobRow
      BY <2>5, <2>a, ClearLeaseType DEF RunJobStatus, TerminalJob
    <3> QED BY <2>5, <2>a, <2>0, <3>1, <3>2 DEF FinishRunWithError, ErrorCode
  <2>6. CASE RejectSubmission(w)
    BY <2>6, <2>5, <1>2 DEF RejectSubmission, Failure
  <2>7. CASE ClaimRun(w)
    <3>1. run' \in [Runs -> RunRow]
      BY <2>7, <2>a DEF ClaimRun, RunRow, RunStatus, ACTIVE
    <3> QED BY <2>7, <3>1, <1>2 DEF ClaimRun
  <2>8. CASE Prepare(w)
    BY <2>8, <1>2, <1>3 DEF Prepare, Failure
  <2>9. CASE MarkExecutionStarted(w)
    <3>a. [job[r] EXCEPT !.started = "set"] \in JobRow
      BY <2>9, <2>a DEF MarkExecutionStarted, JobRow, Stamp
    <3>1. job' \in [Runs -> JobRow] /\ executions' \in [Runs -> Nat]
      BY <2>9, <2>a, <3>a DEF MarkExecutionStarted
    <3> QED BY <2>9, <3>1, <1>2, <1>3 DEF MarkExecutionStarted, Failure
  <2>10. CASE AgentRun(w)
    BY <2>10, <1>2, <1>3 DEF AgentRun, Failure
  <2>11. CASE FinalCheck(w)
    BY <2>11, <1>2, <1>3 DEF FinalCheck, Failure
  <2>12. CASE CompleteRun(w)
    <3>1. Answered(run[r]) \in RunRow
      BY <2>12, <2>a, AnsweredType DEF CompleteRun
    <3>2. ClearLease(job[r], "succeeded") \in JobRow
      BY <2>12, <2>a, ClearLeaseType DEF CompleteRun, RunJobStatus, TerminalJob
    <3>3. /\ job' \in [Runs -> JobRow] /\ open' \in [Runs -> SUBSET Nat]
          /\ run' \in [Runs -> RunRow]
      BY <2>12, <2>a, <2>0, <3>1, <3>2 DEF CompleteRun
    <3> QED BY <2>12, <3>3, <1>2, <1>3 DEF CompleteRun, Failure
  <2>13. CASE FinishError(w)
    <3>1. task[w].outcome \in Failure
      BY <1>a DEF Task
    <3> QED BY <2>13, <2>5, <3>1, <1>2 DEF FinishError
  <2>14. CASE ClearControl(w)
    BY <2>14, <1>2 DEF ClearControl
  <2>15. CASE FinishFromRun(w)
    <3>1. ClearLease(job[r], JobStatusForRun(run[r].status)) \in JobRow
      BY <2>15, <2>a, ClearLeaseType, JobStatusForRunType DEF FinishFromRun, RunJobStatus
    <3>2. job' \in [Runs -> JobRow] /\ open' \in [Runs -> SUBSET Nat]
      BY <2>15, <2>a, <2>0, <3>1 DEF FinishFromRun
    <3> QED BY <2>15, <3>2 DEF FinishFromRun, Idle, Task, Failure
  <2>16. CASE Claim(w)
    <3> PICK q \in Runs : Claim(w)!2!(q)
      BY <2>16 DEF Claim
    <3>1. CASE run[q].status \in TERMINAL_RUN_STATUSES
      BY <2>16, <3>1, <1>a, JobStatusForRunType DEF Claim, JobRow, RunJobStatus
    <3>2. CASE run[q].status \notin TERMINAL_RUN_STATUSES
      <4>1. job[q].claims + 1 \in Nat
        BY <1>a DEF JobRow
      <4>2. job' \in [Runs -> JobRow]
        BY <2>16, <3>2, <1>a, NewLeaseType DEF Claim
      <4>3. open' \in [Runs -> SUBSET Nat]
        BY <2>16, <3>2, <4>1 DEF Claim
      <4>4. /\ task' \in [Workers -> Task]
            /\ \A v \in Workers : task'[v].pc \in LeasedPC => task'[v].run \in Runs
        <5> DEFINE n == job[q].claims + 1
                   t == [pc |-> "reserve", run |-> q, lease |-> n, outcome |-> "failed"]
        <5>1. task' = [task EXCEPT ![w] = t]
          BY <3>2
        <5>2. t \in Task /\ t.run \in Runs
          BY <4>1 DEF Task, Failure
        <5> HIDE DEF t
        <5> QED BY <5>1, <5>2
      <4> QED BY <2>16, <4>2, <4>3, <4>4 DEF Claim
    <3> QED BY <3>1, <3>2
  <2>17. CASE RecoverExpired(w)
    BY <2>17, RecoveredType DEF RecoverExpired
  <2>18. CASE Heartbeat(w)
    <3>1. [job[r] EXCEPT !.ttl = LeaseTicks] \in JobRow
      BY <2>18, <2>a, ConstantsAssumption DEF Heartbeat, JobRow
    <3>2. job' \in [Runs -> JobRow]
      BY <2>18, <2>a, <3>1 DEF Heartbeat
    <3> QED BY <2>18, <3>2 DEF Heartbeat
  <2>19. CASE Shutdown(w)
    BY <2>19, <1>2, <1>3 DEF Shutdown, Failure
  <2>20. CASE Crash(w) \/ Restart(w)
    BY <2>20 DEF Crash, Restart, Idle, Task, Failure
  <2> QED
    BY <1>4, <2>1, <2>2, <2>3, <2>4, <2>6, <2>7, <2>8, <2>9, <2>10, <2>11, <2>12, <2>13,
       <2>14, <2>15, <2>16, <2>17, <2>18, <2>19, <2>20 DEF WorkerNext, TaskStep
<1>5. CASE UNCHANGED vars
  BY <1>5 DEF vars
<1> QED BY <1>1, <1>4, <1>5 DEF Next

\* Every column keeps its declared range, and every task with a lease names a
\* run, in every reachable state of the durable execution.
THEOREM TypeCorrect == Spec => []TypeOK
<1>1. Init => TypeOK
  BY ConstantsAssumption
     DEF Init, TypeOK, AbsentRun, AbsentJob, Idle, RunRow, JobRow, Task, Stamp, RunStatus,
         RunJobStatus, ErrorCode, Failure, LeasedPC, HeartbeatPC, ExecutorPC
<1> QED BY <1>1, TypeStep, PTL DEF Spec

-----------------------------------------------------------------------------
(* The inductive invariant *)

\* What the rows of r say of each other: the lease column follows the status,
\* a started execution is recorded and its job is never claimable again.
RowInv(r) ==
  /\ Agree(r)
  /\ Ledger(r)
  /\ job[r].lease = IF job[r].status = "leased" THEN job[r].claims ELSE 0
  /\ job[r].started = "set" => job[r].status \notin ClaimableJob \cup {"absent"}
  /\ executions[r] = IF job[r].started = "set" THEN 1 ELSE 0
  /\ run[r].answers = IF run[r].status = "completed" THEN 1 ELSE 0
  /\ run[r].status = "completed" => job[r].started = "set"
  /\ job[r].status = "absent" => job[r] = AbsentJob

IndInv == TypeOK /\ (\A r \in Runs : RowInv(r)) /\ LeaseFencing

\* The invariant contains what the runs check.
LEMMA IndInvImplies ==
  ASSUME IndInv
  PROVE  /\ AtMostOnceExecution
         /\ JobRunAgreement
         /\ AttemptLedger
         /\ OneAnswerPerCompletion
BY DEF IndInv, RowInv, AtMostOnceExecution, JobRunAgreement, AttemptLedger,
       OneAnswerPerCompletion, ClaimableJob

\* It holds initially.
LEMMA IndInvInit ==
  ASSUME Init
  PROVE  IndInv
<1>1. TypeOK
  BY ConstantsAssumption
     DEF Init, TypeOK, AbsentRun, AbsentJob, Idle, RunRow, JobRow, Task, Stamp, RunStatus,
         RunJobStatus, ErrorCode, Failure, LeasedPC, HeartbeatPC, ExecutorPC
<1>2. ASSUME NEW r \in Runs PROVE RowInv(r)
  BY ConstantsAssumption
     DEF Init, RowInv, Agree, Ledger, AbsentRun, AbsentJob, ClaimableJob, ACTIVE
<1>3. LeaseFencing
  BY DEF Init, LeaseFencing, Idle, LeasedPC, HeartbeatPC, ExecutorPC
<1> QED BY <1>1, <1>2, <1>3 DEF IndInv

\* Every step preserves what the rows of r say of each other.
LEMMA RowStep ==
  ASSUME IndInv, [Next]_vars, NEW r \in Runs
  PROVE  RowInv(r)'
<1> DEFINE Same == /\ run'[r] = run[r] /\ job'[r] = job[r]
                   /\ open'[r] = open[r] /\ executions'[r] = executions[r]
<1>a. /\ RowInv(r) /\ TypeOK
      /\ job[r] \in JobRow /\ run[r] \in RunRow
  BY DEF IndInv, TypeOK
<1>b. Same => RowInv(r)'
  BY <1>a DEF RowInv, Agree, Ledger
<1>c. job[r].claims \in Nat /\ job[r].failures \in Nat /\ job[r].yields \in Nat
  BY <1>a DEF JobRow
<1>d. job[r].status = "leased" =>
        run[r].status \in ACTIVE /\ run[r].status \notin TERMINAL_RUN_STATUSES
  BY <1>a DEF RowInv, Agree, ACTIVE, TERMINAL_RUN_STATUSES
<1> USE DEF ClaimableJob, ACTIVE
\* A lease of r that ends in a given terminal pair of statuses.
<1>e. ASSUME NEW s \in TerminalJob, job[r].status = "leased",
             job'[r] = ClearLease(job[r], s), open'[r] = open[r] \ {job[r].lease},
             executions'[r] = executions[r],
             \/ s = "failed" /\ run'[r].status \in {"failed", "timed_out"}
             \/ s = "cancelled" /\ run'[r].status = "cancelled",
             run'[r].answers = run[r].answers
      PROVE  RowInv(r)'
  <2>1. /\ job'[r].status = s /\ job'[r].lease = 0 /\ job'[r].claims = job[r].claims
        /\ job'[r].failures = job[r].failures /\ job'[r].yields = job[r].yields
        /\ job'[r].started = job[r].started
    BY <1>a, <1>e, ClearLeaseType DEF RunJobStatus
  <2> QED BY <2>1, <1>a, <1>c, <1>d, <1>e DEF RowInv, Agree, Ledger, TerminalJob
\* A lease of r that ends with a counted failure, as both callers do it.
<1>f. ASSUME job[r].status = "leased", open'[r] = open[r] \ {job[r].lease},
             executions'[r] = executions[r], NEW e \in ErrorCode,
             \/ /\ job[r].started = "null" /\ job[r].failures + 1 < MaxAttempts
                /\ job'[r] = CountFailure(job[r], "retry_wait")
                /\ run'[r] = ResetRunForRetry(run[r])
             \/ /\ job'[r] = CountFailure(job[r], "dead_letter")
                /\ run'[r] = FailRun(run[r], e)
      PROVE  RowInv(r)'
  <2>1. ASSUME NEW s \in RunJobStatus, job'[r] = CountFailure(job[r], s)
        PROVE  /\ job'[r].status = s /\ job'[r].lease = 0 /\ job'[r].claims = job[r].claims
               /\ job'[r].failures = job[r].failures + 1 /\ job'[r].yields = job[r].yields
               /\ job'[r].started = job[r].started
    <3> DEFINE k == CountFailure(job[r], s)
    <3>1. /\ k.status = s /\ k.lease = 0 /\ k.claims = job[r].claims
          /\ k.failures = job[r].failures + 1 /\ k.yields = job[r].yields
          /\ k.started = job[r].started
      BY <1>a, CountType
    <3> HIDE DEF k
    <3>2. job'[r] = k
      BY <2>1 DEF k
    <3> QED BY <3>1, <3>2
  <2>2. CASE /\ job[r].started = "null" /\ job[r].failures + 1 < MaxAttempts
             /\ job'[r] = CountFailure(job[r], "retry_wait")
             /\ run'[r] = ResetRunForRetry(run[r])
    <3>1. run'[r].status = "queued" /\ run'[r].answers = run[r].answers
      BY <2>2, <1>a, <1>d, <1>f, ResetRunType
    <3> QED BY <2>1, <2>2, <3>1, <1>a, <1>c, <1>f, ConstantsAssumption
            DEF RowInv, Agree, Ledger, RunJobStatus
  <2>3. CASE /\ job'[r] = CountFailure(job[r], "dead_letter")
             /\ run'[r] = FailRun(run[r], e)
    <3>1. run'[r].status = "failed" /\ run'[r].answers = run[r].answers
      BY <2>3, <1>a, <1>d, <1>f, FailRunType
    <3>2. /\ job'[r].status = "dead_letter" /\ job'[r].lease = 0
          /\ job'[r].claims = job[r].claims /\ job'[r].failures = job[r].failures + 1
          /\ job'[r].yields = job[r].yields /\ job'[r].started = job[r].started
      BY <2>1, <2>3 DEF RunJobStatus, TerminalJob
    <3> QED BY <3>1, <3>2, <1>a, <1>c, <1>d, <1>f, ConstantsAssumption DEF RowInv, Agree, Ledger
  <2> QED BY <1>f, <2>2, <2>3
<1>1. ASSUME NEW q \in Runs, ApiNext(q)
      PROVE  RowInv(r)'
  <2>1. CASE CreateRun(q)
    <3>1. CASE q = r
      <4>1. /\ job[r] = AbsentJob /\ run'[r].status = "queued" /\ run'[r].answers = 0
        BY <2>1, <3>1, <1>a DEF CreateRun, RowInv, Agree, TypeOK, RunRow
      <4>2. /\ job'[r].status = "queued" /\ job'[r].lease = 0 /\ job'[r].claims = 0
            /\ job'[r].failures = 0 /\ job'[r].yields = 0 /\ job'[r].started = "null"
            /\ open'[r] = open[r] /\ executions'[r] = executions[r]
        BY <2>1, <3>1, <4>1, <1>a DEF CreateRun, AbsentJob, TypeOK
      <4> QED BY <4>1, <4>2, <1>a, ConstantsAssumption DEF RowInv, Agree, Ledger, AbsentJob
    <3>2. CASE q # r
      BY <2>1, <3>2, <1>b DEF CreateRun
    <3> QED BY <3>1, <3>2
  <2>2. CASE RequestCancel(q)
    <3>1. run'[r].status = run[r].status /\ run'[r].answers = run[r].answers
      BY <2>2, <1>a DEF RequestCancel, TypeOK, RunRow
    <3> QED BY <2>2, <3>1, <1>a DEF RequestCancel, RowInv, Agree, Ledger
  <2>3. CASE CancelQueued(q)
    <3>1. CASE q = r /\ job[r].status \in ClaimableJob
      <4>1. run[r].status \in ACTIVE /\ run[r].status \notin TERMINAL_RUN_STATUSES
        BY <3>1, <1>a DEF RowInv, Agree, TERMINAL_RUN_STATUSES
      <4>2. /\ run'[r].status = "cancelled" /\ run'[r].answers = run[r].answers
            /\ job'[r].status = "cancelled" /\ job'[r].lease = job[r].lease
            /\ job'[r].claims = job[r].claims /\ job'[r].failures = job[r].failures
            /\ job'[r].yields = job[r].yields /\ job'[r].started = job[r].started
            /\ open'[r] = open[r] /\ executions'[r] = executions[r]
        BY <2>3, <3>1, <4>1, <1>a DEF CancelQueued, TypeOK, RunRow, JobRow
      <4> QED BY <3>1, <4>1, <4>2, <1>a, <1>c DEF RowInv, Agree, Ledger
    <3>2. CASE q # r
      BY <2>3, <3>2, <1>a, <1>b DEF CancelQueued, TypeOK
    <3>3. CASE q = r /\ job[r].status \notin ClaimableJob
      BY <2>3, <3>3, <1>b DEF CancelQueued
    <3> QED BY <3>1, <3>2, <3>3
  <2>4. CASE SetCancelFlag(q) \/ ApiCrash(q) \/ FlagExpires(q)
    BY <2>4, <1>b DEF SetCancelFlag, ApiCrash, FlagExpires
  <2>5. CASE Tick(q)
    <3>1. /\ job'[r].status = job[r].status /\ job'[r].lease = job[r].lease
          /\ job'[r].claims = job[r].claims /\ job'[r].failures = job[r].failures
          /\ job'[r].yields = job[r].yields /\ job'[r].started = job[r].started
      BY <2>5, <1>a DEF Tick, TypeOK, JobRow
    <3>2. job[r].status = "absent" => job'[r] = job[r]
      BY <2>5, <1>a DEF Tick, TypeOK
    <3> QED BY <2>5, <3>1, <3>2, <1>a DEF Tick, RowInv, Agree, Ledger
  <2> QED BY <1>1, <2>1, <2>2, <2>3, <2>4, <2>5 DEF ApiNext
<1>2. ASSUME NEW w \in Workers, WorkerNext(w)
      PROVE  RowInv(r)'
  <2> DEFINE q == task[w].run
  <2>a. task[w].pc \in LeasedPC => q \in Runs
    BY <1>a DEF TypeOK
  <2>b. LockedLease(w) => /\ job[q].status = "leased" /\ task[w].lease = job[q].lease
    BY DEF LockedLease
  <2>c. task[w].pc \in LeasedPC /\ FinishAttempt(q, task[w].lease) =>
          /\ q # r => open'[r] = open[r]
          /\ q = r => open'[r] = open[r] \ {task[w].lease}
    BY <1>a DEF FinishAttempt, TypeOK
  <2> USE DEF LeasedPC, HeartbeatPC, ExecutorPC
  <2>1. CASE \/ Reserve(w) \/ AcquireConcurrency(w) \/ Prepare(w) \/ AgentRun(w)
             \/ FinalCheck(w) \/ ClearControl(w) \/ Shutdown(w) \/ Crash(w) \/ Restart(w)
    BY <2>1, <1>b DEF Reserve, AcquireConcurrency, Prepare, AgentRun, FinalCheck,
                      ClearControl, Shutdown, Crash, Restart
  <2>2. CASE ReleaseForCapacity(w)
    <3>1. CASE q = r /\ LockedLease(w) /\ job[r].started = "null"
      <4>1. /\ job'[r] = CountYield(job[r]) /\ run'[r] = run[r]
            /\ open'[r] = open[r] \ {job[r].lease} /\ executions'[r] = executions[r]
        BY <2>2, <3>1, <2>a, <2>b, <2>c, <1>a DEF ReleaseForCapacity, TypeOK
      <4>2. /\ job'[r].status = "retry_wait" /\ job'[r].lease = 0
            /\ job'[r].claims = job[r].claims /\ job'[r].failures = job[r].failures
            /\ job'[r].yields = job[r].yields + 1 /\ job'[r].started = job[r].started
        BY <4>1, <1>a, CountType DEF RunJobStatus
      <4> QED BY <3>1, <2>b, <4>1, <4>2, <1>a, <1>c DEF RowInv, Agree, Ledger
    <3>2. CASE ~(q = r /\ LockedLease(w) /\ job[r].started = "null")
      BY <2>2, <3>2, <2>a, <2>c, <1>a, <1>b DEF ReleaseForCapacity, TypeOK
    <3> QED BY <3>1, <3>2
  <2>3. CASE ReleaseBeforeExecution(w)
    <3>1. CASE q = r /\ LockedLease(w) /\ job[r].started = "null"
      <4>1. /\ open'[r] = open[r] \ {job[r].lease} /\ executions'[r] = executions[r]
            /\ job[r].status = "leased"
        BY <2>3, <3>1, <2>a, <2>b, <2>c, <1>a DEF ReleaseBeforeExecution, TypeOK
      <4>2. \/ /\ job[r].failures + 1 < MaxAttempts
               /\ job'[r] = CountFailure(job[r], "retry_wait")
               /\ run'[r] = ResetRunForRetry(run[r])
            \/ /\ job'[r] = CountFailure(job[r], "dead_letter")
               /\ run'[r] = FailRun(run[r], "job_attempts_exhausted")
        BY <2>3, <3>1, <1>a, <1>c, ConstantsAssumption DEF ReleaseBeforeExecution, TypeOK
      <4> QED BY <3>1, <4>1, <4>2, <1>f DEF ErrorCode
    <3>2. CASE ~(q = r /\ LockedLease(w) /\ job[r].started = "null")
      BY <2>3, <3>2, <2>a, <2>c, <1>a, <1>b DEF ReleaseBeforeExecution, TypeOK
    <3> QED BY <3>1, <3>2
  <2>4. ASSUME NEW s \in Failure, task[w].pc \in LeasedPC, executions' = executions,
               FinishRunWithError(w, s) \/ UNCHANGED <<run, job, open>>
        PROVE  RowInv(r)'
    <3>1. CASE FinishRunWithError(w, s) /\ q = r
      <4> DEFINE e == IF s = "cancelled" THEN "cancelled" ELSE "execution_error"
                 t == IF s = "cancelled" THEN "cancelled" ELSE "failed"
      <4>1. /\ run'[r] = EndRun(run[r], s, e) /\ job'[r] = ClearLease(job[r], t)
            /\ open'[r] = open[r] \ {job[r].lease} /\ job[r].status = "leased"
        BY <2>4, <3>1, <2>a, <2>b, <2>c, <1>a DEF FinishRunWithError, TypeOK
      <4>2. run'[r].status = s /\ run'[r].answers = run[r].answers
        BY <4>1, <1>a, EndRunType DEF ErrorCode, Failure, TERMINAL_RUN_STATUSES
      <4> QED BY <2>4, <4>1, <4>2, <1>e DEF TerminalJob, Failure
    <3>2. CASE ~(FinishRunWithError(w, s) /\ q = r)
      BY <2>4, <3>2, <2>a, <2>c, <1>a, <1>b DEF FinishRunWithError, TypeOK
    <3> QED BY <3>1, <3>2
  <2>5. CASE RejectSubmission(w)
    BY <2>5, <2>4 DEF RejectSubmission, Failure
  <2>6. CASE FinishError(w)
    <3>1. task[w].outcome \in Failure
      BY <1>a DEF TypeOK, Task
    <3> QED BY <2>6, <2>4, <3>1 DEF FinishError
  <2>7. CASE ClaimRun(w)
    <3>1. CASE q = r /\ run'[r] # run[r]
      <4>1. /\ run[r].status = "queued" /\ run'[r].status = "running"
            /\ run'[r].answers = run[r].answers
        BY <2>7, <3>1, <2>a, <1>a DEF ClaimRun, TypeOK, RunRow
      <4> QED BY <2>7, <4>1, <1>a DEF ClaimRun, RowInv, Agree, Ledger
    <3>2. CASE ~(q = r /\ run'[r] # run[r])
      BY <2>7, <3>2, <2>a, <1>a, <1>b DEF ClaimRun, TypeOK
    <3> QED BY <3>1, <3>2
  <2>8. CASE MarkExecutionStarted(w)
    <3>1. CASE /\ q = r /\ LockedLease(w)
               /\ job' = [job EXCEPT ![r].started = "set"]
               /\ executions' = [executions EXCEPT ![r] = @ + 1]
      <4>1. job[r].started = "null"
        BY <2>8, <3>1, <2>b DEF MarkExecutionStarted, IndInv, LeaseFencing, BeforeStart
      <4>2. /\ job'[r].status = job[r].status /\ job'[r].lease = job[r].lease
            /\ job'[r].claims = job[r].claims /\ job'[r].failures = job[r].failures
            /\ job'[r].yields = job[r].yields /\ job'[r].started = "set"
            /\ job[r].status = "leased" /\ executions'[r] = executions[r] + 1
        BY <2>8, <3>1, <2>a, <2>b, <1>a DEF MarkExecutionStarted, TypeOK, JobRow
      <4> QED BY <2>8, <4>1, <4>2, <1>a, <1>d
              DEF MarkExecutionStarted, RowInv, Agree, Ledger, TERMINAL_RUN_STATUSES
    <3>2. CASE UNCHANGED <<job, executions>>
      BY <2>8, <3>2, <1>b DEF MarkExecutionStarted
    <3>3. CASE q # r
      BY <2>8, <3>3, <2>a, <1>a, <1>b DEF MarkExecutionStarted, TypeOK
    <3> QED BY <2>8, <3>1, <3>2, <3>3 DEF MarkExecutionStarted
  <2>9. CASE CompleteRun(w)
    <3>1. CASE /\ q = r /\ LockedLease(w) /\ job[r].started = "set"
               /\ run[r].status = "running"
               /\ run' = [run EXCEPT ![r] = Answered(@)]
               /\ job' = [job EXCEPT ![r] = ClearLease(@, "succeeded")]
               /\ FinishAttempt(r, task[w].lease)
      <4>1. /\ run'[r] = Answered(run[r]) /\ job'[r] = ClearLease(job[r], "succeeded")
            /\ open'[r] = open[r] \ {job[r].lease} /\ job[r].status = "leased"
            /\ executions'[r] = executions[r] /\ run[r].status = "running"
        BY <2>9, <3>1, <2>a, <2>b, <2>c, <1>a DEF CompleteRun, TypeOK
      <4>2. /\ job'[r].status = "succeeded" /\ job'[r].lease = 0
            /\ job'[r].claims = job[r].claims /\ job'[r].failures = job[r].failures
            /\ job'[r].yields = job[r].yields /\ job'[r].started = "set"
        BY <3>1, <4>1, <1>a, ClearLeaseType DEF RunJobStatus, TerminalJob
      <4>3. run'[r].status = "completed" /\ run'[r].answers = run[r].answers + 1
        BY <4>1, <1>a, AnsweredType
      <4> QED BY <3>1, <4>1, <4>2, <4>3, <1>a, <1>c DEF RowInv, Agree, Ledger
    <3>2. CASE UNCHANGED <<run, job, open>>
      BY <2>9, <3>2, <1>b DEF CompleteRun
    <3>3. CASE q # r
      <4>1. /\ run'[r] = run[r] /\ job'[r] = job[r] /\ executions'[r] = executions[r]
        BY <2>9, <3>3, <2>a, <1>a DEF CompleteRun, TypeOK
      <4>2. open'[r] = open[r]
        BY <2>9, <3>3, <2>a, <2>c, <1>a DEF CompleteRun
      <4> QED BY <4>1, <4>2, <1>b
    <3> QED BY <2>9, <3>1, <3>2, <3>3 DEF CompleteRun
  <2>10. CASE FinishFromRun(w)
    BY <2>10, <2>a, <2>b, <2>c, <1>a, <1>b, <1>d DEF FinishFromRun, TypeOK
  <2>11. CASE Claim(w)
    <3> PICK p \in Runs : Claim(w)!2!(p)
      BY <2>11 DEF Claim
    <3>1. CASE p = r
      <4>1. run[r].status \notin TERMINAL_RUN_STATUSES
        BY <3>1, <1>a DEF RowInv, Agree, TERMINAL_RUN_STATUSES
      <4>2. /\ job'[r] = NewLease(job[r]) /\ open'[r] = open[r] \cup {job[r].claims + 1}
            /\ run'[r] = run[r] /\ executions'[r] = executions[r]
        BY <2>11, <3>1, <4>1, <1>a DEF Claim, TypeOK
      <4>3. /\ job'[r].status = "leased" /\ job'[r].lease = job[r].claims + 1
            /\ job'[r].claims = job[r].claims + 1 /\ job'[r].failures = job[r].failures
            /\ job'[r].yields = job[r].yields /\ job'[r].started = job[r].started
        BY <4>2, <1>a, NewLeaseType
      <4> QED BY <3>1, <4>2, <4>3, <1>a, <1>c DEF RowInv, Agree, Ledger
    <3>2. CASE p # r
      BY <2>11, <3>2, <1>a, <1>b DEF Claim, TypeOK
    <3> QED BY <3>1, <3>2
  <2>12. CASE RecoverExpired(w)
    <3> PICK S \in SUBSET {p \in Runs : job[p].status = "leased" /\ job[p].ttl = 0} :
             RecoverExpired(w)!2!(S)
      BY <2>12 DEF RecoverExpired
    <3>1. CASE r \in S
      <4>1. /\ job'[r] = RecoveredJob(r) /\ run'[r] = RecoveredRun(r)
            /\ open'[r] = open[r] \ {job[r].lease} /\ job[r].status = "leased"
            /\ executions'[r] = executions[r]
        BY <2>12, <3>1 DEF RecoverExpired
      <4> QED BY <4>1, <1>d, <1>f DEF RecoveredJob, RecoveredRun, ErrorCode
    <3>2. CASE r \notin S
      BY <2>12, <3>2, <1>b DEF RecoverExpired
    <3> QED BY <3>1, <3>2
  <2>13. CASE Heartbeat(w)
    <3>1. /\ job'[r].status = job[r].status /\ job'[r].lease = job[r].lease
          /\ job'[r].claims = job[r].claims /\ job'[r].failures = job[r].failures
          /\ job'[r].yields = job[r].yields /\ job'[r].started = job[r].started
      BY <2>13, <2>a, <1>a DEF Heartbeat, TypeOK, JobRow
    <3>2. job[r].status = "absent" => job'[r] = job[r]
      BY <2>13, <2>a, <2>b, <1>a DEF Heartbeat, TypeOK
    <3> QED BY <2>13, <3>1, <3>2, <1>a DEF Heartbeat, RowInv, Agree, Ledger
  <2> QED
    BY <1>2, <2>1, <2>2, <2>3, <2>5, <2>6, <2>7, <2>8, <2>9, <2>10, <2>11, <2>12, <2>13
    DEF WorkerNext, TaskStep
<1>3. CASE UNCHANGED vars
  BY <1>3, <1>b DEF vars
<1> QED BY <1>1, <1>2, <1>3 DEF Next

\* A step that hands out no lease and starts no execution: the job row of q
\* keeps its lease or loses it, the task of v goes on under its old lease.
KeepsLease(q) == /\ job'[q].claims = job[q].claims
                 /\ job'[q].lease \in {job[q].lease, 0}
                 /\ job'[q].started = job[q].started
KeepsTask(v) == task'[v].pc \in LeasedPC =>
                  /\ task[v].pc \in LeasedPC
                  /\ task'[v].run = task[v].run
                  /\ task'[v].lease = task[v].lease
                  /\ task'[v].pc \in BeforeStart => task[v].pc \in BeforeStart

\* Steps of the API and of time leave tasks and leases alone.
LEMMA ApiKeeps ==
  ASSUME TypeOK, NEW q \in Runs, ApiNext(q), NEW r \in Runs
  PROVE  KeepsLease(r) /\ task' = task
<1>1. job \in [Runs -> JobRow]
  BY DEF TypeOK
<1>2. CASE CreateRun(q)
  BY <1>1, <1>2 DEF CreateRun, KeepsLease, JobRow
<1>3. CASE CancelQueued(q)
  BY <1>1, <1>3 DEF CancelQueued, KeepsLease, JobRow
<1>4. CASE Tick(q)
  BY <1>1, <1>4 DEF Tick, KeepsLease, JobRow
<1>5. CASE RequestCancel(q) \/ SetCancelFlag(q) \/ ApiCrash(q) \/ FlagExpires(q)
  BY <1>5 DEF RequestCancel, SetCancelFlag, ApiCrash, FlagExpires, KeepsLease
<1> QED BY <1>2, <1>3, <1>4, <1>5 DEF ApiNext

\* So do the steps of a worker other than claim and mark_execution_started,
\* except that they may end a lease.
LEMMA WorkerKeepsLease ==
  ASSUME TypeOK, NEW w \in Workers, WorkerNext(w), NEW r \in Runs
  PROVE  Claim(w) \/ MarkExecutionStarted(w) \/ KeepsLease(r)
<1> DEFINE q == task[w].run
<1>1. /\ job \in [Runs -> JobRow] /\ job[r] \in JobRow
      /\ task[w].pc \in LeasedPC => q \in Runs
  BY DEF TypeOK
<1>2. \A s \in RunJobStatus :
        /\ ClearLease(job[r], s).lease = 0 /\ ClearLease(job[r], s).claims = job[r].claims
        /\ ClearLease(job[r], s).started = job[r].started
        /\ CountFailure(job[r], s).lease = 0
        /\ CountFailure(job[r], s).claims = job[r].claims
        /\ CountFailure(job[r], s).started = job[r].started
  BY <1>1, ClearLeaseType, CountType
<1>3. /\ CountYield(job[r]).lease = 0 /\ CountYield(job[r]).claims = job[r].claims
      /\ CountYield(job[r]).started = job[r].started
  BY <1>1, CountType DEF RunJobStatus
<1>4. /\ {"retry_wait", "dead_letter", "succeeded", "cancelled", "failed"} \subseteq RunJobStatus
      /\ \A s : JobStatusForRun(s) \in RunJobStatus
  BY JobStatusForRunType DEF RunJobStatus, ClaimableJob, TerminalJob
<1>5. CASE job' = job
  BY <1>5 DEF KeepsLease
<1>6. ASSUME NEW p \in Runs, NEW s \in RunJobStatus,
             \/ job' = [job EXCEPT ![p] = ClearLease(@, s)]
             \/ job' = [job EXCEPT ![p] = CountFailure(@, s)]
             \/ job' = [job EXCEPT ![p] = CountYield(@)]
      PROVE  KeepsLease(r)
  <2>1. CASE p = r
    BY <2>1, <1>1, <1>2, <1>3, <1>6 DEF KeepsLease
  <2>2. CASE p # r
    BY <2>2, <1>1, <1>6 DEF KeepsLease
  <2> QED BY <2>1, <2>2
<1> USE DEF LeasedPC, HeartbeatPC, ExecutorPC
<1>7. CASE ReleaseForCapacity(w) \/ ReleaseBeforeExecution(w)
  BY <1>1, <1>4, <1>5, <1>6, <1>7 DEF ReleaseForCapacity, ReleaseBeforeExecution
<1>8. CASE FinishFromRun(w) \/ CompleteRun(w)
  BY <1>1, <1>4, <1>5, <1>6, <1>8 DEF FinishFromRun, CompleteRun
<1>9. CASE FinishError(w) \/ RejectSubmission(w)
  BY <1>1, <1>4, <1>5, <1>6, <1>9 DEF FinishError, RejectSubmission, FinishRunWithError
<1>10. CASE Heartbeat(w)
  BY <1>1, <1>10 DEF Heartbeat, KeepsLease, JobRow
<1>11. CASE RecoverExpired(w)
  <2>1. job'[r] \in {job[r], RecoveredJob(r)}
    BY <1>11 DEF RecoverExpired
  <2>2. CASE job'[r] = RecoveredJob(r)
    BY <2>2, <1>2, <1>4 DEF RecoveredJob, KeepsLease
  <2> QED BY <2>1, <2>2 DEF KeepsLease
<1>12. CASE \/ Reserve(w) \/ AcquireConcurrency(w) \/ Prepare(w) \/ AgentRun(w) \/ ClaimRun(w)
            \/ FinalCheck(w) \/ ClearControl(w) \/ Shutdown(w) \/ Crash(w) \/ Restart(w)
  BY <1>12, <1>5 DEF Reserve, AcquireConcurrency, Prepare, AgentRun, ClaimRun, FinalCheck,
                     ClearControl, Shutdown, Crash, Restart
<1> QED BY <1>7, <1>8, <1>9, <1>10, <1>11, <1>12 DEF WorkerNext, TaskStep

\* No step but claim gives a task a lease, and none takes a task back to a
\* phase before mark_execution_started.
LEMMA WorkerKeepsTask ==
  ASSUME TypeOK, NEW w \in Workers, WorkerNext(w), NEW v \in Workers
  PROVE  Claim(w) \/ KeepsTask(v)
<1>1. task \in [Workers -> Task]
  BY DEF TypeOK
<1>2. CASE task' = task
  BY <1>2 DEF KeepsTask
<1>3. ASSUME NEW pc, Goto(w, pc), task[w].pc \in LeasedPC,
             pc \in BeforeStart => task[w].pc \in BeforeStart
      PROVE  KeepsTask(v)
  BY <1>1, <1>3 DEF Goto, KeepsTask, Task
<1>4. ASSUME NEW status, Fail(w, status), task[w].pc \in LeasedPC
      PROVE  KeepsTask(v)
  BY <1>1, <1>4 DEF Fail, KeepsTask, Task, BeforeStart
<1> USE DEF LeasedPC, HeartbeatPC, ExecutorPC, BeforeStart
<1>5. CASE Reserve(w) \/ AcquireConcurrency(w) \/ ReleaseForCapacity(w)
  BY <1>5, <1>3 DEF Reserve, AcquireConcurrency, ReleaseForCapacity
<1>6. CASE ReleaseBeforeExecution(w) \/ RejectSubmission(w) \/ ClaimRun(w)
  BY <1>6, <1>3 DEF ReleaseBeforeExecution, RejectSubmission, ClaimRun
<1>7. CASE Prepare(w) \/ MarkExecutionStarted(w) \/ AgentRun(w)
  BY <1>7, <1>3, <1>4 DEF Prepare, MarkExecutionStarted, AgentRun
<1>8. CASE FinalCheck(w) \/ CompleteRun(w) \/ Shutdown(w)
  BY <1>8, <1>3, <1>4 DEF FinalCheck, CompleteRun, Shutdown
<1>9. CASE FinishError(w) \/ ClearControl(w)
  BY <1>9, <1>3 DEF FinishError, ClearControl
<1>10. CASE FinishFromRun(w) \/ Crash(w) \/ Restart(w)
  BY <1>10, <1>1 DEF FinishFromRun, Crash, Restart, KeepsTask, Idle
<1>11. CASE RecoverExpired(w) \/ Heartbeat(w)
  BY <1>11, <1>2 DEF RecoverExpired, Heartbeat
<1> QED BY <1>5, <1>6, <1>7, <1>8, <1>9, <1>10, <1>11 DEF WorkerNext, TaskStep

\* Every step preserves the fencing of leases.
LEMMA FencingStep ==
  ASSUME IndInv, [Next]_vars
  PROVE  LeaseFencing'
<1>a. /\ TypeOK /\ LeaseFencing /\ \A r \in Runs : RowInv(r)
      /\ task \in [Workers -> Task]
      /\ \A w \in Workers : task[w].pc \in LeasedPC => task[w].run \in Runs
      /\ \A r \in Runs : job[r] \in JobRow /\ job[r].claims \in Nat
      /\ \A w \in Workers : task[w].lease \in Nat
  BY DEF IndInv, TypeOK, JobRow, Task
<1>1. ASSUME \A r \in Runs : KeepsLease(r), \A v \in Workers : KeepsTask(v)
      PROVE  LeaseFencing'
  BY <1>1, <1>a DEF LeaseFencing, KeepsLease, KeepsTask
<1>2. ASSUME NEW q \in Runs, ApiNext(q)
      PROVE  LeaseFencing'
  BY <1>1, <1>2, <1>a, ApiKeeps DEF KeepsTask
<1>3. ASSUME NEW w \in Workers, Claim(w)
      PROVE  LeaseFencing'
  <2> PICK r \in Runs : Claim(w)!2!(r)
    BY <1>3 DEF Claim
  <2>1. job[r].status \in ClaimableJob /\ run[r].status \notin TERMINAL_RUN_STATUSES
    BY <1>a DEF RowInv, Agree, ACTIVE, ClaimableJob, TERMINAL_RUN_STATUSES
  <2> DEFINE n == job[r].claims + 1
  <2>2. /\ job' = [job EXCEPT ![r] = NewLease(@)]
        /\ task' = [task EXCEPT ![w] = [pc |-> "reserve", run |-> r, lease |-> n,
                                        outcome |-> "failed"]]
    BY <2>1
  <2>3. /\ job'[r].lease = n /\ job'[r].claims = n /\ job'[r].started = "null"
        /\ \A q \in Runs : q # r => job'[q] = job[q]
    <3>1. job[r].started = "null"
      BY <2>1, <1>a DEF RowInv, JobRow, Stamp
    <3>2. job'[r] = NewLease(job[r]) /\ \A q \in Runs : q # r => job'[q] = job[q]
      BY <2>2, <1>a DEF TypeOK
    <3> QED BY <3>1, <3>2, <1>a, NewLeaseType
  <2>4. /\ task'[w].run = r /\ task'[w].lease = n
        /\ \A v \in Workers : v # w => task'[v] = task[v]
    BY <2>2, <1>a
  <2>5. \A v \in Workers : task[v].pc \in LeasedPC /\ task[v].run = r =>
          task[v].lease >= 1 /\ task[v].lease < n
    BY <1>a DEF LeaseFencing
  <2>6. n \in Nat /\ n >= 1
    BY <1>a
  <2> QED
    <3> SUFFICES ASSUME NEW x \in Workers, task'[x].pc \in LeasedPC
                 PROVE  /\ task'[x].lease >= 1
                        /\ task'[x].lease <= job'[task'[x].run].claims
                        /\ \A v \in Workers :
                             /\ task'[v].pc \in LeasedPC
                             /\ task'[v].run = task'[x].run
                             /\ task'[v].lease = task'[x].lease
                             => v = x
                        /\ /\ task'[x].pc \in BeforeStart
                           /\ task'[x].lease = job'[task'[x].run].lease
                           => job'[task'[x].run].started = "null"
      BY DEF LeaseFencing
    <3> HIDE DEF n
    <3>1. CASE x = w
      BY <3>1, <2>3, <2>4, <2>5, <2>6, <1>a
    <3>2. CASE x # w /\ task[x].run = r
      BY <3>2, <2>3, <2>4, <2>5, <2>6, <1>a DEF LeaseFencing
    <3>3. CASE x # w /\ task[x].run # r
      BY <3>3, <2>3, <2>4, <2>6, <1>a DEF LeaseFencing
    <3> QED BY <3>1, <3>2, <3>3
<1>4. ASSUME NEW w \in Workers, MarkExecutionStarted(w)
      PROVE  LeaseFencing'
  <2> DEFINE r == task[w].run
  <2>1. \A v \in Workers : KeepsTask(v)
    <3>1. WorkerNext(w) /\ ~Claim(w)
      BY <1>4 DEF WorkerNext, TaskStep, MarkExecutionStarted, Claim
    <3> QED BY <3>1, <1>a, WorkerKeepsTask
  <2>2. r \in Runs /\ task[w].pc \in LeasedPC
    BY <1>4, <1>a DEF MarkExecutionStarted, LeasedPC, HeartbeatPC, ExecutorPC
  <2>3. CASE UNCHANGED job
    BY <2>1, <2>3, <1>1 DEF KeepsLease
  <2>4. CASE /\ LockedLease(w) /\ Goto(w, "model")
             /\ job' = [job EXCEPT ![r].started = "set"]
    <3>1. /\ \A q \in Runs : job'[q].claims = job[q].claims /\ job'[q].lease = job[q].lease
          /\ \A q \in Runs : q # r => job'[q].started = job[q].started
          /\ task[w].lease = job[r].lease
      BY <2>2, <2>4, <1>a DEF LockedLease, TypeOK, JobRow
    <3>2. task'[w].pc \notin BeforeStart
      BY <2>4, <1>a DEF Goto, BeforeStart, Task
    <3> QED BY <2>1, <2>2, <3>1, <3>2, <1>a DEF LeaseFencing, KeepsTask
  <2> QED BY <1>4, <2>3, <2>4 DEF MarkExecutionStarted
<1>5. ASSUME NEW w \in Workers, WorkerNext(w)
      PROVE  LeaseFencing'
  <2>1. CASE Claim(w) \/ MarkExecutionStarted(w)
    BY <2>1, <1>3, <1>4
  <2>2. CASE ~(Claim(w) \/ MarkExecutionStarted(w))
    BY <2>2, <1>1, <1>5, <1>a, WorkerKeepsLease, WorkerKeepsTask
  <2> QED BY <2>1, <2>2
<1>6. CASE UNCHANGED vars
  BY <1>6, <1>a DEF vars, LeaseFencing
<1> QED BY <1>2, <1>5, <1>6 DEF Next

\* The invariant is inductive.
LEMMA Invariance == Spec => []IndInv
<1>1. IndInv /\ [Next]_vars => IndInv'
  BY TypeStep, RowStep, FencingStep DEF IndInv
<1> QED BY <1>1, IndInvInit, PTL DEF Spec

-----------------------------------------------------------------------------
(* Safety theorems *)

\* The Agent of a run is started at most once, and a job that can still be
\* claimed never started: crashes, lost leases and retries by any number of
\* workers do not replay tool calls.
THEOREM ExecutionIsAtMostOnce == Spec => []AtMostOnceExecution
BY Invariance, IndInvImplies, PTL

\* A job and its run are live together and terminal together, with matching
\* outcomes.
THEOREM JobAndRunAgree == Spec => []JobRunAgreement
BY Invariance, IndInvImplies, PTL

\* Exactly the attempt of the current lease is open, and MaxAttempts bounds
\* the attempts that are not capacity waits.
THEOREM AttemptsAreAccounted == Spec => []AttemptLedger
BY Invariance, IndInvImplies, PTL

\* A run stores its answer exactly once, when and only when it completes.
THEOREM AnswerIsUnique == Spec => []OneAnswerPerCompletion
BY Invariance, IndInvImplies, PTL

\* A lease number has one holder, whose execution nobody else starts.
THEOREM LeasesAreFenced == Spec => []LeaseFencing
<1>1. IndInv => LeaseFencing
  BY DEF IndInv
<1> QED BY <1>1, Invariance, PTL

-----------------------------------------------------------------------------
(* Action properties *)

\* The invariant says that a row with a lease belongs to a live run.
LEMMA LeasedIsActive ==
  ASSUME IndInv, NEW r \in Runs
  PROVE  /\ job[r].status = "leased" => run[r].status \in ACTIVE
         /\ job[r].status \in ClaimableJob => run[r].status \in ACTIVE
         /\ job[r].status \in TerminalJob <=> run[r].status \in TERMINAL_RUN_STATUSES
         /\ run[r].status \in ACTIVE => run[r].status \notin TERMINAL_RUN_STATUSES \cup {"absent"}
<1>1. Agree(r) /\ job[r] \in JobRow /\ run[r] \in RunRow
  BY DEF IndInv, RowInv, TypeOK
<1> QED BY <1>1 DEF Agree, JobRow, RunRow, RunStatus, RunJobStatus, ACTIVE, ClaimableJob,
                    TerminalJob, TERMINAL_RUN_STATUSES

\* No step writes the rows of a terminal run, and only create_run writes
\* those of an absent one.
LEMMA EndedStep ==
  ASSUME IndInv, [Next]_vars, NEW r \in Runs, run[r].status \notin ACTIVE
  PROVE  CreateRun(r) \/ (run'[r] = run[r] /\ job'[r] = job[r])
<1>a. /\ TypeOK /\ run \in [Runs -> RunRow] /\ job \in [Runs -> JobRow]
      /\ job[r].status # "leased" /\ job[r].status \notin ClaimableJob
  BY LeasedIsActive DEF IndInv, TypeOK
<1>1. ASSUME NEW q \in Runs, ApiNext(q)
      PROVE  CreateRun(r) \/ (run'[r] = run[r] /\ job'[r] = job[r])
  <2>1. CASE q = r
    BY <1>1, <1>a, <2>1 DEF ApiNext, RequestCancel, CancelQueued, SetCancelFlag, ApiCrash,
                           FlagExpires, Tick
  <2>2. CASE q # r
    BY <1>1, <1>a, <2>2 DEF ApiNext, CreateRun, RequestCancel, CancelQueued, SetCancelFlag,
                           ApiCrash, FlagExpires, Tick
  <2> QED BY <2>1, <2>2
<1>2. ASSUME NEW w \in Workers, WorkerNext(w)
      PROVE  run'[r] = run[r] /\ job'[r] = job[r]
  <2>a. task[w].pc \in LeasedPC => task[w].run \in Runs
    BY <1>a DEF TypeOK
  <2>b. task[w].run = r => ~LockedLease(w)
    BY <1>a DEF LockedLease
  <2> USE DEF LeasedPC, HeartbeatPC, ExecutorPC
  <2>1. CASE ReleaseForCapacity(w) \/ ReleaseBeforeExecution(w) \/ FinishFromRun(w)
    BY <2>1, <2>a, <2>b, <1>a DEF ReleaseForCapacity, ReleaseBeforeExecution, FinishFromRun
  <2>2. CASE FinishError(w) \/ RejectSubmission(w)
    BY <2>2, <2>a, <2>b, <1>a DEF FinishError, RejectSubmission, FinishRunWithError
  <2>3. CASE CompleteRun(w) \/ MarkExecutionStarted(w) \/ Heartbeat(w)
    BY <2>3, <2>a, <2>b, <1>a DEF CompleteRun, MarkExecutionStarted, Heartbeat
  <2>4. CASE ClaimRun(w)
    BY <2>4, <2>a, <1>a DEF ClaimRun, ACTIVE
  <2>5. CASE Claim(w)
    <3> PICK p \in Runs : Claim(w)!2!(p)
      BY <2>5 DEF Claim
    <3>1. p # r
      BY <1>a
    <3> QED BY <2>5, <3>1, <1>a DEF Claim
  <2>6. CASE RecoverExpired(w)
    BY <2>6, <1>a DEF RecoverExpired
  <2>7. CASE \/ Reserve(w) \/ AcquireConcurrency(w) \/ Prepare(w) \/ AgentRun(w)
             \/ FinalCheck(w) \/ ClearControl(w) \/ Shutdown(w) \/ Crash(w) \/ Restart(w)
    BY <2>7 DEF Reserve, AcquireConcurrency, Prepare, AgentRun, FinalCheck, ClearControl,
                Shutdown, Crash, Restart
  <2> QED BY <1>2, <2>1, <2>2, <2>3, <2>4, <2>5, <2>6, <2>7 DEF WorkerNext, TaskStep
<1>3. CASE UNCHANGED vars
  BY <1>3 DEF vars
<1> QED BY <1>1, <1>2, <1>3 DEF Next

\* Terminal rows are final, whatever a late worker, recovery or cancellation
\* does.
THEOREM OutcomeIsFinal == Spec => TerminalIsFinal
<1>1. ASSUME IndInv, [Next]_vars, NEW r \in Runs
      PROVE  /\ run[r].status \in TERMINAL_RUN_STATUSES =>
                  run'[r].status = run[r].status /\ run'[r].error = run[r].error
                  /\ run'[r].answers = run[r].answers
             /\ job[r].status \in TerminalJob => job'[r] = job[r]
  <2>1. CASE run[r].status \in TERMINAL_RUN_STATUSES
    <3>1. run[r].status \notin ACTIVE /\ ~CreateRun(r)
      BY <2>1 DEF ACTIVE, TERMINAL_RUN_STATUSES, CreateRun
    <3> QED BY <1>1, <3>1, EndedStep
  <2>2. CASE run[r].status \notin TERMINAL_RUN_STATUSES
    BY <1>1, <2>2, LeasedIsActive
  <2> QED BY <2>1, <2>2
<1>2. IndInv /\ [Next]_vars =>
        [\A r \in Runs :
           /\ run[r].status \in TERMINAL_RUN_STATUSES =>
                /\ run'[r].status = run[r].status
                /\ run'[r].error = run[r].error
                /\ run'[r].answers = run[r].answers
           /\ job[r].status \in TerminalJob => job'[r] = job[r]]_vars
  BY <1>1
<1> QED BY <1>2, Invariance, PTL DEF Spec, TerminalIsFinal

\* A conversation never has two active runs.
THEOREM OneActiveRun == Spec => []OneActiveRunPerConversation
<1>1. Init => OneActiveRunPerConversation
  BY DEF Init, OneActiveRunPerConversation, AbsentRun, ACTIVE
<1>2. OneActiveRunPerConversation /\ IndInv /\ [Next]_vars => OneActiveRunPerConversation'
  <2> SUFFICES ASSUME OneActiveRunPerConversation, IndInv, [Next]_vars,
                      NEW r \in Runs, NEW s \in Runs,
                      ConversationOf[r] = ConversationOf[s],
                      run'[r].status \in ACTIVE, run'[s].status \in ACTIVE
               PROVE  r = s
    BY DEF OneActiveRunPerConversation
  <2>1. CASE CreateRun(r) \/ CreateRun(s)
    <3>1. run \in [Runs -> RunRow]
      BY DEF IndInv, TypeOK
    <3> QED BY <2>1, <3>1 DEF CreateRun, ACTIVE
  <2>2. CASE ~CreateRun(r) /\ ~CreateRun(s)
    BY <2>2, EndedStep DEF OneActiveRunPerConversation
  <2> QED BY <2>1, <2>2
<1> QED BY <1>1, <1>2, Invariance, PTL DEF Spec

\* The inductive form of QueuedRunHasNoStep.
NoStepYet(r) == run[r].status \in {"absent", "queued"} => run[r].step = "absent"

\* What any step may do to a run: it keeps the recorded cancellation, completes
\* the run only from a worker past its final check, and counts an execution
\* without touching the row.
LEMMA RunRowStep ==
  ASSUME TypeOK, [Next]_vars, NEW r \in Runs
  PROVE  /\ run[r].cancel = "set" => run'[r].cancel = "set"
         /\ run[r].status # "absent" => run'[r].status # "absent"
         /\ NoStepYet(r) => NoStepYet(r)'
         /\ run'[r].status = "completed" /\ run[r].status # "completed" =>
              /\ \E w \in Workers : task[w].pc = "complete" /\ task[w].run = r
              /\ executions' = executions
         /\ executions'[r] # executions[r] =>
              executions'[r] = executions[r] + 1 /\ run' = run
<1> DEFINE Goal == /\ run[r].cancel = "set" => run'[r].cancel = "set"
                   /\ run[r].status # "absent" => run'[r].status # "absent"
                   /\ NoStepYet(r) => NoStepYet(r)'
                   /\ run'[r].status = "completed" /\ run[r].status # "completed" =>
                        /\ \E w \in Workers : task[w].pc = "complete" /\ task[w].run = r
                        /\ executions' = executions
                   /\ executions'[r] # executions[r] =>
                        executions'[r] = executions[r] + 1 /\ run' = run
<1>a. /\ run \in [Runs -> RunRow] /\ run[r] \in RunRow
      /\ executions \in [Runs -> Nat]
  BY DEF TypeOK
<1>b. run'[r] = run[r] /\ executions' = executions => Goal
  BY DEF NoStepYet
\* A run that ends otherwise than by completion, or goes back to queued.
<1>c. ASSUME NEW s \in Failure, NEW e \in ErrorCode, executions' = executions,
             run'[r] = EndRun(run[r], s, e)
      PROVE  Goal
  <2>1. run'[r].status = s /\ run'[r].cancel = run[r].cancel
    <3> DEFINE k == EndRun(run[r], s, e)
    <3>1. s \in TERMINAL_RUN_STATUSES
      BY <1>c DEF Failure, TERMINAL_RUN_STATUSES
    <3>2. k.status = s /\ k.cancel = run[r].cancel
      BY <1>a, <3>1, EndRunType
    <3> HIDE DEF k
    <3>3. run'[r] = k
      BY <1>c DEF k
    <3> QED BY <3>2, <3>3
  <2> QED BY <1>c, <2>1 DEF Failure, NoStepYet
<1>d. ASSUME NEW e \in ErrorCode, executions' = executions,
             \/ run'[r] = FailRun(run[r], e)
             \/ run'[r] = ResetRunForRetry(run[r])
      PROVE  Goal
  <2>1. CASE run'[r] = FailRun(run[r], e)
    BY <2>1, <1>b, <1>c, <1>d DEF FailRun, Failure
  <2>2. CASE run'[r] = ResetRunForRetry(run[r])
    <3>1. /\ run'[r].cancel = run[r].cancel
          /\ \/ run'[r] = run[r]
             \/ run'[r].status = "queued" /\ run'[r].step = "absent"
      BY <2>2, <1>a, ResetRunType
    <3> QED BY <3>1, <1>d DEF NoStepYet
  <2> QED BY <1>d, <2>1, <2>2
<1>1. ASSUME NEW q \in Runs, ApiNext(q)
      PROVE  Goal
  <2>1. executions' = executions
    BY <1>1 DEF ApiNext, CreateRun, RequestCancel, CancelQueued, SetCancelFlag, ApiCrash,
                FlagExpires, Tick
  <2>2. CASE CreateRun(q) \/ RequestCancel(q) \/ CancelQueued(q)
    BY <2>1, <2>2, <1>a DEF CreateRun, RequestCancel, CancelQueued, RunRow, NoStepYet
  <2>3. CASE SetCancelFlag(q) \/ ApiCrash(q) \/ FlagExpires(q) \/ Tick(q)
    BY <2>1, <2>3, <1>b DEF SetCancelFlag, ApiCrash, FlagExpires, Tick
  <2> QED BY <1>1, <2>2, <2>3 DEF ApiNext
<1>2. ASSUME NEW w \in Workers, WorkerNext(w)
      PROVE  Goal
  <2> DEFINE q == task[w].run
  <2>a. task[w].pc \in LeasedPC => q \in Runs
    BY DEF TypeOK
  <2> USE DEF LeasedPC, HeartbeatPC, ExecutorPC
  <2>1. CASE \/ Reserve(w) \/ AcquireConcurrency(w) \/ Prepare(w) \/ AgentRun(w)
             \/ FinalCheck(w) \/ ClearControl(w) \/ Shutdown(w) \/ Crash(w) \/ Restart(w)
    BY <2>1, <1>b DEF Reserve, AcquireConcurrency, Prepare, AgentRun, FinalCheck,
                      ClearControl, Shutdown, Crash, Restart
  <2>2. CASE \/ ReleaseForCapacity(w) \/ FinishFromRun(w) \/ Claim(w) \/ Heartbeat(w)
    BY <2>2, <1>b DEF ReleaseForCapacity, FinishFromRun, Claim, Heartbeat
  <2>3. CASE ReleaseBeforeExecution(w)
    <3>1. /\ executions' = executions
          /\ \/ run'[r] = run[r]
             \/ run'[r] = FailRun(run[r], "job_attempts_exhausted")
             \/ run'[r] = ResetRunForRetry(run[r])
      BY <2>3, <2>a, <1>a DEF ReleaseBeforeExecution
    <3> QED BY <3>1, <1>b, <1>d DEF ErrorCode
  <2>4. ASSUME NEW s \in Failure, task[w].pc \in LeasedPC, executions' = executions,
               FinishRunWithError(w, s) \/ UNCHANGED <<run, job, open>>
        PROVE  Goal
    <3> DEFINE e == IF s = "cancelled" THEN "cancelled" ELSE "execution_error"
    <3>1. run'[r] = run[r] \/ run'[r] = EndRun(run[r], s, e)
      BY <2>4, <2>a, <1>a DEF FinishRunWithError
    <3>2. e \in ErrorCode
      BY DEF ErrorCode
    <3> QED BY <2>4, <3>1, <3>2, <1>b, <1>c
  <2>5. CASE RejectSubmission(w)
    BY <2>5, <2>4 DEF RejectSubmission, Failure
  <2>6. CASE FinishError(w)
    <3>1. task[w].outcome \in Failure
      BY DEF TypeOK, Task
    <3> QED BY <2>6, <2>4, <3>1 DEF FinishError
  <2>7. CASE ClaimRun(w)
    BY <2>7, <2>a, <1>a DEF ClaimRun, RunRow, NoStepYet
  <2>8. CASE MarkExecutionStarted(w)
    BY <2>8, <2>a, <1>a DEF MarkExecutionStarted, NoStepYet
  <2>9. CASE CompleteRun(w)
    <3>1. /\ task[w].pc = "complete" /\ executions' = executions
          /\ run'[r] = run[r] \/ (q = r /\ run'[r] = Answered(run[r]))
      BY <2>9, <2>a, <1>a DEF CompleteRun
    <3>2. Answered(run[r]).cancel = run[r].cancel /\ Answered(run[r]).status = "completed"
      BY <1>a, AnsweredType
    <3> QED BY <3>1, <3>2, <1>b DEF NoStepYet
  <2>10. CASE RecoverExpired(w)
    <3>1. executions' = executions /\ run'[r] \in {run[r], RecoveredRun(r)}
      BY <2>10 DEF RecoverExpired
    <3> QED BY <3>1, <1>b, <1>d DEF RecoveredRun, ErrorCode
  <2> QED BY <1>2, <2>1, <2>2, <2>3, <2>5, <2>6, <2>7, <2>8, <2>9, <2>10
          DEF WorkerNext, TaskStep
<1>3. CASE UNCHANGED vars
  BY <1>3, <1>b DEF vars
<1> QED BY <1>1, <1>2, <1>3 DEF Next

\* A worker reaches complete_run only through a final check that saw no
\* recorded cancellation.
LEMMA CompletingStep ==
  ASSUME TypeOK, [Next]_vars, NEW v \in Workers, NEW r \in Runs,
         run[r].cancel = "set", task'[v].pc = "complete", task'[v].run = r
  PROVE  task[v].pc = "complete" /\ task[v].run = r
<1>a. task \in [Workers -> Task]
  BY DEF TypeOK
<1>1. CASE task' = task
  BY <1>1
<1>2. ASSUME NEW q \in Runs, ApiNext(q) PROVE task' = task
  BY <1>2, ApiKeeps
<1>3. ASSUME NEW w \in Workers, WorkerNext(w)
      PROVE  task[v].pc = "complete" /\ task[v].run = r
  <2>1. ASSUME NEW pc, Goto(w, pc), pc # "complete"
        PROVE  task[v].pc = "complete" /\ task[v].run = r
    BY <2>1, <1>a DEF Goto, Task
  <2>2. ASSUME NEW status, Fail(w, status)
        PROVE  task[v].pc = "complete" /\ task[v].run = r
    BY <2>2, <1>a DEF Fail, Task
  <2>3. CASE \/ Reserve(w) \/ AcquireConcurrency(w) \/ ReleaseForCapacity(w)
             \/ ReleaseBeforeExecution(w) \/ RejectSubmission(w) \/ ClaimRun(w)
    BY <2>3, <2>1 DEF Reserve, AcquireConcurrency, ReleaseForCapacity, ReleaseBeforeExecution,
                      RejectSubmission, ClaimRun
  <2>4. CASE Prepare(w) \/ MarkExecutionStarted(w) \/ AgentRun(w) \/ CompleteRun(w)
    BY <2>4, <2>1, <2>2 DEF Prepare, MarkExecutionStarted, AgentRun, CompleteRun
  <2>5. CASE FinishError(w) \/ ClearControl(w) \/ Shutdown(w)
    BY <2>5, <2>1, <2>2 DEF FinishError, ClearControl, Shutdown
  <2>6. CASE FinalCheck(w)
    <3>1. CASE Goto(w, "complete") /\ ~IsCancelRequested(task[w].run)
      BY <3>1, <1>a DEF Goto, IsCancelRequested, Task
    <3> QED BY <2>6, <3>1, <2>2 DEF FinalCheck
  <2>7. CASE Claim(w)
    BY <2>7, <1>a DEF Claim
  <2>8. CASE FinishFromRun(w) \/ Crash(w) \/ Restart(w)
    BY <2>8, <1>a DEF FinishFromRun, Crash, Restart, Idle
  <2>9. CASE RecoverExpired(w) \/ Heartbeat(w)
    BY <2>9, <1>1 DEF RecoverExpired, Heartbeat
  <2> QED BY <1>3, <2>3, <2>4, <2>5, <2>6, <2>7, <2>8, <2>9 DEF WorkerNext, TaskStep
<1>4. CASE UNCHANGED vars
  BY <1>4 DEF vars
<1> QED BY <1>1, <1>2, <1>3, <1>4 DEF Next

\* A recorded cancellation that no worker can have missed stays effective.
THEOREM CancellationIsKept == Spec => CancellationHolds
<1>1. ASSUME TypeOK, [Next]_vars, NEW r \in Runs, CancelEffective(r)
      PROVE  CancelEffective(r)'
  BY <1>1, RunRowStep, CompletingStep DEF CancelEffective
<1>2. TypeOK /\ [Next]_vars =>
        [\A r \in Runs : CancelEffective(r) => CancelEffective(r)']_vars
  BY <1>1
<1> QED BY <1>2, TypeCorrect, PTL DEF Spec, CancellationHolds

\* A retried run has no step row left that would make claim_run fail.
THEOREM RetriedRunHasNoStep == Spec => []QueuedRunHasNoStep
<1> DEFINE I == \A r \in Runs : NoStepYet(r)
<1>1. Init => I
  BY DEF Init, AbsentRun, NoStepYet
<1>2. I /\ TypeOK /\ [Next]_vars => I'
  BY RunRowStep
<1>3. I => QueuedRunHasNoStep
  BY DEF NoStepYet, QueuedRunHasNoStep
<1> HIDE DEF I
<1> QED BY <1>1, <1>2, <1>3, TypeCorrect, PTL DEF Spec

-----------------------------------------------------------------------------
(* Refinement *)

\* Every step moves a run along the lifecycle or not at all.
LEMMA PhaseStep ==
  ASSUME IndInv, IndInv', [Next]_vars, NEW r \in Runs
  PROVE  Lifecycle!Moves(PhaseOf(r), executions[r], PhaseOf(r)', executions'[r])
<1>1. /\ run[r].status \in RunStatus \cup {"absent"}
      /\ run'[r].status \in RunStatus \cup {"absent"}
  BY DEF IndInv, TypeOK, RunRow
<1>2. /\ executions[r] \in {0, 1} /\ executions'[r] \in {0, 1}
      /\ run'[r].status = "completed" => executions'[r] = 1
      /\ run[r].status = "absent" => executions[r] = 0
      /\ executions[r] # executions'[r] => run[r].status \in ACTIVE
  <2>1. job[r].status = "absent" => job[r].started = "null"
    BY DEF IndInv, RowInv, AbsentJob
  <2>2. executions[r] \in {0, 1} /\ executions'[r] \in {0, 1}
    BY DEF IndInv, RowInv
  <2>3. run'[r].status = "completed" => executions'[r] = 1
    BY DEF IndInv, RowInv
  <2>4. run[r].status = "absent" => executions[r] = 0
    BY <2>1 DEF IndInv, RowInv, Agree
  <2>5. executions[r] # executions'[r] => run[r].status \in ACTIVE
    <3>1. CASE run[r].status \notin ACTIVE /\ job'[r] = job[r]
      BY <3>1 DEF IndInv, RowInv
    <3>2. CASE run[r].status \notin ACTIVE /\ CreateRun(r)
      BY <3>2 DEF CreateRun
    <3> QED BY <3>1, <3>2, EndedStep
  <2> QED BY <2>2, <2>3, <2>4, <2>5
<1>3. /\ run[r].status # "absent" => run'[r].status # "absent"
      /\ run'[r].status = "completed" /\ run[r].status # "completed" => executions' = executions
      /\ executions'[r] # executions[r] =>
              executions'[r] = executions[r] + 1 /\ run' = run
  BY RunRowStep DEF IndInv
<1>4. run[r].status \notin ACTIVE => CreateRun(r) \/ run'[r] = run[r]
  BY EndedStep
<1>5. CreateRun(r) => run[r].status = "absent" /\ run'[r].status = "queued"
                      /\ executions' = executions
  BY DEF CreateRun, IndInv, TypeOK, RunRow
<1> QED
  BY <1>1, <1>2, <1>3, <1>4, <1>5
  DEF PhaseOf, RunStatus, ACTIVE, TERMINAL_RUN_STATUSES, Lifecycle!Ended, Lifecycle!Moves,
      Lifecycle!Create, Lifecycle!Begin, Lifecycle!EndEarly, Lifecycle!End

\* The durable machinery implements the run lifecycle: leases, retries,
\* recovery and races never replay an execution or change an outcome.
THEOREM Refinement == Spec => ImplementsLifecycle
<1>1. Init => Lifecycle!Init
  BY DEF Init, Lifecycle!Init, PhaseOf, AbsentRun, ACTIVE
<1>2. IndInv /\ IndInv' /\ [Next]_vars =>
        [Lifecycle!Next]_<<[r \in Runs |-> PhaseOf(r)], executions>>
  BY PhaseStep DEF Lifecycle!Next
<1> QED BY <1>1, <1>2, Invariance, PTL DEF Spec, ImplementsLifecycle, Lifecycle!Spec

=============================================================================
