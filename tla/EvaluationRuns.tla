--------------------------- MODULE EvaluationRuns ---------------------------
(***************************************************************************)
(* A dataset with its draft and versions, evaluation policies, evaluation  *)
(* runs and the in-process executor: an API process commits a run,         *)
(* submits it to its own executor, and a task claims it, runs the cases of *)
(* the suite and stores a verdict.  Processes crash, shut down and start   *)
(* again; several may share the database.                                  *)
(*                                                                         *)
(* One action is one transaction of EvaluationService with the executor    *)
(* code up to the next await; the transaction may fail.  A request with a  *)
(* stale If-Match revision, or a repeated idempotency key, changes nothing *)
(* and is not an action.                                                   *)
(***************************************************************************)
EXTENDS Integers, Sequences, FiniteSets

CONSTANTS
  Agents,
  Versions,      \* numbers an AgentVersion may have
  Suites,        \* contents a draft may have, within max_cases_per_dataset
  CasesOf,       \* the cases of each suite
  Thresholds,    \* records [num, den, critical]: min_pass_rate = num/den
  EvalRuns,
  Processes,     \* API processes with an EvaluationExecutor
  Capacity,      \* max_concurrent_runs
  Tools,
  MaxEdits,      \* bound on revisions of the dataset draft
  MaxRevision,   \* bound on policy revisions
  MaxFaults      \* bound on transactions that fail and recoveries that skip a row

\* EvaluationCaseSpec: severity, expects_denial, requires_citation and
\* expected_tools; a denial case cannot require a Citation.
EvaluationCaseSpec ==
  {c \in [critical : BOOLEAN, denial : BOOLEAN, citation : BOOLEAN, tools : SUBSET Tools] :
     ~(c.denial /\ c.citation)}

\* A suite has at least one case.  The key of a case is its position.
EvaluationSuite == Seq(EvaluationCaseSpec) \ {<<>>}

\* The sets of ids and contents that runs are about are not empty.
ASSUME EvaluationAssumption ==
  /\ Agents # {} /\ Suites # {} /\ Thresholds # {}
  /\ Versions \subseteq Nat
  /\ Thresholds \subseteq [num : Nat, den : Nat \ {0}, critical : Nat]
  /\ CasesOf \in [Suites -> EvaluationSuite]
  /\ Capacity \in Nat \ {0}
  /\ MaxEdits \in Nat
  /\ MaxRevision \in Nat
  /\ MaxFaults \in Nat

VARIABLES
  dataset,  \* EvaluationDataset with its draft (revision 0: no row) and versions
  policy,   \* policy[a]: AgentEvaluationPolicy; revision 0 before the first
  row,      \* row[r]: EvaluationRun with its EvaluationCaseResults
  up,       \* up[p]: "up", "closing" or "down"
  task,     \* task[p][r]: the request and then the asyncio task of p for r
  faults,   \* transactions that failed and recoveries that skipped a row so far
  claims    \* history: how often r was claimed

evalVars == <<dataset, policy, row, up, task, faults, claims>>

Ended == {"completed", "failed", "cancelled"}

\* The policy digest covers every field of the policy and its revision, so the
\* record itself stands for the digest that runs and releases carry; suite is
\* the number of a dataset version.
PolicyRecord == [revision : Nat, suite : Nat, threshold : Thresholds,
                 enabled : BOOLEAN]

NoPolicy == [revision |-> 0, suite |-> 0,
             threshold |-> CHOOSE t \in Thresholds : TRUE, enabled |-> FALSE]

NoRow == [status |-> "absent", agent |-> CHOOSE a \in Agents : TRUE,
          version |-> 0, policy |-> NoPolicy, cancel |-> FALSE,
          passed |-> FALSE, results |-> <<>>]

\* The EvaluationCaseResults of a run, in the order of its cases: passed or not.
CaseResults == Seq(BOOLEAN)

NoTask == [pc |-> "none", outcomes |-> <<>>]

\* Inside the semaphore of the executor.
InCapacity == {"loading", "checking", "case", "completing",
               "cancelling", "failing", "stopping"}

\* Inside the try block of _execute.
InTry == {"loading", "checking", "case", "completing"}

DatasetRow == [revision : 0..MaxEdits, draft : Suites, versions : Seq(Suites)]

\* Variant with a bug: the cases are read from the draft.
CasesInDraft(pol) == CasesOf[dataset.draft]

\* load_suite: the cases of the dataset version that a policy names.
CasesUnder(pol) == CasesOf[dataset.versions[pol.suite]]

TypeOK ==
  /\ dataset \in DatasetRow
  /\ policy \in [Agents -> PolicyRecord]
  /\ row \in [EvalRuns -> [status : Ended \cup {"absent", "queued", "running"},
                           agent : Agents, version : Versions \cup {0},
                           policy : PolicyRecord, cancel : BOOLEAN,
                           passed : BOOLEAN, results : CaseResults]]
  /\ up \in [Processes -> {"up", "closing", "down"}]
  /\ task \in [Processes -> [EvalRuns ->
                 [pc : InCapacity \cup {"none", "submitting", "waiting"},
                  outcomes : Seq(BOOLEAN)]]]
  /\ \A p \in Processes :
       Cardinality({r \in EvalRuns : task[p][r].pc \in InCapacity}) <= Capacity
  /\ faults \in 0..MaxFaults
  /\ claims \in [EvalRuns -> Nat]

InitEvaluations ==
  /\ dataset = [revision |-> 0, draft |-> CHOOSE s \in Suites : TRUE,
                versions |-> <<>>]
  /\ policy = [a \in Agents |-> NoPolicy]
  /\ row = [r \in EvalRuns |-> NoRow]
  /\ up = [p \in Processes |-> "up"]
  /\ task = [p \in Processes |-> [r \in EvalRuns |-> NoTask]]
  /\ faults = 0
  /\ claims = [r \in EvalRuns |-> 0]

SetTask(p, r, pc, outcomes) ==
  task' = [task EXCEPT ![p][r] = [pc |-> pc, outcomes |-> outcomes]]

Leave(p, r) == task' = [task EXCEPT ![p][r] = NoTask]

-----------------------------------------------------------------------------
(* EvaluationService *)

CreateDataset(s) ==
  /\ dataset.revision = 0
  /\ MaxEdits > 0
  /\ dataset' = [dataset EXCEPT !.revision = 1, !.draft = s]
  /\ UNCHANGED <<policy, row, up, task, faults, claims>>

\* update_draft
UpdateDatasetDraft(s) ==
  /\ dataset.revision \in 1..(MaxEdits - 1)
  /\ dataset' = [dataset EXCEPT !.revision = @ + 1, !.draft = s]
  /\ UNCHANGED <<policy, row, up, task, faults, claims>>

\* The draft becomes the next version unless it is what the latest one holds.
CreateDatasetVersion ==
  /\ dataset.revision > 0
  /\ dataset.versions # <<>> =>
       dataset.versions[Len(dataset.versions)] # dataset.draft
  /\ dataset' = [dataset EXCEPT !.versions = Append(@, dataset.draft)]
  /\ UNCHANGED <<policy, row, up, task, faults, claims>>

UpsertPolicy(a, s, t, enabled) ==
  /\ s \in DOMAIN dataset.versions
  /\ policy[a].revision < MaxRevision
  /\ policy' = [policy EXCEPT ![a] =
                  [revision |-> @.revision + 1, suite |-> s, threshold |-> t,
                   enabled |-> enabled]]
  /\ UNCHANGED <<dataset, row, up, task, faults, claims>>

\* The row that create_run of the service commits.
NewRun(a, v) == [NoRow EXCEPT !.status = "queued", !.agent = a, !.version = v,
                              !.policy = policy[a]]

\* The API commits the row, then submits it.
CreateRun(p, r, a, v) ==
  /\ up[p] = "up"
  /\ row[r].status = "absent"
  /\ policy[a].enabled
  /\ row' = [row EXCEPT ![r] = NewRun(a, v)]
  /\ SetTask(p, r, "submitting", <<>>)
  /\ UNCHANGED <<dataset, policy, up, faults, claims>>

RequestCancel(r) ==
  /\ \E p \in Processes : up[p] = "up"
  /\ row[r].status \in {"queued", "running"}
  /\ row' = [row EXCEPT ![r].cancel = TRUE,
                        ![r].status = IF @ = "queued" THEN "cancelled" ELSE @]
  /\ UNCHANGED <<dataset, policy, up, task, faults, claims>>

\* Variant with a bug: whatever the row says, it is marked failed.
FailAlways(r) == [row EXCEPT ![r].status = "failed"]

FailRun(r) ==
  IF row[r].status \in {"queued", "running"}
    THEN [row EXCEPT ![r].status = "failed"]
    ELSE row

\* Variant with a bug: a second task claims a running row again.
ClaimableAgain(r) == row[r].status \in {"queued", "running"} /\ ~row[r].cancel

Claimable(r) == row[r].status = "queued" /\ ~row[r].cancel

ClaimRun(r) ==
  CASE Claimable(r) -> [row EXCEPT ![r].status = "running"]
    [] row[r].status = "queued" /\ row[r].cancel -> [row EXCEPT ![r].status = "cancelled"]
    [] OTHER -> row

\* complete_run: what the outcomes are worth under the policy of the run.
Passed(outcomes) == Cardinality({i \in DOMAIN outcomes : outcomes[i]})

CriticalFailures(pol, outcomes) ==
  Cardinality({i \in DOMAIN outcomes :
                 ~outcomes[i] /\ CasesUnder(pol)[i].critical})

GatePassed(pol, outcomes) ==
  /\ Passed(outcomes) * pol.threshold.den
       >= pol.threshold.num * Len(outcomes)
  /\ CriticalFailures(pol, outcomes) <= pol.threshold.critical

\* Variant with a bug: complete_run does not look at the cancellation.
CompleteCancelled(r, outcomes) ==
  [row EXCEPT ![r].status = "completed",
              ![r].passed = GatePassed(row[r].policy, outcomes),
              ![r].results = outcomes]

CompleteRun(r, outcomes) ==
  IF row[r].cancel
    THEN [row EXCEPT ![r].status = "cancelled"]
    ELSE [row EXCEPT ![r].status = "completed",
                     ![r].passed = GatePassed(row[r].policy, outcomes),
                     ![r].results = outcomes]

\* assess_release: what evaluation e (or NoEvaluation) says for a release.
AssessRelease(a, v, e) ==
  LET run == row[e]
  IN IF ~policy[a].enabled THEN "not_configured"
     ELSE IF e \notin EvalRuns THEN "missing"
     ELSE IF \/ run.status = "absent"
             \/ run.agent # a
             \/ run.version # v
             \/ run.policy.suite # policy[a].suite THEN "invalid"
     ELSE IF run.policy # policy[a] THEN "stale"
     ELSE IF run.status # "completed" THEN "incomplete"
     ELSE IF run.passed THEN "passed" ELSE "failed"

-----------------------------------------------------------------------------
(* EvaluationExecutor: submit, execute, _execute, close *)

Submit(p, r) ==
  /\ task[p][r].pc = "submitting"
  /\ \/ /\ up[p] = "up"
        /\ SetTask(p, r, "waiting", <<>>)
        /\ row' = row
     \/ /\ up[p] = "closing"
        /\ row' = FailRun(r)
        /\ Leave(p, r)
  /\ UNCHANGED <<dataset, policy, up, faults, claims>>

\* The semaphore of the executor has a permit left.
HasCapacity(p) ==
  Cardinality({q \in EvalRuns : task[p][q].pc \in InCapacity}) < Capacity

Claim(p, r) ==
  /\ task[p][r].pc = "waiting"
  /\ HasCapacity(p)
  /\ row' = ClaimRun(r)
  /\ IF Claimable(r)
       THEN /\ SetTask(p, r, "loading", <<>>)
            /\ claims' = [claims EXCEPT ![r] = @ + 1]
       ELSE /\ Leave(p, r)
            /\ UNCHANGED claims
  /\ UNCHANGED <<dataset, policy, up, faults>>

\* load_run_config and load_suite; either may find its row unusable.
Load(p, r) ==
  /\ task[p][r].pc = "loading"
  /\ \E pc \in {"checking", "failing"} : SetTask(p, r, pc, <<>>)
  /\ UNCHANGED <<dataset, policy, row, up, faults, claims>>

\* is_cancel_requested
CancelRequested(r) == row[r].cancel

CheckCancel(p, r) ==
  LET outcomes == task[p][r].outcomes
  IN /\ task[p][r].pc = "checking"
     /\ SetTask(p, r,
          IF Len(outcomes) = Len(CasesUnder(row[r].policy)) THEN "completing"
          ELSE IF CancelRequested(r) THEN "cancelling"
          ELSE "case",
          outcomes)
     /\ UNCHANGED <<dataset, policy, row, up, faults, claims>>

\* What the Agent may do with a case: an error or limit, a denial after some
\* tool calls, or an answer with no, whole or partial citations.
Observations ==
  [kind : {"error", "denied"}, tools : SUBSET Tools, cites : {"none"}]
    \cup [kind : {"answer"}, tools : SUBSET Tools,
          cites : {"none", "whole", "partial"}]

CasePasses(case, seen) ==
  IF case.denial
    THEN seen.kind = "denied" /\ seen.tools = case.tools
    ELSE /\ seen.kind = "answer"
         /\ seen.tools = case.tools
         /\ case.citation => seen.cites # "none"
         /\ seen.cites # "partial"

ExecuteCase(p, r) ==
  LET outcomes == task[p][r].outcomes
      case     == CasesUnder(row[r].policy)[Len(outcomes) + 1]
  IN /\ task[p][r].pc = "case"
     /\ \E seen \in Observations :
          SetTask(p, r, "checking", Append(outcomes, CasePasses(case, seen)))
     /\ UNCHANGED <<dataset, policy, row, up, faults, claims>>

Complete(p, r) ==
  /\ task[p][r].pc = "completing"
  /\ IF row[r].status # "running"
       THEN SetTask(p, r, "failing", <<>>) /\ row' = row
       ELSE row' = CompleteRun(r, task[p][r].outcomes) /\ Leave(p, r)
  /\ UNCHANGED <<dataset, policy, up, faults, claims>>

\* mark_cancelled
MarkCancelled(p, r) ==
  /\ task[p][r].pc = "cancelling"
  /\ row' = IF row[r].status \in {"queued", "running"}
              THEN [row EXCEPT ![r].status = "cancelled", ![r].cancel = TRUE]
              ELSE row
  /\ Leave(p, r)
  /\ UNCHANGED <<dataset, policy, up, faults, claims>>

\* The handlers of CancelledError and of any other exception.
Fail(p, r) ==
  /\ task[p][r].pc \in {"failing", "stopping"}
  /\ row' = FailRun(r)
  /\ Leave(p, r)
  /\ UNCHANGED <<dataset, policy, up, faults, claims>>

\* A transaction of the task fails: the database is out of reach, before the
\* commit or after it.
Fault(p, r, pcs) ==
  /\ task[p][r].pc \in pcs
  /\ faults < MaxFaults
  /\ faults' = faults + 1
  /\ UNCHANGED <<dataset, policy, up>>

\* claim_run raises outside the try block, or skips the row because a request
\* has locked it: the task ends, and the claim may have been committed.
ClaimFails(p, r) ==
  /\ Fault(p, r, {"waiting"})
  /\ HasCapacity(p)
  /\ Leave(p, r)
  /\ \/ UNCHANGED <<row, claims>>
     \/ /\ Claimable(r)
        /\ row' = ClaimRun(r)
        /\ claims' = [claims EXCEPT ![r] = @ + 1]

\* In the try block a failure leads to the handler; complete_run may have been
\* committed.
BodyFails(p, r) ==
  /\ Fault(p, r, {"checking", "completing"})
  /\ SetTask(p, r, "failing", <<>>)
  /\ \/ UNCHANGED row
     \/ /\ task[p][r].pc = "completing" /\ row[r].status = "running"
        /\ row' = CompleteRun(r, task[p][r].outcomes)
  /\ UNCHANGED claims

\* The commit of create_run is not heard of, so nothing is submitted, or the
\* transaction of a handler fails: the row stays as it is.
HandlerFails(p, r) ==
  /\ Fault(p, r, {"submitting", "cancelling", "failing", "stopping"})
  /\ Leave(p, r)
  /\ UNCHANGED <<row, claims>>

\* A task that is cancelled in its try block still fails its run; one that is
\* waiting, or already in a handler, or between the commit of claim_run and
\* its return, just ends.
Close(p) ==
  /\ up[p] = "up"
  /\ \E lost \in SUBSET {r \in EvalRuns : task[p][r].pc = "loading"} :
       task' = [task EXCEPT ![p] = [r \in EvalRuns |->
                  CASE @[r].pc \in InTry /\ r \notin lost ->
                         [pc |-> "stopping", outcomes |-> <<>>]
                    [] @[r].pc = "submitting" -> @[r]
                    [] OTHER -> NoTask]]
  /\ up' = [up EXCEPT ![p] = "closing"]
  /\ UNCHANGED <<dataset, policy, row, faults, claims>>

Stopped(p) ==
  /\ up[p] = "closing"
  /\ \A r \in EvalRuns : task[p][r] = NoTask
  /\ up' = [up EXCEPT ![p] = "down"]
  /\ UNCHANGED <<dataset, policy, row, task, faults, claims>>

Crash(p) ==
  /\ up[p] # "down"
  /\ task' = [task EXCEPT ![p] = [r \in EvalRuns |-> NoTask]]
  /\ up' = [up EXCEPT ![p] = "down"]
  /\ UNCHANGED <<dataset, policy, row, faults, claims>>

\* Variant with a bug: start-up takes up the queued runs only.
RecoverQueuedOnly(skipped) == row

\* recover_incomplete_runs skips the rows that another transaction has locked.
Recover(skipped) ==
  [r \in EvalRuns |-> IF row[r].status = "running" /\ r \notin skipped
                        THEN [row[r] EXCEPT !.status = "failed"]
                        ELSE row[r]]

\* AppServices.start: interrupted runs fail, queued ones are submitted again.
Boot(p, skipped) ==
  /\ up[p] = "down"
  /\ up' = [up EXCEPT ![p] = "up"]
  /\ row' = Recover(skipped)
  /\ task' = [task EXCEPT ![p] = [r \in EvalRuns |->
                IF row[r].status = "queued"
                  THEN [pc |-> "waiting", outcomes |-> <<>>] ELSE NoTask]]
  /\ UNCHANGED <<dataset, policy, claims>>

Start(p) == Boot(p, {}) /\ UNCHANGED faults

\* A request to another process, such as request_cancel, has locked running rows.
StartSkipping(p) ==
  /\ \E q \in Processes : up[q] # "down"
  /\ faults < MaxFaults
  /\ faults' = faults + 1
  /\ \E skipped \in SUBSET {r \in EvalRuns : row[r].status = "running"} :
       skipped # {} /\ Boot(p, skipped)

-----------------------------------------------------------------------------

TaskStep(p, r) ==
  \/ Submit(p, r)
  \/ Claim(p, r)
  \/ Load(p, r)
  \/ CheckCancel(p, r)
  \/ ExecuteCase(p, r)
  \/ Complete(p, r)
  \/ MarkCancelled(p, r)
  \/ Fail(p, r)

TaskFails(p, r) == ClaimFails(p, r) \/ BodyFails(p, r) \/ HandlerFails(p, r)

EditDataset ==
  \/ \E s \in Suites : CreateDataset(s)
  \/ \E s \in Suites : UpdateDatasetDraft(s)
  \/ CreateDatasetVersion

NextEvaluations ==
  \/ EditDataset
  \/ \E a \in Agents, s \in DOMAIN dataset.versions, t \in Thresholds, b \in BOOLEAN :
       UpsertPolicy(a, s, t, b)
  \/ \E p \in Processes, r \in EvalRuns, a \in Agents, v \in Versions :
       CreateRun(p, r, a, v)
  \/ \E r \in EvalRuns : RequestCancel(r)
  \/ \E p \in Processes, r \in EvalRuns : TaskStep(p, r)
  \/ \E p \in Processes, r \in EvalRuns : TaskFails(p, r)
  \/ \E p \in Processes : Close(p)
  \/ \E p \in Processes : Stopped(p)
  \/ \E p \in Processes : Crash(p)
  \/ \E p \in Processes : Start(p)
  \/ \E p \in Processes : StartSkipping(p)

\* asyncio runs every task that can go on, the service manager starts a process
\* again after it stopped, and processes are not always stopped before a run
\* that waits is claimed.
EvaluationFairness ==
  /\ \A p \in Processes, r \in EvalRuns : WF_evalVars(TaskStep(p, r))
  /\ \A p \in Processes : WF_evalVars(Start(p)) /\ WF_evalVars(Stopped(p))
  /\ \A r \in EvalRuns : SF_evalVars(\E p \in Processes : Claim(p, r))

EvaluationSpec == InitEvaluations /\ [][NextEvaluations]_evalVars

FairEvaluationSpec == EvaluationSpec /\ EvaluationFairness

-----------------------------------------------------------------------------
(* Properties *)

\* A run is claimed at most once, however many processes submit it: its Agent
\* never runs the suite twice (claim_run).
ClaimedOnce == \A r \in EvalRuns : claims[r] <= 1

\* A verdict is stored with the result of every case of the dataset version that
\* the run was created for, whatever the draft and later versions hold by then,
\* counted right, and by no run that ended in another way (load_suite,
\* complete_run, fail_run, mark_cancelled, recovery).
VerdictFromAllCases ==
  \A r \in EvalRuns :
    LET cases == CasesOf[dataset.versions[row[r].policy.suite]]
        out   == row[r].results
    IN IF row[r].status = "completed"
         THEN /\ Len(out) = Len(cases)
              /\ row[r].passed <=>
                   LET bad  == {i \in DOMAIN cases : ~out[i]}
                       t    == row[r].policy.threshold
                   IN /\ Cardinality(bad) * t.den <= (t.den - t.num) * Len(cases)
                      /\ Cardinality({i \in bad : cases[i].critical}) <= t.critical
         ELSE out = <<>> /\ ~row[r].passed

\* A run whose cancellation was requested gets no verdict, although the task
\* that executes it reads the request only between two cases (request_cancel).
CancelledHasNoVerdict ==
  \A r \in EvalRuns : row[r].cancel => row[r].status # "completed"

\* A run that ended keeps its status, verdict and results, whatever tasks of
\* other processes, late handlers or a start-up still do to it.
EndIsFinal ==
  [][\A r \in EvalRuns : row[r].status \in Ended => row'[r] = row[r]]_evalVars

\* Every run that was created ends, across crashes, shutdowns and lost tasks.  A
\* failed transaction may leave it queued or running with no task, and a recovery
\* may skip it: then it ends as long as processes are started now and then.
EveryRunEnds ==
  []<><<\E p \in Processes : Start(p)>>_evalVars \/ [](faults = 0) =>
    \A r \in EvalRuns : row[r].status = "queued" ~> row[r].status \in Ended
=============================================================================
