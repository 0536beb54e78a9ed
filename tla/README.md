# Verification of the AIAgent platform in TLA+

The repository is a multi-tenant Agent platform: an HTTP API accepts messages,
turns each into a *run*, and executes runs with a language model and MCP tools,
either in the API process (embedded) or in separate workers that lease durable
jobs from the database (external worker). Around it stand quotas in Redis, a
control plane that versions and releases Agents behind an evaluation gate,
connections to external systems with OAuth tokens in a vault, an MCP gateway,
and identity with sessions, roles and audit.

This directory models the parts of that program whose correctness depends on
the order of steps of several actors, checks them with TLC on small instances
and proves the most important properties with TLAPS for all instances.
`PROJECT.json` lists components, runs, findings, hazards, theorems and, under
`map`, the source lines behind every definition.

## Inventory

| Component | State it keeps | Operations | What is hard | What makes it correct |
| --- | --- | --- | --- | --- |
| Run jobs (`runs/jobs.py`) | `run_jobs`, `run_job_attempts` | claim, heartbeat, release, recover, cancel, finish | lost leases, late workers, crashes, batches | execution at most once, rows agree, attempts accounted, every run ends |
| Worker (`runs/worker.py`) | its tasks | loop of recover and claim, one task per lease, drain | shutdown and crash at any point | never acts on a lost lease |
| Executor (`runs/executor.py`) | embedded: its task table | prepare, start, Agent, settle, complete, error paths | cancellation and timeout races | one outcome per run |
| Conversations (`conversations/`) | runs, messages, steps, usage | create, cancel, claim, complete, fail, recover | idempotency, one active run, cancel against completion | terminal is final |
| Events and control (`runs/events.py`) | Redis stream and cancel key | publish, read, request_cancel | keys expire, streams are trimmed, calls are lost | neither cancellation nor the outcome a page is told depends on Redis |
| Web chat client (`web/src/api/sse.ts`, `views/ChatView.vue`) | answer and status on the page, last event id | follow, resume, show | broken connections, missing events | the answer in order, the true outcome |
| Quota (`governance/quota.py`) | counters, slots, rate window, reservation keys, switch | reserve, acquire, settle, rollback, abandon | retries share a reservation, non-atomic rollback, midnight | exact accounting, limits respected |
| Control plane (`agents/control.py`) | definitions, drafts, versions, deployments, releases | edit, freeze, publish, roll back | concurrent releases, replays | generation moves once per release |
| Evaluations (`evaluations/`) | datasets, policies, runs, case results | edit, run, recover, cancel, gate | recovery and cancellation against completion, stale gate | a release was really evaluated |
| Connections, vault, OAuth | connections, grants, credential versions | authorize, refresh, disconnect | refresh against disconnect, crash between vault and database | no live secret for a dead connection |
| MCP gateway and catalog (`mcp/`) | breaker, limiter, catalog cache | call, discover | half-open probe, stale catalog | limits and allowlists hold |
| Identity (`identity/`) | users, members, roles, sessions | login, roles, remove, sessions | last administrator, session against logout | an organization keeps an administrator |
| Single agent (`agents/single_agent.py`) | conversation and usage of one run | tool rounds under budgets | limits at boundaries | no call beyond a budget |
| Audit, observability, permission adapter, provider, CLI, configuration | rows or nothing | append, translate, wire | none of their own | written in the caller's transaction |

The components meet in the database (row locks order their transactions), in
Redis (scripts and keys) and through direct calls: the API creates a run and its
job in one transaction, a worker leases the job, reserves quota, and hands the
run to the executor, which ends run, job and attempt in one transaction. In
embedded mode the API process submits the run to its own executor instead, and a
process that starts takes up what others left. A page follows a run through an
event stream that the API reads from Redis, and from the row when Redis is silent.

## Modules and the code behind them

Each module's state is the database rows, Redis keys and process-local objects
of its component; an action is one transaction, one Redis script or one external
call, with the code up to the next point where another actor can step in. `MC*`
modules only give constants their values.

**`DurableJobs`** (external-worker mode). `run`, `job`, `open` are the tables
`runs` (with the step and the number of answers), `run_jobs` and the open
`run_job_attempts`; `task` holds where each worker task stands in
`RunWorker._execute` and `RunExecutor._execute`; `flag` is the Redis cancel key,
`api` the cancel handler. `Claim`, `RecoverExpired`, `Heartbeat`,
`ReleaseForCapacity`, `ReleaseBeforeExecution`, `MarkExecutionStarted`,
`FinishFromRun` are the transactions of `RunJobService`; `CreateRun`,
`RequestCancel`, `ClaimRun`, `CompleteRun`, `FinishError` those of
`ConversationService`; `Crash`, `Restart`, `Shutdown`, `ApiCrash`, `FlagExpires`
and `Tick` are the environment. A transaction is atomic because each locks the
job row first and then the run row; one that raises commits nothing, one whose
reply is lost is the commit followed by `Crash`. The lease token is drawn anew at
each claim, so the attempt number stands for owner and token. `available_at` is
abstracted (a claimable job may be claimed at any later time), and the two looks
at the cancel flag before the start are one. `cancel_queued` leaves a step that
says "running" behind in a cancelled run; nothing reads it. By `JobRunAgreement`
the branches of `claim`, `recover_expired` and `finish_from_run` for a job whose
run is already terminal are never taken.

**`RunLifecycle`** is what a caller is promised: a run is pending, executes at
most once and ends once. `DurableJobs` implements it with `phase` computed from
status and history; leases, retries and races are stuttering steps.

**`EmbeddedRuns`** (embedded mode). `status` and `cancel` are columns of `runs`
(`overdue` is a running row older than `stale_run_after_seconds`), `log` and `gone`
the event stream in Redis and how much of it was trimmed or expired, `handler` the
request that created the run, `task` the asyncio task of each process. `CreateRun`,
`Submit`, `RejectSubmission` are the request; `Execute`, `ClaimRun`, `Prepare`,
`OnDelta`, `AgentRun`, `CompleteRun`, `FinishError`, `TellOutcome` the task;
`Close`, `CancelTask`, `Exit`, `Start` the process, with the recovery that fails
stale runs and submits queued ones; `Publish`, `ClaimFails`, `RejectFails` and
`FinishFails` the failures of Redis and of transactions. Runs do not touch each
other here, so the semaphore only delays a task. The events that change nothing but
a label on the page are left out, and so is `skip_locked` of the recovery: a row
that another transaction holds is recovered by a later start.

**`RunStream`** EXTENDS it with the page: `Follow`, `Break` and `Resume` are
`followRun` and `streamRunEvents`, `Deliver`, `TimeOut` and `Check` the loop of
`_event_stream`. Which failure is the third is left open: a broken connection is
retried or given up. `BreakInside` is a stream that ends within the block of a delta:
`readEventStream` parses the rest of its buffer, so the id is kept as `lastEventId`
while the text, no JSON any more, is not shown, and the resumed stream skips it; `cut`
remembers where. A block cut before its data is ignored (that is `Break`); a terminal
event cut within its data still has its type and ends the stream (that is `Deliver` or
`Check`). `shown` holds the places in the log of the deltas on the page. It implements
`RunLifecycle`, too (`KeepsLifecycle`).

**`RunQuota`** models the Lua scripts and the three-call rollback of
`governance/quota.py` with the API requests and worker tasks that call them.
Tokens and cost are counted alike, so one counter per scope and day stands for
both. `Faults` selects three situations that are kept apart: `stall` (a task that
lost its lease goes on), `torn` (a crash between the rollback script and DEL),
`midnight` (the day changes between reserve and create_run). The expiry of
counters after their day is left out; a slot expires only after the execution it
was taken for, because the code takes it for max_run_seconds, the grace period
and a minute.

**`EvaluationRuns`**: a dataset with its draft and its immutable versions, policies
that name a version, evaluation runs with their case results, and the executor of
each API process with its semaphore and tasks. `Close` cancels tasks
at the await they stand at, so that one between the commit of `claim_run` and its
return is lost without failing its run; `Start` is the recovery of
`recover_incomplete_runs`, and `StartSkipping` one that finds running rows locked and
skips them. Transactions fail before or after their commit: `ClaimFails` (outside the
try block, so that the run stays queued or running without a task; `skip_locked` of
`claim_run` has the same effect), `BodyFails` (the handler follows) and `HandlerFails`
(`fail_run`, `mark_cancelled`, or a `create_run` whose commit was not heard of). A
request with a stale revision or a repeated idempotency key changes nothing and is no
action.

**`AgentControl`** EXTENDS it with Agents, drafts, versions, deployments and
releases. `LockAgent` is the row lock with every check it protects, `Commit` the
insert that the unique index may still refuse. The policy record stands for its
digest. The branch for a missing evaluation service is left out.

**`Connections`**: a user's personal connection and the organization's, the
reference rows, the vault and the pending authorizations. `kind` is the vault of the
deployment: HashiCorp's outlives every process and its `replace` writes
unconditionally (`Renew`); the in-memory vault is a dictionary of its process, which
`Restart` empties while every request dies. `Abandon` is the end of one request
between two calls. A commit may succeed without an answer (`Committed`): the `except
Exception` of the three operations that store a reference then withdraws the
reference it has stored. Two history variables name what these faults have done:
`lost` (secrets gone with a process or withdrawn like this) and `revived` (secrets
that a renewal wrote again after their deletion).

**`Membership`**: members and role rows at READ COMMITTED. A request reads, its
DELETE sees the rows committed when it starts, and a conflict on a primary or
foreign key rolls it back. Role rows are told apart by their code, so that a DELETE
that waited also removes a row that was removed and inserted again meanwhile, which
PostgreSQL would leave: the model has at most fewer roles than the database, which
`EveryMemberHasRole` can only suffer from.

**`AgentLoop`**: message selection, preflight and the rounds of `SingleAgent`. What
a request has used is what the provider reports, any pair of `Reports`; the history
variable `honest` says whether every report stayed within what was sent and allowed.
Prices are integers per token and sums exact, where the code has floats; the rounding
of the executor's cost to eight decimals is modelled (`ActualCost`, with `Grain` units
of cost in the eighth decimal), that of the float quotient in `_round_output_limit`
only as the smaller report or the failure it leads to. Citation rules and provider
errors are the action `Interrupt`.

**`McpGateway`**: one user, one server, one process, in-memory or Redis breaker
(`kind`); a call is made once. A deadline is folded into `Cancel`. An update may change
`max_concurrency`; the next call that has read it replaces the semaphore while others
hold or await the old one. `Report` may fail in Redis, where a success then counts as a
failure.

## Runs

| Run | Instance | What it shows |
| --- | --- | --- |
| `jobs_safety` | one run, two workers, three attempts, leases of two ticks, one capacity wait | at most one execution, rows that agree, exact attempt ledger, fencing, final outcomes, kept cancellations, refinement of `RunLifecycle`, and `RunTerminates` |
| `quota_accounting` | two runs of a user, two clients, two days, no faults | counters equal what the runs owe, budgets and slots are respected |
| `quota_stale_worker` (violated) | the same with `stall`, one day | a stale worker's rollback makes counters fall below the settled usage |
| `evaluation_runs` | two processes, one run, a dataset of one or two cases with two draft revisions and versions, two policy revisions, two failed transactions or skipped rows, any number of crashes, shutdowns and starts | one claim, verdicts from all cases of the version the run was made for, no verdict after a cancellation, ends are final, every run ends |
| `embedded_stream` | one run, two processes, two deltas, a stream of two events, one fault, any number of crashes, drains, reconnections and streams that end inside an event | the page is told the outcome of the row and shows the answer in order, with gaps only where an event was dropped or cut, the lifecycle is kept, run and stream end |
| `control_gate` | one Agent, two versions, two requests, one evaluation, two policy revisions, three releases | releases form a history and rest on evidence under the policy in force |
| `connections_credentials` | one personal and two organization rows, three references, one authorization, two requests, both vaults, restarts, commits without an answer | no request takes the secret of an active connection, an unused secret is scheduled for revocation, except through the named faults |
| `connections_disconnect` (violated) | the same | a refresh makes a disconnected connection active again |
| `membership_concurrent` | three users, two requests | no member is left without a role |
| `membership_race` (violated) | the same | two concurrent requests leave no administrator |
| `agent_limits` | histories of up to three messages of sizes 1 to 4, three rounds, two calls per round, reports of 0 to 8 input and 0 to 4 output tokens | the selection is the longest that fits, overruns are bounded and fatal, tool calls are bounded |
| `gateway_calls` | two calls, two configurations with limits 1 and 2, one rotation, both breakers | each semaphore keeps its limit while updates replace it, allowlists hold, every call ends |

**Bounds.** The hard cases need two actors: a late and a new worker, a refresh
and a disconnect, two administrators, a release and a policy update. Two of each
are enough for every mutant listed in `PROJECT.json`, and the numbers beside them
are the smallest at which limits bite (an evaluation run is one actor: what happens to
it is the work of two processes, and two runs meet only in the semaphore of an
executor, whose bound is proved): three attempts give a first, a middle and
a last one; leases of two ticks let a heartbeat come in time or late; three
releases allow a rollback; two days put midnight between reservation and
settlement; the organization's budget of three refuses a second reservation of two
until the first run turns out cheap; a stream of two events is trimmed when two
deltas and the outcome are published; one fault is a lost event or a failed
transaction, and the crashes beside it are unbounded; two faults in `evaluation_runs`
let a transaction fail and the recovery skip the row it left; limits 1 and 2 are both
raised and lowered under a waiting and a holding call; reports reach above every limit,
and a `Grain` of 2 makes the rounded cost differ from the exact one. Policy changes
beside a release are left to `control_gate`. The theorems below remove the bounds for what they state. The
idempotency key of a release is in `AgentControl`, but the instance has none (`Keys`
is empty). `MaxYields`, `MaxEdits`, `MaxDeltas`, `MaxFaults`,
`MaxRevision`, `MaxDrafts`, `MaxReleases`,
`MaxVersion`, `MaxRotations` and `LastDay` cap counters in guards. Deadlock
checking is off where the system may stop, which it does when all its work has ended
and the bounds are used up; `agent_limits` and
`embedded_stream` check it.

**Fairness.** `jobs_safety`: time passes; the tasks of each worker go on or
crash, because every call has a timeout; one worker, `Survivor`, is restarted by
its supervisor and keeps polling (`run_forever`). The other workers may stay down,
heartbeats and API calls need not happen, and capacity is refused at most
`MaxYields` times, since slots expire. `evaluation_runs`: asyncio runs each task
that can go on, and the service manager starts a stopped process again; `Claim` is
strongly fair, because a process is not stopped each time just before a waiting task
claims its run. A run that a failed transaction left without a task is only taken up by
a start, so `EveryRunEnds` has infinitely many starts as a premise, or no fault at all.
`embedded_stream`: tasks, requests and streams that are not killed go on, and time
passes. `Execute` and `ClaimRun` are strongly fair: every holder of a permit ends
within `max_run_seconds`, and a process is not killed each time just before a waiting
task claims its run. No restart is assumed; `EveryRunEnds` has it as a premise instead,
because in this mode a run that lost its task is only taken up by a start.
`gateway_calls`: the event loop runs each task, and the call itself is under
`asyncio.timeout`. The environment (crashes, updates, cancellation) is never fair.

## Proofs

`DurableJobsProofs` proves, for any number of runs, workers, conversations and
attempts, from `ConstantsAssumption` alone (positive `MaxAttempts` and
`LeaseTicks`, `ConversationOf` a function): type correctness,
`AtMostOnceExecution`, `JobRunAgreement`, `AttemptLedger`,
`OneAnswerPerCompletion`, `LeaseFencing`, `QueuedRunHasNoStep`,
`OneActiveRunPerConversation`, the action properties `TerminalIsFinal` and
`CancellationHolds`, and the refinement `Spec => ImplementsLifecycle`.

The argument is one inductive invariant, `IndInv`: `TypeOK`, `RowInv` for each
run and `LeaseFencing`. At-most-once is not inductive by itself. A task that is
about to start the Agent must be known to be the only one that may: `LeaseFencing`
says that a lease number has one holder and that the current holder, while it has
not started, finds `execution_started_at` null; `RowInv` ties the start column to
the history variable and keeps a started job out of the claimable states, which is
what `recover_expired` guarantees; the ledger makes lease numbers grow with each
claim, so that an old holder's number can never come back. Each action has its own
step, split by the conjuncts it disturbs. The action properties and the refinement
follow from the invariant and lemmas that say how a step may change one row.

`RunStreamProofs` proves, for any number of runs and processes, from
`EmbeddedAssumption` alone: type correctness, `StreamTellsOutcome`, `AnswerInOrder`
and the refinement `Spec => KeepsLifecycle`. For the outcome, `OutcomeInv` says that
a terminal event in the log names the status of the row, and that whoever is about to
publish one (a task after its commit, a request after its refusal) has that status:
this holds because a terminal row never changes and `finish_run_with_error` reports
whether it was the one that ended the run. For the answer, `AnswerInv` adds that the
places on the page are bounded by the cursor and the cursor by the log; the lemma
`CutMoves` is the stream that ends inside a block.

`MembershipProofs` proves type correctness (a user has no second member row, a removed
row no roles) and `EveryMemberHasRole` for any number of users and concurrent
requests. `MemberInv` adds that a request about to write roles names a non-empty set
of them.

`McpGatewayProofs` proves type correctness and `CallIsAllowed` for any number of calls,
tools, configurations and rotations, and both breakers. `GatewayInv` adds that two
calls that carry the same server version carry the same server, and that an entry of
the catalog holds only what the server version and the scopes of its key allow: a
catalog that was computed under an old configuration and stored late sits under an old
key. A second layer, `PermitsKept`, is about the semaphores: the free permits of each and
the calls at the server through it add up to the limit that every call through it has
read, for any limits and any number of replaced semaphores, and until the first update
there is one. `ConcurrencyIsRespected` follows from it. It speaks of each semaphore,
because the sum over a replaced one and its successor has no such bound (see below).

`ConnectionsProofs` proves type correctness, `ActiveHasSecret` and
`RevocationIsRemembered` for any number of requests, rows and references, both vaults
and all faults. A request that calls `revoke` acts on what it took out of the database
some steps before. `ConnInv` says why this spares every active connection: a request
owns the secret it has stored until the commit, no two requests own the same, a
reference belongs to one row, and what is being revoked was given up for good. The one
request that owns a committed reference is the one that did not hear of its commit, and
that reference is in `lost`.

`AgentControlProofs` has two parts. For `EvaluationRuns`, any number of processes, runs,
stops and failing transactions: type correctness (with the bound of the semaphore), `ClaimedOnce`, `CancelledHasNoVerdict`,
`VerdictFromAllCases` and the action property `EndIsFinal`, from `EvalInv`, in which a
task is tied to its row by the number of outcomes it has counted and a suite stays what
it was because versions are only appended. `ControlImplementsEvaluations` shows that
`AgentControl` implements the evaluation module, so these results hold of the
composition. For the control plane: `ControlTypeOK`, `ReleaseHasEvidence`,
`ReleasesFormHistory` and the action property `PolicyInForce`, for any number of
concurrent requests and every gate mode. A release reads under the lock of its Agent and
commits a step later; `AdmissionHolds`, in `ControlInv`, says that everything it checked
still holds then, since a policy update and every other release of the Agent need the
same lock, and a finished evaluation never changes.

`RunQuotaProofs` proves, for every finite set of runs and any number of clients, scopes
and days: type correctness and `BudgetRespected` under every fault, `SlotsRespected` when
no task goes on after it has lost its lease (`"stall" \notin Faults`), and `BudgetExact`
without faults. The hypotheses are those under which TLC finds the properties true.
`OwnersInv` has one layer for each of them: a run starts once whatever happens; without
stalls one client works on a run; without midnight and torn rollbacks a client knows the
day and the key of its run. On top of it each step changes at most what one run owes and
the counters of that run's scopes by the same amount.

`AgentLoopProofs` proves, for every conversation, all limits, prices, sizes and numbers
of rounds: type correctness (in particular, no tool outside the catalog is called),
`SelectionIsLongest`, `OverrunBounded`, `OverrunIsFatal` and `CallsBounded`. Before the
Agent starts, the argument is about the fold of `_bounded_messages`: a loop invariant
over the positions of the conversation, with the partial sums of the sizes. Afterwards
`AgentInv` carries the check before the only request (`GraphFits`), and that the usage
without the last report is within the limits, which is what `_check_actual_usage` sees
to after each round. The lemma `OutputLimit` says that a request that
`_round_output_limit` admits stays within all three limits together with the output it
may produce; with an honest provider the part of the request that the estimate leaves
out is then all that can exceed them.

**Induction over data.** Two results rest on what a fold computes for every input, the
sums of `RunQuota` and the selection of `AgentLoop`. The induction theorems of the
library take a predicate as a parameter, which the provers cannot instantiate. The
lemmas `Induction` and `SubsetInduction` state induction for *sets* of numbers and of
subsets instead (least counterexample, from `WFMin`), and the existence of the function
that `SumFunction` and `FoldRight` choose is proved from them. The models were arranged
for this: sums are `SumFunction`, `Total` and `Take` are operators of their own and
`BoundedMessages` is a `FoldRight`.

**Assumptions** are the named `ASSUME`s of the modules, which TLC evaluates in every run:
ranges of the limits, and that the sets of Agents, suites, thresholds, configurations and
runs are not empty (of runs, also that the set is finite, as a database table is).
The sets of the environment are as wide as the code allows: a report is any pair of
natural numbers, a limit any positive one, the vault and the breaker either kind. Extra
hypotheses (`Faults`) stand in the theorems of `RunQuota` that need them.

**Only model-checked** is liveness (`RunTerminates`, `EveryRunEnds` of both modes,
`EveryStreamEnds`, `EveryCallEnds`), which the prover does not cover. Every invariant,
every action property and every refinement of a passing run has a theorem. The type
invariants of `DurableJobs`, `RunQuota`, `EvaluationRuns`, `RunStream`, `Membership` and
`McpGateway` are proved and not repeated by TLC.

## Disagreements between code and documents

Three have a run and are listed under `findings`: a stale worker's rollback of a
shared reservation, a refresh that undoes a disconnect, and the race for the last
administrator. Others were met while modelling:

* `recover_expired` reports `worker_lost_during_execution` for a job whose
  attempts are used up although its Agent never started (`runs/jobs.py:279`), where
  `release_before_execution` says `job_attempts_exhausted`.
* `runs disable` "closes new Runs" (`docs/operations.md:96`), but the script tests
  the switch before the reservation key, so a worker ends runs accepted earlier.
* A worker that renews an expired token writes it back under a reference that was
  revoked meanwhile, when the vault is HashiCorp's (`credentials/vault.py:160`), which
  `docs/p5-validation.md:17` requires in production; `docs/operations.md:172` asks that
  the old reference is refused after a rotation ("轮换后验证旧引用返回 404/拒绝"). Without
  `revived`, TLC refutes `RevocationIsRemembered` with this vault in 11 states; with it,
  run and proof show that there is no other way back.
* A commit that succeeds while its answer is lost is taken for a failure: the handler
  `_revoke_uncommitted_reference` then deletes the secret of a connection that is now
  active (`connections/service.py:210`, 393, 641). Without `lost`, TLC refutes
  `ActiveHasSecret` in 6 states. The user has to authorize again.
* `uq_external_connections_owner` contains `owner_user_id`, NULL for organization
  connections, so two concurrent first requests insert two rows; the model has
  both (`OrgRows`).
* A changed `max_concurrency` replaces the semaphore while the old one is held
  (`mcp/gateway.py:193`), so that more calls may be at the server than the old or the new
  limit allows, where `docs/p2-validation.md:53` promises concurrency control.
  `ConcurrencyRespected` therefore bounds the calls through each semaphore, and all calls
  only until the first update.
* `readEventStream` takes what is left when the stream ends for a whole event
  (`web/src/api/sse.ts:75`), so that a delta cut within its data is missing on the page
  (`cut` in `AnswerInOrder`) until the run ends and `synchronizeRun` reads the stored
  answer.
* The "deliberately conservative" token estimate leaves out tool definitions and
  earlier tool calls; `OverrunBounded` therefore allows `Uncounted` tokens.

Two were met in the web client and in embedded mode, outside what is modelled:

* `openConversation` reads the conversation and its latest run by two concurrent
  requests (`web/src/views/ChatView.vue:109`). A run that completes between the two
  reads is shown neither as active nor with its answer, where the plan says that a
  reload restores the conversation and the final state of the run
  (`docs/ai-agent-implementation-plan.md:642`).
* In embedded mode a run whose process died is failed by the first start after
  `stale_run_after_seconds`. A process that is restarted earlier leaves it running, and
  its conversation blocked, until another start.

## Not modelled, and why

Login and sessions are checks of passwords and tokens and single Redis keys; a session
created between the calls of `delete_user_sessions` stays out of the index
(`identity/sessions.py:115`), but every request reads the user again. `acquire` of the
quota, the script of the embedded mode, does in one step what `reserve` and
`acquire_concurrency` do in two. OAuth protocol messages, ID-token
validation, the MCP client and the model provider are I/O or cryptography whose
outcomes the models choose freely. Audit, metrics, logging, the permission adapter
and configuration have no state that a property speaks of. Audit retention is one
DELETE.

## Plan

1. Done: all modules of the list above with their runs; proofs of every safety property
   that a passing run checks.
2. Prove: what holds of the quota in the presence of faults (how far `stall`, `torn` and
   `midnight` can move a counter), the settled part of `NeverUndercharged` without
   `stall`, and the rate window of `RunQuota`.
3. Extend: the page around `RunStream` (opening a conversation, sending), `acquire` of
   the quota, and what the control plane promises (a linear history of deployments) as
   an abstract specification that `AgentControl` implements.
