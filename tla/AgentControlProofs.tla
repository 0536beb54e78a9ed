------------------------- MODULE AgentControlProofs -------------------------
(***************************************************************************)
(* Machine-checked proofs about EvaluationRuns and AgentControl, for every *)
(* set of Agents, suites, runs, processes and requests, every capacity,    *)
(* gate mode and bound.                                                    *)
(***************************************************************************)
EXTENDS AgentControl, FiniteSetTheorems, TLAPS

RowRecord == [status : Ended \cup {"absent", "queued", "running"},
              agent : Agents, version : Versions \cup {0},
              policy : PolicyRecord, cancel : BOOLEAN,
              passed : BOOLEAN, results : CaseResults]

TaskRecord == [pc : InCapacity \cup {"none", "submitting", "waiting"},
               outcomes : Seq(BOOLEAN)]

\* The tasks of p that hold a slot of its semaphore.
Busy(p) == {r \in EvalRuns : task[p][r].pc \in InCapacity}

BusyFinite == \A p \in Processes : IsFiniteSet(Busy(p))

\* An enabled policy names a dataset version that exists.
PoliciesNameSuites ==
  \A a \in Agents : policy[a].enabled => policy[a].suite \in DOMAIN dataset.versions

\* What a row says of its suite, its cancellation and its verdict.
RowOK(w) ==
  /\ w.status # "absent" => w.policy.suite \in DOMAIN dataset.versions
  /\ w.cancel => w.status # "completed"
  /\ w.status = "completed" =>
       /\ Len(w.results) = Len(CasesUnder(w.policy))
       /\ w.passed <=> GatePassed(w.policy, w.results)
  /\ w.status # "completed" => w.results = <<>> /\ ~w.passed

RowsOK == \A r \in EvalRuns : RowOK(row[r])

\* A task works on a row that exists and has one outcome for each case it ran.
TaskOK(t, w) ==
  /\ t.pc # "none" => w.status # "absent"
  /\ t.pc = "checking" => Len(t.outcomes) <= Len(CasesUnder(w.policy))
  /\ t.pc = "case" => Len(t.outcomes) < Len(CasesUnder(w.policy))
  /\ t.pc = "completing" => Len(t.outcomes) = Len(CasesUnder(w.policy))

TasksOK == \A p \in Processes, r \in EvalRuns : TaskOK(task[p][r], row[r])

\* A run that was claimed is never queued again.
ClaimsOK ==
  \A r \in EvalRuns :
    claims[r] = 0 \/ (claims[r] = 1 /\ row[r].status \notin {"absent", "queued"})

\* None of the properties is inductive alone: a verdict covers all cases because
\* of what the task counted since it loaded the suite, and a suite stays what it
\* was because versions are only appended.
EvalInv ==
  /\ TypeOK
  /\ BusyFinite
  /\ PoliciesNameSuites
  /\ RowsOK
  /\ TasksOK
  /\ ClaimsOK

\* The values of the initial rows are of their types.
LEMMA NoRowType ==
  /\ NoPolicy \in PolicyRecord /\ NoPolicy.enabled = FALSE
  /\ NoRow \in RowRecord
  /\ NoRow.status = "absent" /\ NoRow.cancel = FALSE /\ NoRow.passed = FALSE
  /\ NoRow.results = <<>> /\ NoRow.policy = NoPolicy
  /\ NoTask \in TaskRecord /\ NoTask.pc = "none"
<1>1. (CHOOSE t \in Thresholds : TRUE) \in Thresholds
  BY EvaluationAssumption
<1>2. (CHOOSE a \in Agents : TRUE) \in Agents
  BY EvaluationAssumption
<1>3. NoPolicy \in PolicyRecord /\ NoPolicy.enabled = FALSE
  BY <1>1 DEF NoPolicy, PolicyRecord
<1>4. NoTask \in TaskRecord /\ NoTask.pc = "none"
  BY DEF NoTask, TaskRecord
<1> QED BY <1>2, <1>3, <1>4 DEF NoRow, RowRecord, CaseResults, Ended

\* The suite of a policy that names a dataset version has cases.
LEMMA SuiteCases ==
  ASSUME TypeOK, NEW pol \in PolicyRecord, pol.suite \in DOMAIN dataset.versions
  PROVE  CasesUnder(pol) \in Seq(EvaluationCaseSpec) /\ Len(CasesUnder(pol)) \in Nat \ {0}
<1>1. dataset.versions \in Seq(Suites)
  BY DEF TypeOK, DatasetRow
<1>2. dataset.versions[pol.suite] \in Suites
  BY <1>1
<1>3. CasesUnder(pol) \in Seq(EvaluationCaseSpec) /\ CasesUnder(pol) # <<>>
  BY <1>2, EvaluationAssumption DEF CasesUnder, EvaluationSuite
<1> QED BY <1>3

\* A step that changes one row and one task keeps the invariant if the new row
\* and the new task fit together and the row keeps its policy once it exists.
LEMMA RunStep ==
  ASSUME EvalInv, NEW p \in Processes, NEW r \in EvalRuns,
         NEW w \in RowRecord, NEW t \in TaskRecord, NEW k \in {0, 1},
         row' = [row EXCEPT ![r] = w],
         task' = [task EXCEPT ![p][r] = t],
         claims' = [claims EXCEPT ![r] = k],
         RowOK(w), TaskOK(t, w),
         row[r].status # "absent" => w.policy = row[r].policy /\ w.status # "absent",
         k = 1 => w.status \notin {"absent", "queued"},
         t.pc \in InCapacity => task[p][r].pc \in InCapacity \/ HasCapacity(p),
         UNCHANGED faults \/ faults' \in 0..MaxFaults,
         UNCHANGED <<dataset, policy, up>>
  PROVE  EvalInv'
<1> USE DEF EvalInv
<1>1. \A s \in EvalRuns : row'[s] = IF s = r THEN w ELSE row[s]
  BY DEF TypeOK
<1>2. \A q \in Processes, s \in EvalRuns :
        task'[q][s] = IF q = p /\ s = r THEN t ELSE task[q][s]
  BY DEF TypeOK
<1>3. \A s \in EvalRuns : claims'[s] = IF s = r THEN k ELSE claims[s]
  BY DEF TypeOK
<1>4. \A q \in Processes : IsFiniteSet(Busy(q)') /\ Cardinality(Busy(q)') <= Capacity
  <2> SUFFICES ASSUME NEW q \in Processes
               PROVE  IsFiniteSet(Busy(q)') /\ Cardinality(Busy(q)') <= Capacity
    OBVIOUS
  <2>1. IsFiniteSet(Busy(q)) /\ Cardinality(Busy(q)) <= Capacity /\ Cardinality(Busy(q)) \in Nat
    BY FS_CardinalityType DEF BusyFinite, TypeOK, Busy
  <2>2. CASE q # p \/ t.pc \notin InCapacity \/ task[p][r].pc \in InCapacity
    <3>1. Busy(q)' \in SUBSET Busy(q)
      BY <1>2, <2>2 DEF Busy
    <3>2. IsFiniteSet(Busy(q)') /\ Cardinality(Busy(q)') <= Cardinality(Busy(q))
      BY <2>1, <3>1, FS_Subset
    <3>3. Cardinality(Busy(q)') \in Nat
      BY <3>2, FS_CardinalityType
    <3> QED BY <2>1, <3>2, <3>3, EvaluationAssumption
  <2>3. CASE q = p /\ t.pc \in InCapacity /\ task[p][r].pc \notin InCapacity
    <3>1. Busy(p)' = Busy(p) \cup {r}
      BY <1>2, <2>3 DEF Busy
    <3>2. Cardinality(Busy(p)) < Capacity
      BY <2>3 DEF HasCapacity, Busy
    <3>a. IsFiniteSet(Busy(p)) /\ r \notin Busy(p)
      BY <2>1, <2>3 DEF Busy
    <3>3. IsFiniteSet(Busy(p) \cup {r}) /\ Cardinality(Busy(p) \cup {r}) = Cardinality(Busy(p)) + 1
      BY <3>a, FS_AddElement
    <3>4. Cardinality(Busy(p) \cup {r}) \in Nat
      BY <3>3, FS_CardinalityType
    <3> QED BY <2>1, <2>3, <3>1, <3>2, <3>3, <3>4, EvaluationAssumption
  <2> QED BY <2>2, <2>3
<1>5. TypeOK'
  <2>1. row' \in [EvalRuns -> RowRecord]
    BY DEF TypeOK, RowRecord
  <2>2. task' \in [Processes -> [EvalRuns -> TaskRecord]]
    BY DEF TypeOK, TaskRecord
  <2>3. claims' \in [EvalRuns -> Nat]
    BY DEF TypeOK
  <2> QED BY <1>4, <2>1, <2>2, <2>3 DEF TypeOK, RowRecord, TaskRecord, Busy
<1>6. BusyFinite'
  BY <1>4 DEF BusyFinite
<1>7. PoliciesNameSuites'
  BY DEF PoliciesNameSuites
<1>8. RowsOK'
  <2> SUFFICES ASSUME NEW s \in EvalRuns PROVE RowOK(row[s])'
    BY DEF RowsOK
  <2> DEFINE u == IF s = r THEN w ELSE row[s]
  <2>1. row'[s] = u /\ RowOK(u)
    BY <1>1 DEF RowsOK
  <2> HIDE DEF u
  <2> QED BY <2>1 DEF RowOK, GatePassed, CriticalFailures, CasesUnder
<1>9. TasksOK'
  BY <1>1, <1>2 DEF TasksOK, TaskOK, CasesUnder
<1>10. ClaimsOK'
  <2> SUFFICES ASSUME NEW s \in EvalRuns
               PROVE  claims'[s] = 0
                        \/ (claims'[s] = 1 /\ row'[s].status \notin {"absent", "queued"})
    BY DEF ClaimsOK
  <2>1. CASE s = r
    <3>1. claims'[s] = k /\ row'[s] = w
      BY <1>1, <1>3, <2>1
    <3>2. k = 0 \/ k = 1
      OBVIOUS
    <3> QED BY <3>1, <3>2
  <2>2. CASE s # r
    BY <1>1, <1>3, <2>2 DEF ClaimsOK
  <2> QED BY <2>1, <2>2
<1> QED BY <1>5, <1>6, <1>7, <1>8, <1>9, <1>10

\* What is known of one run and of the task of one process for it.
LEMMA RunFacts ==
  ASSUME EvalInv, NEW p \in Processes, NEW r \in EvalRuns
  PROVE  /\ row[r] \in RowRecord /\ RowOK(row[r])
         /\ task[p][r] \in TaskRecord /\ TaskOK(task[p][r], row[r])
         /\ claims[r] \in {0, 1}
         /\ claims[r] = 1 => row[r].status \notin {"absent", "queued"}
         /\ row = [row EXCEPT ![r] = row[r]]
         /\ task = [task EXCEPT ![p][r] = task[p][r]]
         /\ claims = [claims EXCEPT ![r] = claims[r]]
<1>1. row[r] \in RowRecord /\ task[p][r] \in TaskRecord
  BY DEF EvalInv, TypeOK, RowRecord, TaskRecord
<1>2. RowOK(row[r]) /\ TaskOK(task[p][r], row[r])
  BY DEF EvalInv, RowsOK, TasksOK
<1>3. claims[r] \in {0, 1} /\ (claims[r] = 1 => row[r].status \notin {"absent", "queued"})
  BY DEF EvalInv, ClaimsOK
<1>4. /\ row = [row EXCEPT ![r] = row[r]]
      /\ task = [task EXCEPT ![p][r] = task[p][r]]
      /\ claims = [claims EXCEPT ![r] = claims[r]]
  BY DEF EvalInv, TypeOK
<1> QED BY <1>1, <1>2, <1>3, <1>4

\* A step that changes the status, and perhaps the cancellation, of a row that has
\* no verdict, to anything but a verdict, and leaves its task behind or as it was.
LEMMA StatusStep ==
  ASSUME EvalInv, NEW p \in Processes, NEW r \in EvalRuns, NEW t \in TaskRecord,
         NEW st \in {"running", "failed", "cancelled"}, NEW b \in BOOLEAN,
         row[r].status \in {"queued", "running"},
         row' = [row EXCEPT ![r].status = st, ![r].cancel = b],
         \/ t = NoTask \/ t = task[p][r] \/ t = [pc |-> "loading", outcomes |-> <<>>]
         \/ t.pc = "failing" /\ task[p][r].pc \in InCapacity,
         t = [pc |-> "loading", outcomes |-> <<>>] => HasCapacity(p),
         task' = [task EXCEPT ![p][r] = t],
         NEW k \in {0, 1}, claims' = [claims EXCEPT ![r] = k],
         UNCHANGED faults \/ faults' \in 0..MaxFaults,
         UNCHANGED <<dataset, policy, up>>
  PROVE  EvalInv'
<1> DEFINE w == [row[r] EXCEPT !.status = st, !.cancel = b]
<1>1. /\ row[r] \in RowRecord /\ RowOK(row[r])
      /\ task[p][r] \in TaskRecord /\ TaskOK(task[p][r], row[r])
  BY RunFacts
<1>2. /\ w \in RowRecord
      /\ w.status = st /\ w.cancel = b /\ w.policy = row[r].policy
      /\ w.results = row[r].results /\ w.passed = row[r].passed
  BY <1>1 DEF RowRecord, Ended
<1>3. row' = [row EXCEPT ![r] = w]
  OBVIOUS
<1> HIDE DEF w
<1>4. RowOK(w)
  BY <1>1, <1>2 DEF RowOK
<1>5. /\ TaskOK(t, w)
      /\ t.pc \in InCapacity => task[p][r].pc \in InCapacity \/ HasCapacity(p)
  BY <1>1, <1>2, NoRowType DEF TaskOK, InCapacity
<1> QED BY <1>2, <1>3, <1>4, <1>5, RunStep

\* fail_run, with the end of the task that calls it.
LEMMA FailStep ==
  ASSUME EvalInv, NEW p \in Processes, NEW r \in EvalRuns,
         row' = FailRun(r), Leave(p, r),
         UNCHANGED <<dataset, policy, up, faults, claims>>
  PROVE  EvalInv'
<1>1. /\ row[r] \in RowRecord /\ RowOK(row[r])
      /\ claims[r] \in {0, 1}
      /\ claims[r] = 1 => row[r].status \notin {"absent", "queued"}
      /\ claims' = [claims EXCEPT ![r] = claims[r]]
      /\ row = [row EXCEPT ![r] = row[r]]
  BY RunFacts
<1>2. task' = [task EXCEPT ![p][r] = NoTask] /\ NoTask \in TaskRecord
  BY NoRowType DEF Leave
<1>3. CASE row[r].status \in {"queued", "running"}
  <2>1. row' = [row EXCEPT ![r].status = "failed"]
    BY <1>3 DEF FailRun
  <2>2. row' = [row EXCEPT ![r].status = "failed", ![r].cancel = row[r].cancel]
    BY <1>1, <2>1 DEF EvalInv, TypeOK, RowRecord
  <2>3. row[r].cancel \in BOOLEAN
    BY <1>1 DEF RowRecord
  <2>4. NoTask # [pc |-> "loading", outcomes |-> <<>>]
    BY DEF NoTask
  <2>5. PICK b \in BOOLEAN, k \in {0, 1} :
          /\ row' = [row EXCEPT ![r].status = "failed", ![r].cancel = b]
          /\ claims' = [claims EXCEPT ![r] = k]
    BY <1>1, <2>2, <2>3
  <2> QED BY <1>2, <1>3, <2>4, <2>5, StatusStep
<1>4. CASE row[r].status \notin {"queued", "running"}
  <2>1. row' = [row EXCEPT ![r] = row[r]]
    BY <1>1, <1>4 DEF FailRun
  <2>2. TaskOK(NoTask, row[r]) /\ NoTask.pc \notin InCapacity
    BY NoRowType DEF TaskOK, InCapacity
  <2> QED BY <1>1, <1>2, <2>1, <2>2, RunStep
<1> QED BY <1>3, <1>4

\* The API commits the row of a new run under the policy in force.
LEMMA CreateRunStep ==
  ASSUME EvalInv, NEW p \in Processes, NEW r \in EvalRuns, NEW a \in Agents,
         NEW v \in Versions, CreateRun(p, r, a, v)
  PROVE  EvalInv'
<1> DEFINE w == NewRun(a, v)
<1> DEFINE t == [pc |-> "submitting", outcomes |-> <<>>]
<1>1. /\ w \in RowRecord
      /\ w.status = "queued" /\ w.policy = policy[a] /\ w.cancel = FALSE
      /\ w.results = <<>> /\ w.passed = FALSE
  <2>1. policy[a] \in PolicyRecord
    BY DEF EvalInv, TypeOK
  <2>2. NoRow \in RowRecord /\ NoRow.cancel = FALSE /\ NoRow.passed = FALSE /\ NoRow.results = <<>>
    BY NoRowType
  <2> QED BY <2>1, <2>2 DEF NewRun, RowRecord
<1>2. w.policy.suite \in DOMAIN dataset.versions
  BY <1>1 DEF CreateRun, EvalInv, PoliciesNameSuites
<1>3. t \in TaskRecord /\ t.pc = "submitting"
  BY DEF TaskRecord
<1>4. row' = [row EXCEPT ![r] = w] /\ task' = [task EXCEPT ![p][r] = t]
  BY DEF CreateRun, SetTask
<1>5. /\ claims[r] \in {0, 1} /\ row[r].status = "absent"
      /\ claims[r] = 1 => row[r].status \notin {"absent", "queued"}
      /\ claims' = [claims EXCEPT ![r] = claims[r]]
      /\ UNCHANGED <<dataset, policy, up, faults>>
  BY RunFacts DEF CreateRun
<1>6. RowOK(w) /\ TaskOK(t, w) /\ t.pc \notin InCapacity
  BY <1>1, <1>2, <1>3 DEF RowOK, TaskOK, InCapacity
<1>7. claims[r] = 1 => w.status \notin {"absent", "queued"}
  BY <1>5
<1> HIDE DEF w, t
<1> QED BY <1>1, <1>3, <1>4, <1>5, <1>6, <1>7, RunStep

\* A cancellation ends a queued run and marks a running one.
LEMMA RequestCancelStep ==
  ASSUME EvalInv, NEW r \in EvalRuns, RequestCancel(r)
  PROVE  EvalInv'
<1>1. PICK p \in Processes : up[p] = "up"
  BY DEF RequestCancel
<1>2. /\ row[r] \in RowRecord /\ RowOK(row[r])
      /\ task[p][r] \in TaskRecord /\ TaskOK(task[p][r], row[r])
      /\ claims[r] \in {0, 1}
      /\ claims[r] = 1 => row[r].status \notin {"absent", "queued"}
      /\ task' = [task EXCEPT ![p][r] = task[p][r]]
      /\ claims' = [claims EXCEPT ![r] = claims[r]]
      /\ UNCHANGED <<dataset, policy, up, faults>>
      /\ row[r].status \in {"queued", "running"}
  BY RunFacts DEF RequestCancel
<1> DEFINE w == [row[r] EXCEPT !.cancel = TRUE,
                               !.status = IF @ = "queued" THEN "cancelled" ELSE @]
<1>3. /\ w \in RowRecord
      /\ w.status = IF row[r].status = "queued" THEN "cancelled" ELSE row[r].status
      /\ w.cancel = TRUE /\ w.policy = row[r].policy
      /\ w.results = row[r].results /\ w.passed = row[r].passed
  BY <1>2 DEF RowRecord, Ended
<1>4. row' = [row EXCEPT ![r] = w]
  BY DEF RequestCancel
<1> HIDE DEF w
<1>5. RowOK(w) /\ TaskOK(task[p][r], w)
  BY <1>2, <1>3 DEF RowOK, TaskOK
<1>6. w.status \notin {"absent", "queued"}
  BY <1>2, <1>3
<1> QED BY <1>2, <1>3, <1>4, <1>5, <1>6, RunStep

\* A task that changes nothing but itself.
LEMMA TaskOnlyStep ==
  ASSUME EvalInv, NEW p \in Processes, NEW r \in EvalRuns, NEW t \in TaskRecord,
         task' = [task EXCEPT ![p][r] = t], TaskOK(t, row[r]),
         t.pc \in InCapacity => task[p][r].pc \in InCapacity,
         UNCHANGED faults \/ faults' \in 0..MaxFaults,
         UNCHANGED <<dataset, policy, row, up, claims>>
  PROVE  EvalInv'
<1>1. /\ row[r] \in RowRecord /\ RowOK(row[r])
      /\ claims[r] \in {0, 1}
      /\ claims[r] = 1 => row[r].status \notin {"absent", "queued"}
      /\ row' = [row EXCEPT ![r] = row[r]]
      /\ claims' = [claims EXCEPT ![r] = claims[r]]
  BY RunFacts
<1> QED BY <1>1, RunStep

\* claim_run under the semaphore: one task takes a queued run.
LEMMA ClaimStep ==
  ASSUME EvalInv, NEW p \in Processes, NEW r \in EvalRuns, Claim(p, r)
  PROVE  EvalInv'
<1> DEFINE t == [pc |-> "loading", outcomes |-> <<>>]
<1>1. /\ row[r] \in RowRecord /\ RowOK(row[r])
      /\ claims[r] \in {0, 1}
      /\ claims[r] = 1 => row[r].status \notin {"absent", "queued"}
      /\ row[r].cancel \in BOOLEAN
      /\ claims = [claims EXCEPT ![r] = claims[r]]
      /\ row = [row EXCEPT ![r] = row[r]]
      /\ UNCHANGED <<dataset, policy, up, faults>>
      /\ HasCapacity(p)
  BY RunFacts DEF Claim, RowRecord
<1>2. t \in TaskRecord /\ NoTask \in TaskRecord /\ NoTask # t
  BY NoRowType DEF TaskRecord, InCapacity, NoTask
<1>4. CASE Claimable(r)
  <2>1. row' = [row EXCEPT ![r].status = "running"] /\ row[r].status = "queued"
    BY <1>4 DEF Claim, ClaimRun, Claimable
  <2>2. claims[r] = 0
    BY <1>1, <2>1
  <2>3. task' = [task EXCEPT ![p][r] = t] /\ claims' = [claims EXCEPT ![r] = 1]
    BY <1>4, <2>2 DEF Claim, SetTask, EvalInv, TypeOK
  <2>4. row' = [row EXCEPT ![r].status = "running", ![r].cancel = row[r].cancel]
    BY <1>1, <2>1 DEF EvalInv, TypeOK, RowRecord
  <2> QED BY <1>1, <1>2, <2>1, <2>3, <2>4, StatusStep
<1>5. CASE ~Claimable(r) /\ row[r].status = "queued"
  <2>1. row' = [row EXCEPT ![r].status = "cancelled"]
    BY <1>1, <1>5 DEF Claim, ClaimRun, Claimable
  <2>2. task' = [task EXCEPT ![p][r] = NoTask] /\ claims' = [claims EXCEPT ![r] = claims[r]]
    BY <1>1, <1>5 DEF Claim, Leave
  <2>3. row' = [row EXCEPT ![r].status = "cancelled", ![r].cancel = row[r].cancel]
    BY <1>1, <2>1 DEF EvalInv, TypeOK, RowRecord
  <2> QED BY <1>1, <1>2, <1>5, <2>2, <2>3, StatusStep
<1>6. CASE ~Claimable(r) /\ row[r].status # "queued"
  <2>1. row' = row /\ UNCHANGED claims /\ task' = [task EXCEPT ![p][r] = NoTask]
    BY <1>6 DEF Claim, ClaimRun, Leave
  <2>2. TaskOK(NoTask, row[r]) /\ NoTask.pc \notin InCapacity
    BY NoRowType DEF TaskOK, InCapacity
  <2> QED BY <1>1, <1>2, <2>1, <2>2, TaskOnlyStep
<1> QED BY <1>4, <1>5, <1>6

\* The steps of a task between its claim and its last case, and its submission.
LEMMA TaskMoves ==
  ASSUME EvalInv, NEW p \in Processes, NEW r \in EvalRuns,
         Submit(p, r) \/ Load(p, r) \/ CheckCancel(p, r) \/ ExecuteCase(p, r)
  PROVE  EvalInv'
<1>1. /\ row[r] \in RowRecord /\ RowOK(row[r])
      /\ task[p][r] \in TaskRecord /\ TaskOK(task[p][r], row[r])
  BY RunFacts
<1>2. row[r].policy \in PolicyRecord /\ task[p][r].outcomes \in Seq(BOOLEAN)
  BY <1>1 DEF RowRecord, TaskRecord
<1>3. task[p][r].pc # "none" =>
        /\ row[r].status # "absent"
        /\ Len(CasesUnder(row[r].policy)) \in Nat \ {0}
  BY <1>1, <1>2, SuiteCases DEF TaskOK, RowOK, EvalInv
<1>4. CASE Submit(p, r)
  <2>1. CASE up[p] = "up" /\ SetTask(p, r, "waiting", <<>>) /\ row' = row
    <3> DEFINE t == [pc |-> "waiting", outcomes |-> <<>>]
    <3>1. t \in TaskRecord /\ t.pc = "waiting" /\ t.pc \notin InCapacity
      BY DEF TaskRecord, InCapacity
    <3>2. task' = [task EXCEPT ![p][r] = t] /\ UNCHANGED <<dataset, policy, row, up, faults, claims>>
      BY <1>4, <2>1 DEF SetTask, Submit
    <3>3. TaskOK(t, row[r])
      BY <1>3, <1>4, <3>1 DEF TaskOK, Submit
    <3> HIDE DEF t
    <3> QED BY <3>1, <3>2, <3>3, TaskOnlyStep
  <2>2. CASE up[p] = "closing" /\ row' = FailRun(r) /\ Leave(p, r)
    BY <1>4, <2>2, FailStep DEF Submit
  <2> QED BY <1>4, <2>1, <2>2 DEF Submit
<1>5. CASE Load(p, r)
  <2>1. PICK pc \in {"checking", "failing"} : SetTask(p, r, pc, <<>>)
    BY <1>5 DEF Load
  <2> DEFINE t == [pc |-> pc, outcomes |-> <<>>]
  <2>2. t \in TaskRecord /\ t.pc = pc /\ t.outcomes = <<>>
    BY DEF TaskRecord, InCapacity
  <2>3. task' = [task EXCEPT ![p][r] = t] /\ UNCHANGED <<dataset, policy, row, up, faults, claims>>
    BY <1>5, <2>1 DEF SetTask, Load
  <2>4. TaskOK(t, row[r]) /\ task[p][r].pc \in InCapacity
    BY <1>3, <1>5, <2>2 DEF TaskOK, Load, InCapacity
  <2> HIDE DEF t
  <2> QED BY <2>2, <2>3, <2>4, TaskOnlyStep
<1>6. CASE CheckCancel(p, r)
  <2> DEFINE out == task[p][r].outcomes
  <2> DEFINE pc == IF Len(out) = Len(CasesUnder(row[r].policy)) THEN "completing"
                   ELSE IF CancelRequested(r) THEN "cancelling" ELSE "case"
  <2> DEFINE t == [pc |-> pc, outcomes |-> out]
  <2>1. t \in TaskRecord /\ t.pc = pc /\ t.outcomes = out
    BY <1>2 DEF TaskRecord, InCapacity
  <2>2. task' = [task EXCEPT ![p][r] = t] /\ UNCHANGED <<dataset, policy, row, up, faults, claims>>
    BY <1>6 DEF SetTask, CheckCancel
  <2>3. Len(out) \in Nat /\ Len(out) <= Len(CasesUnder(row[r].policy))
    BY <1>1, <1>2, <1>6 DEF TaskOK, CheckCancel
  <2>4. TaskOK(t, row[r]) /\ task[p][r].pc \in InCapacity
    <3> HIDE DEF t
    <3> QED BY <1>3, <1>6, <2>1, <2>3 DEF TaskOK, CheckCancel, InCapacity
  <2> HIDE DEF t
  <2> QED BY <2>1, <2>2, <2>4, TaskOnlyStep
<1>7. CASE ExecuteCase(p, r)
  <2> DEFINE out == task[p][r].outcomes
  <2> DEFINE case == CasesUnder(row[r].policy)[Len(out) + 1]
  <2>1. PICK seen \in Observations :
          SetTask(p, r, "checking", Append(out, CasePasses(case, seen)))
    BY <1>7 DEF ExecuteCase
  <2>2. CasePasses(case, seen) \in BOOLEAN
    BY DEF CasePasses
  <2> DEFINE t == [pc |-> "checking", outcomes |-> Append(out, CasePasses(case, seen))]
  <2>3. Append(out, CasePasses(case, seen)) \in Seq(BOOLEAN)
        /\ Len(Append(out, CasePasses(case, seen))) = Len(out) + 1
    BY <1>2, <2>2
  <2>4. t \in TaskRecord /\ t.pc = "checking" /\ Len(t.outcomes) = Len(out) + 1
    BY <2>3 DEF TaskRecord, InCapacity
  <2>5. task' = [task EXCEPT ![p][r] = t] /\ UNCHANGED <<dataset, policy, row, up, faults, claims>>
    BY <1>7, <2>1 DEF SetTask, ExecuteCase
  <2>6. Len(out) \in Nat /\ Len(out) < Len(CasesUnder(row[r].policy))
    BY <1>1, <1>2, <1>7 DEF TaskOK, ExecuteCase
  <2>7. TaskOK(t, row[r]) /\ task[p][r].pc \in InCapacity
    <3> HIDE DEF t
    <3> QED BY <1>3, <1>7, <2>4, <2>6 DEF TaskOK, ExecuteCase, InCapacity
  <2> HIDE DEF t
  <2> QED BY <2>4, <2>5, <2>7, TaskOnlyStep
<1> QED BY <1>4, <1>5, <1>6, <1>7

\* complete_run stores a verdict or finds a cancellation; the task then ends, or
\* comes to its handler because it does not hear of the commit.
LEMMA VerdictStep ==
  ASSUME EvalInv, NEW p \in Processes, NEW r \in EvalRuns, NEW t \in TaskRecord,
         task[p][r].pc = "completing", row[r].status = "running",
         row' = CompleteRun(r, task[p][r].outcomes),
         t = NoTask \/ t.pc = "failing", task' = [task EXCEPT ![p][r] = t],
         UNCHANGED faults \/ faults' \in 0..MaxFaults,
         UNCHANGED <<dataset, policy, up, claims>>
  PROVE  EvalInv'
<1> DEFINE out == task[p][r].outcomes
<1>1. /\ row[r] \in RowRecord /\ RowOK(row[r])
      /\ task[p][r] \in TaskRecord /\ TaskOK(task[p][r], row[r])
      /\ claims[r] \in {0, 1}
      /\ claims' = [claims EXCEPT ![r] = claims[r]]
      /\ row[r].cancel \in BOOLEAN
  BY RunFacts DEF RowRecord
<1>2. /\ t.pc \in {"none", "failing"} /\ t # [pc |-> "loading", outcomes |-> <<>>]
      /\ task[p][r].pc \in InCapacity
  BY NoRowType DEF InCapacity
<1>3. CASE row[r].cancel
  <2>1. row' = [row EXCEPT ![r].status = "cancelled"]
    BY <1>3 DEF CompleteRun
  <2>2. row' = [row EXCEPT ![r].status = "cancelled", ![r].cancel = row[r].cancel]
    BY <1>1, <2>1 DEF EvalInv, TypeOK, RowRecord
  <2> QED BY <1>1, <1>2, <2>2, StatusStep, ZenonT(40)
<1>4. CASE ~row[r].cancel
  <2> DEFINE g == GatePassed(row[r].policy, out)
  <2> DEFINE w == [row[r] EXCEPT !.status = "completed", !.passed = g, !.results = out]
  <2>1. g \in BOOLEAN /\ out \in CaseResults
    BY <1>1 DEF GatePassed, TaskRecord, CaseResults
  <2>2. row' = [row EXCEPT ![r] = w]
    BY <1>4 DEF CompleteRun
  <2> HIDE DEF g
  <2>3. /\ w \in RowRecord
        /\ w.status = "completed" /\ w.cancel = row[r].cancel /\ w.policy = row[r].policy
        /\ w.results = out /\ w.passed = g
    BY <1>1, <2>1 DEF RowRecord, Ended
  <2> HIDE DEF w
  <2>4. RowOK(w)
    <3>1. w.policy.suite \in DOMAIN dataset.versions
      BY <1>1, <2>3 DEF RowOK
    <3>2. Len(w.results) = Len(CasesUnder(w.policy))
      BY <1>1, <2>3 DEF TaskOK
    <3>3. w.passed <=> GatePassed(w.policy, w.results)
      BY <2>1, <2>3 DEF g
    <3> QED BY <1>4, <2>3, <3>1, <3>2, <3>3 DEF RowOK
  <2>5. TaskOK(t, w)
    BY <1>2, <2>3 DEF TaskOK
  <2> QED BY <1>1, <1>2, <2>2, <2>3, <2>4, <2>5, RunStep
<1> QED BY <1>3, <1>4

\* The handler of an exception in the try block.
LEMMA Failing ==
  LET t == [pc |-> "failing", outcomes |-> <<>>]
  IN  t \in TaskRecord /\ t.pc = "failing"
BY DEF TaskRecord, InCapacity

\* complete_run stores what it decides, or refuses.
LEMMA CompleteStep ==
  ASSUME EvalInv, NEW p \in Processes, NEW r \in EvalRuns, Complete(p, r)
  PROVE  EvalInv'
<1>1. /\ TaskOK(task[p][r], row[r])
      /\ task[p][r].pc = "completing"
      /\ UNCHANGED <<dataset, policy, up, faults, claims>>
  BY RunFacts DEF Complete
<1>2. CASE row[r].status # "running"
  <2> DEFINE t == [pc |-> "failing", outcomes |-> <<>>]
  <2>1. t \in TaskRecord /\ t.pc = "failing"
    BY Failing
  <2>2. TaskOK(t, row[r]) /\ task[p][r].pc \in InCapacity
    BY <1>1, <2>1 DEF TaskOK, InCapacity
  <2>3. task' = [task EXCEPT ![p][r] = t] /\ row' = row
    BY <1>2 DEF Complete, SetTask
  <2> HIDE DEF t
  <2> QED BY <1>1, <2>1, <2>2, <2>3, TaskOnlyStep
<1>3. CASE row[r].status = "running"
  <2>1. row' = CompleteRun(r, task[p][r].outcomes) /\ task' = [task EXCEPT ![p][r] = NoTask]
    BY <1>3 DEF Complete, Leave
  <2> QED BY <1>1, <1>3, <2>1, NoRowType, VerdictStep
<1> QED BY <1>2, <1>3

\* A transaction of a task fails, before its commit or after it.
LEMMA FaultStep ==
  ASSUME EvalInv, NEW p \in Processes, NEW r \in EvalRuns, TaskFails(p, r)
  PROVE  EvalInv'
<1>1. faults' \in 0..MaxFaults /\ UNCHANGED <<dataset, policy, up>>
  <2>1. faults \in 0..MaxFaults
    BY DEF EvalInv, TypeOK
  <2>2. faults < MaxFaults /\ faults' = faults + 1 /\ UNCHANGED <<dataset, policy, up>>
    BY DEF TaskFails, ClaimFails, BodyFails, HandlerFails, Fault
  <2> QED BY <2>1, <2>2, EvaluationAssumption
<1>2. /\ row[r] \in RowRecord /\ row[r].cancel \in BOOLEAN
      /\ task[p][r] \in TaskRecord /\ TaskOK(task[p][r], row[r])
      /\ claims[r] \in {0, 1}
      /\ claims[r] = 1 => row[r].status \notin {"absent", "queued"}
  BY RunFacts DEF RowRecord
<1>3. /\ NoTask \in TaskRecord /\ TaskOK(NoTask, row[r]) /\ NoTask.pc \notin InCapacity
      /\ NoTask # [pc |-> "loading", outcomes |-> <<>>]
  BY NoRowType DEF TaskOK, InCapacity, NoTask
<1>4. CASE task' = [task EXCEPT ![p][r] = NoTask] /\ UNCHANGED <<row, claims>>
  BY <1>1, <1>3, <1>4, TaskOnlyStep
<1>5. CASE ClaimFails(p, r) /\ ~UNCHANGED <<row, claims>>
  <2>1. /\ task' = [task EXCEPT ![p][r] = NoTask]
        /\ row' = [row EXCEPT ![r].status = "running"] /\ row[r].status = "queued"
        /\ claims' = [claims EXCEPT ![r] = @ + 1]
    BY <1>5 DEF ClaimFails, ClaimRun, Claimable, Leave
  <2>2. claims[r] = 0
    BY <1>2, <2>1
  <2>3. claims' = [claims EXCEPT ![r] = 1]
    BY <2>1, <2>2 DEF EvalInv, TypeOK
  <2>4. row' = [row EXCEPT ![r].status = "running", ![r].cancel = row[r].cancel]
    BY <1>2, <2>1 DEF EvalInv, TypeOK, RowRecord
  <2> QED BY <1>1, <1>2, <1>3, <2>1, <2>3, <2>4, StatusStep, ZenonT(40)
<1>6. CASE BodyFails(p, r)
  <2> DEFINE t == [pc |-> "failing", outcomes |-> <<>>]
  <2>1. t \in TaskRecord /\ t.pc = "failing"
    BY Failing
  <2>2. /\ task' = [task EXCEPT ![p][r] = t] /\ UNCHANGED claims
        /\ task[p][r].pc \in {"checking", "completing"}
    BY <1>6 DEF BodyFails, Fault, SetTask
  <2> HIDE DEF t
  <2>3. CASE UNCHANGED row
    <3>1. TaskOK(t, row[r]) /\ task[p][r].pc \in InCapacity
      BY <1>2, <2>1, <2>2 DEF TaskOK, InCapacity
    <3> QED BY <1>1, <2>1, <2>2, <2>3, <3>1, TaskOnlyStep
  <2>4. CASE ~UNCHANGED row
    <3>1. /\ task[p][r].pc = "completing" /\ row[r].status = "running"
          /\ row' = CompleteRun(r, task[p][r].outcomes)
      BY <1>6, <2>4 DEF BodyFails
    <3> QED BY <1>1, <2>1, <2>2, <3>1, VerdictStep
  <2> QED BY <2>3, <2>4
<1> QED BY <1>4, <1>5, <1>6 DEF TaskFails, ClaimFails, HandlerFails, Leave

\* mark_cancelled
LEMMA MarkCancelledStep ==
  ASSUME EvalInv, NEW p \in Processes, NEW r \in EvalRuns, MarkCancelled(p, r)
  PROVE  EvalInv'
<1>1. /\ row[r] \in RowRecord
      /\ claims[r] \in {0, 1}
      /\ claims' = [claims EXCEPT ![r] = claims[r]]
      /\ task' = [task EXCEPT ![p][r] = NoTask]
      /\ UNCHANGED <<dataset, policy, up, faults, claims>>
  BY RunFacts DEF MarkCancelled, Leave
<1>2. NoTask \in TaskRecord /\ TaskOK(NoTask, row[r]) /\ NoTask.pc \notin InCapacity
      /\ NoTask # [pc |-> "loading", outcomes |-> <<>>]
  BY NoRowType DEF TaskOK, InCapacity, NoTask
<1>3. CASE row[r].status \in {"queued", "running"}
  <2>1. row' = [row EXCEPT ![r].status = "cancelled", ![r].cancel = TRUE]
    BY <1>3 DEF MarkCancelled
  <2> QED BY <1>1, <1>2, <1>3, <2>1, StatusStep
<1>4. CASE row[r].status \notin {"queued", "running"}
  <2>1. row' = row
    BY <1>4 DEF MarkCancelled
  <2> QED BY <1>1, <1>2, <2>1, TaskOnlyStep
<1> QED BY <1>3, <1>4

\* A process ends all its tasks or begins new ones, none of them inside its
\* semaphore, and may fail runs that were running.
LEMMA ProcessStep ==
  ASSUME EvalInv, NEW p \in Processes, NEW T \in [EvalRuns -> TaskRecord],
         task' = [task EXCEPT ![p] = T],
         row' = row \/ \E skipped \in SUBSET EvalRuns : row' = Recover(skipped),
         \A r \in EvalRuns : /\ T[r].pc \in InCapacity => task[p][r].pc \in InCapacity
                             /\ T[r].pc \notin {"checking", "case", "completing"}
                             /\ T[r].pc # "none" => row[r].status # "absent",
         up' \in [Processes -> {"up", "closing", "down"}],
         faults' \in 0..MaxFaults,
         UNCHANGED <<dataset, policy, claims>>
  PROVE  EvalInv'
<1> USE DEF EvalInv
<1>1. \A q \in Processes, r \in EvalRuns :
        task'[q][r] = IF q = p THEN T[r] ELSE task[q][r]
  BY DEF TypeOK
<1>2. \A r \in EvalRuns : row[r] \in RowRecord /\ RowOK(row[r])
  BY DEF TypeOK, RowRecord, RowsOK
<1>3. ASSUME NEW r \in EvalRuns
      PROVE  /\ row'[r] \in RowRecord
             /\ row'[r].status = "absent" <=> row[r].status = "absent"
             /\ row'[r].status = "queued" <=> row[r].status = "queued"
             /\ row'[r].status = "completed" <=> row[r].status = "completed"
             /\ row'[r].policy = row[r].policy /\ row'[r].cancel = row[r].cancel
             /\ row'[r].results = row[r].results /\ row'[r].passed = row[r].passed
  <2>1. CASE row' = row
    BY <1>2, <2>1
  <2>2. ASSUME NEW skipped \in SUBSET EvalRuns, row' = Recover(skipped),
               row[r].status # "running" \/ r \in skipped
        PROVE  row'[r] = row[r]
    BY <2>2 DEF Recover
  <2>3. ASSUME NEW skipped \in SUBSET EvalRuns, row' = Recover(skipped),
               row[r].status = "running", r \notin skipped
        PROVE  row'[r] = [row[r] EXCEPT !.status = "failed"]
    BY <2>3 DEF Recover
  <2>4. CASE row'[r] = row[r]
    BY <1>2, <2>4
  <2>5. CASE row[r].status = "running" /\ row'[r] = [row[r] EXCEPT !.status = "failed"]
    <3>1. row[r] \in RowRecord
      BY <1>2
    <3> QED BY <2>5, <3>1 DEF RowRecord, Ended
  <2> QED BY <2>1, <2>2, <2>3, <2>4, <2>5
<1>4. \A q \in Processes : IsFiniteSet(Busy(q)') /\ Cardinality(Busy(q)') <= Capacity
  <2> SUFFICES ASSUME NEW q \in Processes
               PROVE  IsFiniteSet(Busy(q)') /\ Cardinality(Busy(q)') <= Capacity
    OBVIOUS
  <2>1. IsFiniteSet(Busy(q)) /\ Cardinality(Busy(q)) <= Capacity /\ Cardinality(Busy(q)) \in Nat
    BY FS_CardinalityType DEF BusyFinite, TypeOK, Busy
  <2>2. Busy(q)' \in SUBSET Busy(q)
    BY <1>1 DEF Busy
  <2>3. IsFiniteSet(Busy(q)') /\ Cardinality(Busy(q)') <= Cardinality(Busy(q))
    BY <2>1, <2>2, FS_Subset
  <2>4. Cardinality(Busy(q)') \in Nat
    BY <2>3, FS_CardinalityType
  <2> QED BY <2>1, <2>3, <2>4, EvaluationAssumption
<1>5. TypeOK'
  <2>1. row' \in [EvalRuns -> RowRecord]
    <3>1. \/ row' \in [EvalRuns -> RowRecord]
          \/ \E skipped \in SUBSET EvalRuns : row' = Recover(skipped)
      BY DEF TypeOK, RowRecord
    <3>2. ASSUME NEW skipped \in SUBSET EvalRuns, row' = Recover(skipped)
          PROVE  row' = [r \in EvalRuns |-> row'[r]]
      BY <3>2 DEF Recover
    <3> QED BY <1>3, <3>1, <3>2
  <2>2. task' \in [Processes -> [EvalRuns -> TaskRecord]]
    BY DEF TypeOK, TaskRecord
  <2> QED BY <1>4, <2>1, <2>2 DEF TypeOK, RowRecord, TaskRecord, Busy
<1>6. BusyFinite' /\ PoliciesNameSuites'
  BY <1>4 DEF BusyFinite, PoliciesNameSuites
<1>7. RowsOK'
  <2> SUFFICES ASSUME NEW r \in EvalRuns PROVE RowOK(row[r])'
    BY DEF RowsOK
  <2>1. RowOK(row[r])
    BY <1>2
  <2> QED BY <1>3, <2>1 DEF RowOK, GatePassed, CriticalFailures, CasesUnder
<1>8. TasksOK'
  <2> SUFFICES ASSUME NEW q \in Processes, NEW r \in EvalRuns
               PROVE  TaskOK(task[q][r], row[r])'
    BY DEF TasksOK
  <2>1. CASE q = p
    BY <1>1, <1>3, <2>1 DEF TaskOK
  <2>2. CASE q # p
    BY <1>1, <1>3, <2>2 DEF TasksOK, TaskOK, CasesUnder
  <2> QED BY <2>1, <2>2
<1>9. ClaimsOK'
  BY <1>3 DEF ClaimsOK
<1> QED BY <1>5, <1>6, <1>7, <1>8, <1>9

\* Shutdown, end, crash and start-up of a process.
LEMMA ProcessSteps ==
  ASSUME EvalInv, NEW p \in Processes,
         Close(p) \/ Stopped(p) \/ Crash(p) \/ Start(p) \/ StartSkipping(p)
  PROVE  EvalInv'
<1>1. \A r \in EvalRuns : task[p][r] \in TaskRecord /\ TaskOK(task[p][r], row[r])
  BY RunFacts
<1>2. faults \in 0..MaxFaults /\ up \in [Processes -> {"up", "closing", "down"}]
  BY DEF EvalInv, TypeOK
<1>3. CASE Close(p)
  <2>1. PICK lost \in SUBSET {r \in EvalRuns : task[p][r].pc = "loading"} :
       task' = [task EXCEPT ![p] = [r \in EvalRuns |->
                  CASE @[r].pc \in InTry /\ r \notin lost ->
                         [pc |-> "stopping", outcomes |-> <<>>]
                    [] @[r].pc = "submitting" -> @[r]
                    [] OTHER -> NoTask]]
    BY <1>3 DEF Close
  <2> DEFINE T == [r \in EvalRuns |->
                  CASE task[p][r].pc \in InTry /\ r \notin lost ->
                         [pc |-> "stopping", outcomes |-> <<>>]
                    [] task[p][r].pc = "submitting" -> task[p][r]
                    [] OTHER -> NoTask]
  <2>2. task' = [task EXCEPT ![p] = T]
    BY <2>1
  <2> DEFINE stop == [pc |-> "stopping", outcomes |-> <<>>]
  <2>3. stop \in TaskRecord /\ stop.pc = "stopping"
    BY DEF TaskRecord, InCapacity
  <2>4. ASSUME NEW r \in EvalRuns
        PROVE  /\ T[r] \in TaskRecord
               /\ T[r].pc \in InCapacity => task[p][r].pc \in InCapacity
               /\ T[r].pc \notin {"checking", "case", "completing"}
               /\ T[r].pc # "none" => row[r].status # "absent"
    <3>1. CASE task[p][r].pc \in InTry /\ r \notin lost
      <4>1. T[r] = stop
        BY <3>1 DEF InTry
      <4> QED BY <1>1, <2>3, <3>1, <4>1 DEF InTry, InCapacity, TaskOK
    <3>2. CASE task[p][r].pc = "submitting"
      <4>1. T[r] = task[p][r]
        BY <3>2 DEF InTry
      <4> QED BY <1>1, <3>2, <4>1 DEF InCapacity, TaskOK
    <3>3. CASE ~(task[p][r].pc \in InTry /\ r \notin lost) /\ task[p][r].pc # "submitting"
      <4>1. T[r] = NoTask
        BY <3>3
      <4> QED BY <4>1, NoRowType DEF InCapacity
    <3> QED BY <3>1, <3>2, <3>3
  <2>5. T \in [EvalRuns -> TaskRecord]
    BY <2>4
  <2>6. /\ up' \in [Processes -> {"up", "closing", "down"}] /\ faults' \in 0..MaxFaults
        /\ UNCHANGED <<dataset, policy, row, claims>>
    BY <1>2, <1>3, EvaluationAssumption DEF Close
  <2> HIDE DEF T
  <2> QED BY <2>2, <2>4, <2>5, <2>6, ProcessStep
<1>4. CASE Stopped(p)
  <2>1. /\ task[p] \in [EvalRuns -> TaskRecord]
        /\ \A r \in EvalRuns : task[p][r] = NoTask
        /\ task' = [task EXCEPT ![p] = task[p]]
    BY <1>4 DEF Stopped, EvalInv, TypeOK, TaskRecord
  <2>2. \A r \in EvalRuns : task[p][r].pc = "none" /\ task[p][r].pc \notin InCapacity
    BY <2>1, NoRowType DEF InCapacity
  <2>3. /\ up' \in [Processes -> {"up", "closing", "down"}] /\ faults' \in 0..MaxFaults
        /\ UNCHANGED <<dataset, policy, row, claims>>
    BY <1>2, <1>4 DEF Stopped
  <2> QED BY <2>1, <2>2, <2>3, ProcessStep
<1>5. CASE Crash(p)
  <2> DEFINE T == [r \in EvalRuns |-> NoTask]
  <2>1. T \in [EvalRuns -> TaskRecord] /\ \A r \in EvalRuns : T[r].pc = "none"
    BY NoRowType
  <2>2. task' = [task EXCEPT ![p] = T]
    BY <1>5 DEF Crash
  <2>3. /\ up' \in [Processes -> {"up", "closing", "down"}] /\ faults' \in 0..MaxFaults
        /\ UNCHANGED <<dataset, policy, row, claims>>
    BY <1>2, <1>5, EvaluationAssumption DEF Crash
  <2>4. "none" \notin InCapacity
    BY DEF InCapacity
  <2> HIDE DEF T
  <2> QED BY <2>1, <2>2, <2>3, <2>4, ProcessStep
<1>6. CASE Start(p) \/ StartSkipping(p)
  <2>0. PICK skipped \in SUBSET EvalRuns : Boot(p, skipped)
    BY <1>6 DEF Start, StartSkipping
  <2> DEFINE wait == [pc |-> "waiting", outcomes |-> <<>>]
  <2> DEFINE T == [r \in EvalRuns |-> IF row[r].status = "queued" THEN wait ELSE NoTask]
  <2>1. wait \in TaskRecord /\ wait.pc = "waiting"
    BY DEF TaskRecord
  <2>2. task' = [task EXCEPT ![p] = T]
    BY <2>0 DEF Boot
  <2>3. ASSUME NEW r \in EvalRuns
        PROVE  /\ T[r] \in TaskRecord
               /\ T[r].pc \in {"none", "waiting"}
               /\ T[r].pc # "none" => row[r].status # "absent"
    <3> HIDE DEF wait
    <3>1. CASE row[r].status = "queued"
      BY <2>1, <3>1
    <3>2. CASE row[r].status # "queued"
      BY <3>2, NoRowType
    <3> QED BY <3>1, <3>2
  <2>4. T \in [EvalRuns -> TaskRecord]
    BY <2>3
  <2>5. /\ up' \in [Processes -> {"up", "closing", "down"}] /\ faults' \in 0..MaxFaults
        /\ UNCHANGED <<dataset, policy, claims>> /\ row' = Recover(skipped)
    BY <1>2, <1>6, <2>0, EvaluationAssumption DEF Boot, Start, StartSkipping
  <2>6. "none" \notin InCapacity /\ "waiting" \notin InCapacity
    BY DEF InCapacity
  <2> HIDE DEF T
  <2> QED BY <2>2, <2>3, <2>4, <2>5, <2>6, ProcessStep
<1> QED BY <1>3, <1>4, <1>5, <1>6

\* An edit of the dataset leaves the versions that exist as they are.
LEMMA DatasetStep ==
  ASSUME EvalInv, EditDataset
  PROVE  EvalInv'
<1> USE DEF EvalInv
<1>1. /\ dataset \in DatasetRow /\ dataset.versions \in Seq(Suites)
      /\ dataset.revision \in 0..MaxEdits /\ dataset.draft \in Suites
  BY DEF TypeOK, DatasetRow
<1>2. UNCHANGED <<policy, row, up, task, faults, claims>>
  BY DEF EditDataset, CreateDataset, UpdateDatasetDraft, CreateDatasetVersion
<1>3. /\ dataset' \in DatasetRow
      /\ \A i \in DOMAIN dataset.versions :
           i \in DOMAIN dataset'.versions /\ dataset'.versions[i] = dataset.versions[i]
  <2>1. CASE \E s \in Suites : CreateDataset(s) \/ UpdateDatasetDraft(s)
    <3>1. PICK s \in Suites : CreateDataset(s) \/ UpdateDatasetDraft(s)
      BY <2>1
    <3>2. PICK n \in 0..MaxEdits : dataset' = [dataset EXCEPT !.revision = n, !.draft = s]
      <4>1. CASE CreateDataset(s)
        <5>1. 1 \in 0..MaxEdits
          BY <4>1, EvaluationAssumption DEF CreateDataset
        <5> QED BY <4>1, <5>1 DEF CreateDataset
      <4>2. CASE UpdateDatasetDraft(s)
        <5>1. dataset.revision + 1 \in 0..MaxEdits
          BY <1>1, <4>2, EvaluationAssumption DEF UpdateDatasetDraft
        <5> QED BY <4>2, <5>1 DEF UpdateDatasetDraft
      <4> QED BY <3>1, <4>1, <4>2
    <3> QED BY <1>1, <3>2 DEF DatasetRow
  <2>2. CASE CreateDatasetVersion
    <3>1. dataset' = [dataset EXCEPT !.versions = Append(dataset.versions, dataset.draft)]
      BY <2>2 DEF CreateDatasetVersion
    <3>2. Append(dataset.versions, dataset.draft) \in Seq(Suites)
      BY <1>1
    <3>3. dataset'.versions = Append(dataset.versions, dataset.draft) /\ dataset' \in DatasetRow
      BY <1>1, <3>1, <3>2 DEF DatasetRow
    <3> QED BY <1>1, <3>3
  <2> QED BY <2>1, <2>2 DEF EditDataset
<1>4. \A pol \in PolicyRecord : pol.suite \in DOMAIN dataset.versions =>
        /\ pol.suite \in DOMAIN dataset'.versions
        /\ CasesOf[dataset'.versions[pol.suite]] = CasesOf[dataset.versions[pol.suite]]
  BY <1>3
<1>5. TypeOK' /\ BusyFinite' /\ ClaimsOK'
  BY <1>2, <1>3 DEF TypeOK, BusyFinite, Busy, ClaimsOK
<1>6. PoliciesNameSuites'
  BY <1>2, <1>3 DEF PoliciesNameSuites
<1>7. \A r \in EvalRuns : /\ row[r].policy \in PolicyRecord /\ RowOK(row[r])
                          /\ row[r].status # "absent" =>
                               row[r].policy.suite \in DOMAIN dataset.versions
  BY DEF TypeOK, RowsOK, RowOK
<1>8. RowsOK'
  <2> SUFFICES ASSUME NEW r \in EvalRuns PROVE RowOK(row[r])'
    BY DEF RowsOK
  <2> DEFINE pol == row[r].policy
  <2>1. CASE row[r].status = "absent"
    BY <1>2, <1>7, <2>1 DEF RowOK
  <2>2. CASE row[r].status # "absent"
    <3>1. /\ pol.suite \in DOMAIN dataset'.versions
          /\ CasesOf[dataset'.versions[pol.suite]] = CasesOf[dataset.versions[pol.suite]]
      BY <1>4, <1>7, <2>2
    <3> QED BY <1>2, <1>7, <3>1 DEF RowOK, GatePassed, CriticalFailures, CasesUnder
  <2> QED BY <2>1, <2>2
<1>9. TasksOK'
  <2> SUFFICES ASSUME NEW p \in Processes, NEW r \in EvalRuns
               PROVE  TaskOK(task[p][r], row[r])'
    BY DEF TasksOK
  <2>1. TaskOK(task[p][r], row[r])
    BY DEF TasksOK
  <2>2. CASE task[p][r].pc = "none"
    BY <1>2, <2>2 DEF TaskOK
  <2>3. CASE task[p][r].pc # "none"
    <3>1. CasesOf[dataset'.versions[row[r].policy.suite]]
            = CasesOf[dataset.versions[row[r].policy.suite]]
      BY <1>4, <1>7, <2>1, <2>3 DEF TaskOK
    <3> QED BY <1>2, <2>1, <3>1 DEF TaskOK, CasesUnder
  <2> QED BY <2>2, <2>3
<1> QED BY <1>5, <1>6, <1>8, <1>9

\* A policy names a version that exists; runs keep the policy they were made for.
LEMMA PolicyStep ==
  ASSUME EvalInv, NEW a \in Agents, NEW s \in DOMAIN dataset.versions,
         NEW t \in Thresholds, NEW b \in BOOLEAN, UpsertPolicy(a, s, t, b)
  PROVE  EvalInv'
<1> USE DEF EvalInv
<1> DEFINE new == [revision |-> policy[a].revision + 1, suite |-> s, threshold |-> t,
                   enabled |-> b]
<1>1. dataset.versions \in Seq(Suites) /\ policy[a] \in PolicyRecord
  BY DEF TypeOK, DatasetRow
<1>2. new \in PolicyRecord /\ new.suite = s
  BY <1>1 DEF PolicyRecord
<1>3. policy' = [policy EXCEPT ![a] = new] /\ UNCHANGED <<dataset, row, up, task, faults, claims>>
  BY DEF UpsertPolicy
<1> HIDE DEF new
<1>4. TypeOK' /\ BusyFinite' /\ ClaimsOK'
  BY <1>2, <1>3 DEF TypeOK, BusyFinite, Busy, ClaimsOK
<1>5. PoliciesNameSuites'
  BY <1>2, <1>3 DEF PoliciesNameSuites, TypeOK
<1>6. RowsOK' /\ TasksOK'
  BY <1>3 DEF RowsOK, RowOK, TasksOK, TaskOK, GatePassed, CriticalFailures, CasesUnder
<1> QED BY <1>4, <1>5, <1>6

\* Every step of the evaluations keeps the inductive invariant.
LEMMA EvalStep ==
  ASSUME EvalInv, [NextEvaluations]_evalVars
  PROVE  EvalInv'
<1>1. ASSUME NEW p \in Processes, NEW r \in EvalRuns, TaskStep(p, r) PROVE EvalInv'
  <2>1. CASE Fail(p, r)
    BY <2>1, FailStep DEF Fail
  <2>2. CASE ~Fail(p, r)
    BY <1>1, <2>2, TaskMoves, ClaimStep, CompleteStep, MarkCancelledStep DEF TaskStep
  <2> QED BY <2>1, <2>2
<1>2. CASE UNCHANGED evalVars
  <2>1. TypeOK' /\ BusyFinite' /\ PoliciesNameSuites' /\ ClaimsOK'
    BY <1>2 DEF evalVars, EvalInv, TypeOK, BusyFinite, Busy, PoliciesNameSuites, ClaimsOK
  <2>2. RowsOK' /\ TasksOK'
    BY <1>2 DEF evalVars, EvalInv, RowsOK, RowOK, TasksOK, TaskOK, GatePassed,
                CriticalFailures, CasesUnder
  <2> QED BY <2>1, <2>2 DEF EvalInv
<1> QED BY <1>1, <1>2, DatasetStep, PolicyStep, CreateRunStep, RequestCancelStep, FaultStep,
           ProcessSteps
        DEF NextEvaluations

\* The initial state satisfies the invariant.
LEMMA EvalInit == InitEvaluations => EvalInv
<1> SUFFICES ASSUME InitEvaluations PROVE EvalInv
  OBVIOUS
<1>1. \A p \in Processes : Busy(p) = {}
  BY NoRowType DEF InitEvaluations, Busy, InCapacity
<1>2. IsFiniteSet({}) /\ Cardinality({}) = 0
  BY FS_EmptySet
<1>3. dataset \in DatasetRow
  <2>1. (CHOOSE s \in Suites : TRUE) \in Suites
    BY EvaluationAssumption
  <2> QED BY <2>1, EvaluationAssumption DEF InitEvaluations, DatasetRow
<1>4. TypeOK
  <2>1. row \in [EvalRuns -> RowRecord] /\ task \in [Processes -> [EvalRuns -> TaskRecord]]
    BY NoRowType DEF InitEvaluations
  <2>2. policy \in [Agents -> PolicyRecord]
    BY NoRowType DEF InitEvaluations
  <2>3. \A p \in Processes : Cardinality(Busy(p)) <= Capacity
    BY <1>1, <1>2, EvaluationAssumption
  <2>4. faults \in 0..MaxFaults /\ claims \in [EvalRuns -> Nat]
        /\ up \in [Processes -> {"up", "closing", "down"}]
    BY EvaluationAssumption DEF InitEvaluations
  <2> QED BY <1>3, <2>1, <2>2, <2>3, <2>4 DEF TypeOK, RowRecord, TaskRecord, Busy
<1>5. BusyFinite
  BY <1>1, <1>2 DEF BusyFinite
<1>6. PoliciesNameSuites /\ RowsOK /\ TasksOK /\ ClaimsOK
  BY NoRowType DEF InitEvaluations, PoliciesNameSuites, RowsOK, RowOK, TasksOK, TaskOK, ClaimsOK
<1> QED BY <1>4, <1>5, <1>6 DEF EvalInv

\* EvalInv is an invariant of the evaluations.
LEMMA EvalInvariant == EvaluationSpec => []EvalInv
BY EvalInit, EvalStep, PTL DEF EvaluationSpec

\* complete_run counts the cases that passed, the property those that failed.
LEMMA CountsAgree ==
  ASSUME NEW out \in Seq(BOOLEAN), NEW num \in Nat, NEW den \in Nat
  PROVE  LET bad == {i \in DOMAIN out : ~out[i]}
         IN Passed(out) * den >= num * Len(out)
              <=> Cardinality(bad) * den <= (den - num) * Len(out)
<1> DEFINE all == 1..Len(out)
<1> DEFINE good == {i \in all : out[i]}
<1> DEFINE bad == {i \in all : ~out[i]}
<1> DEFINE n == Len(out)
<1>1. n \in Nat /\ DOMAIN out = all
  OBVIOUS
<1>2. IsFiniteSet(all) /\ Cardinality(all) = n
  BY <1>1, FS_Interval
<1>3. good \in SUBSET all /\ bad = all \ good /\ all \cap good = good
  OBVIOUS
<1> DEFINE g == Cardinality(good)
<1> DEFINE b == Cardinality(bad)
<1>4. g \in Nat /\ b \in Nat /\ b = n - g
  <2> HIDE DEF all, good, bad
  <2>1. IsFiniteSet(good) /\ IsFiniteSet(bad)
    BY <1>2, <1>3, FS_Subset, FS_Difference
  <2>2. Cardinality(all \ good) = Cardinality(all) - Cardinality(all \cap good)
    BY <1>2, FS_Difference
  <2> QED BY <1>2, <1>3, <2>1, <2>2, FS_CardinalityType
<1>5. Passed(out) = g /\ {i \in DOMAIN out : ~out[i]} = bad
  BY <1>1 DEF Passed
<1> HIDE DEF all, good, bad, g, b, n
<1>6. b * den = n * den - g * den /\ (den - num) * n = n * den - num * n
  BY <1>1, <1>4
<1>7. g * den \in Int /\ n * den \in Int /\ num * n \in Int
  BY <1>1, <1>4
<1>8. g * den >= num * n <=> b * den <= (den - num) * n
  BY <1>6, <1>7
<1> QED BY <1>5, <1>8 DEF b, g, n

\* A row that is as RowOK says has a verdict from all its cases.
LEMMA RowVerdict ==
  ASSUME EvalInv
  PROVE  VerdictFromAllCases
<1> SUFFICES ASSUME NEW r \in EvalRuns, row[r].status = "completed"
             PROVE  LET cases == CasesOf[dataset.versions[row[r].policy.suite]]
                        out   == row[r].results
                        bad   == {i \in DOMAIN cases : ~out[i]}
                        t     == row[r].policy.threshold
                    IN /\ Len(out) = Len(cases)
                       /\ row[r].passed <=>
                            /\ Cardinality(bad) * t.den <= (t.den - t.num) * Len(cases)
                            /\ Cardinality({i \in bad : cases[i].critical}) <= t.critical
  BY DEF EvalInv, RowsOK, RowOK, VerdictFromAllCases
<1> DEFINE pol == row[r].policy
<1> DEFINE cases == CasesOf[dataset.versions[pol.suite]]
<1> DEFINE out == row[r].results
<1> DEFINE t == pol.threshold
<1> DEFINE bad == {i \in DOMAIN cases : ~out[i]}
<1>1. row[r] \in RowRecord /\ RowOK(row[r]) /\ pol \in PolicyRecord /\ out \in Seq(BOOLEAN)
  BY DEF EvalInv, TypeOK, RowRecord, RowsOK, CaseResults
<1>2. cases = CasesUnder(pol) /\ cases \in Seq(EvaluationCaseSpec)
  BY <1>1, SuiteCases DEF RowOK, EvalInv, CasesUnder
<1>3. Len(out) = Len(cases) /\ (row[r].passed <=> GatePassed(pol, out))
  BY <1>1, <1>2 DEF RowOK
<1>4. DOMAIN out = DOMAIN cases
  BY <1>1, <1>2, <1>3
<1>5. t.den \in Nat /\ t.num \in Nat
  BY <1>1, EvaluationAssumption DEF PolicyRecord
<1>6. bad = {i \in DOMAIN out : ~out[i]}
  BY <1>4
<1>7. Passed(out) * t.den >= t.num * Len(out)
        <=> Cardinality(bad) * t.den <= (t.den - t.num) * Len(out)
  <2> HIDE DEF out, t, bad
  <2> QED BY <1>1, <1>5, <1>6, CountsAgree
<1>8. CriticalFailures(pol, out) = Cardinality({i \in bad : cases[i].critical})
  <2>1. {i \in DOMAIN out : ~out[i] /\ CasesUnder(pol)[i].critical}
          = {i \in bad : cases[i].critical}
    BY <1>2, <1>4
  <2> QED BY <2>1 DEF CriticalFailures
<1>9. GatePassed(pol, out) <=>
        /\ Cardinality(bad) * t.den <= (t.den - t.num) * Len(cases)
        /\ Cardinality({i \in bad : cases[i].critical}) <= t.critical
  <2>1. GatePassed(pol, out) <=> /\ Passed(out) * t.den >= t.num * Len(out)
                                 /\ CriticalFailures(pol, out) <= t.critical
    BY DEF GatePassed
  <2> HIDE DEF out, t, bad, cases, pol
  <2> QED BY <1>3, <1>7, <1>8, <2>1
<1> HIDE DEF out, t, bad, cases, pol
<1>10. /\ Len(out) = Len(cases)
       /\ row[r].passed <=>
            /\ Cardinality(bad) * t.den <= (t.den - t.num) * Len(cases)
            /\ Cardinality({i \in bad : cases[i].critical}) <= t.critical
  BY <1>3, <1>9
<1> QED BY <1>10 DEF out, t, bad, cases, pol

\* An evaluation run, its tasks and its policy keep their types, and no process
\* runs more evaluations at a time than max_concurrent_runs.
THEOREM EvaluationTypes == EvaluationSpec => []TypeOK
<1>1. EvalInv => TypeOK
  BY DEF EvalInv
<1> QED BY <1>1, EvalInvariant, PTL

\* However many processes submit a run, crash and start again, claim_run hands it
\* out once.
THEOREM RunsAreClaimedOnce == EvaluationSpec => []ClaimedOnce
<1>1. EvalInv => ClaimedOnce
  BY DEF EvalInv, ClaimsOK, ClaimedOnce
<1> QED BY <1>1, EvalInvariant, PTL

\* No order of a cancellation and the completion of the run stores a verdict for
\* a run whose cancellation was requested.
THEOREM NoVerdictOnceCancelled == EvaluationSpec => []CancelledHasNoVerdict
<1>1. EvalInv => CancelledHasNoVerdict
  BY DEF EvalInv, RowsOK, RowOK, CancelledHasNoVerdict
<1> QED BY <1>1, EvalInvariant, PTL

\* For every dataset, policy and number of cases: a stored verdict is that of all
\* cases of the dataset version that the run was created for, by the thresholds of
\* its policy, and no other run carries one.
THEOREM VerdictsAreWhole == EvaluationSpec => []VerdictFromAllCases
BY RowVerdict, EvalInvariant, PTL

\* A step leaves a run that has ended as it is.
LEMMA EndedRunStays ==
  ASSUME EvalInv, [NextEvaluations]_evalVars, NEW r \in EvalRuns, row[r].status \in Ended
  PROVE  row'[r] = row[r]
<1>1. \A s \in EvalRuns :
        row[s].status \in Ended => row[s].status \notin {"absent", "queued", "running"}
  BY DEF Ended
<1>2. row \in [EvalRuns -> RowRecord]
  BY DEF EvalInv, TypeOK, RowRecord
<1>3. ASSUME NEW s \in EvalRuns, row' = FailRun(s) PROVE row'[r] = row[r]
  BY <1>1, <1>2, <1>3 DEF FailRun
<1>4. ASSUME NEW p \in Processes, NEW s \in EvalRuns, TaskStep(p, s) PROVE row'[r] = row[r]
  <2>1. CASE Submit(p, s) \/ Fail(p, s)
    BY <1>3, <2>1 DEF Submit, Fail
  <2>2. CASE Claim(p, s)
    BY <1>1, <1>2, <2>2 DEF Claim, ClaimRun, Claimable
  <2>3. CASE Load(p, s) \/ CheckCancel(p, s) \/ ExecuteCase(p, s)
    BY <2>3 DEF Load, CheckCancel, ExecuteCase
  <2>4. CASE Complete(p, s)
    BY <1>1, <1>2, <2>4 DEF Complete, CompleteRun
  <2>5. CASE MarkCancelled(p, s)
    BY <1>1, <1>2, <2>5 DEF MarkCancelled
  <2> QED BY <1>4, <2>1, <2>2, <2>3, <2>4, <2>5 DEF TaskStep
<1>5. ASSUME NEW p \in Processes,
             Close(p) \/ Stopped(p) \/ Crash(p) \/ Start(p) \/ StartSkipping(p)
      PROVE  row'[r] = row[r]
  <2>1. UNCHANGED row \/ \E skipped \in SUBSET EvalRuns : row' = Recover(skipped)
    BY <1>5 DEF Close, Stopped, Crash, Start, StartSkipping, Boot
  <2> QED BY <1>1, <2>1 DEF Recover
<1>6. ASSUME NEW p \in Processes, NEW s \in EvalRuns, NEW a \in Agents, NEW v \in Versions,
             CreateRun(p, s, a, v)
      PROVE  row'[r] = row[r]
  BY <1>1, <1>2, <1>6 DEF CreateRun
<1>7. ASSUME NEW s \in EvalRuns, RequestCancel(s) PROVE row'[r] = row[r]
  BY <1>1, <1>2, <1>7 DEF RequestCancel
<1>8. CASE EditDataset
  BY <1>8 DEF EditDataset, CreateDataset, UpdateDatasetDraft, CreateDatasetVersion
<1>9. ASSUME NEW a \in Agents, NEW s \in DOMAIN dataset.versions, NEW t \in Thresholds,
             NEW b \in BOOLEAN, UpsertPolicy(a, s, t, b)
      PROVE  row'[r] = row[r]
  BY <1>9 DEF UpsertPolicy
<1>10. CASE UNCHANGED evalVars
  BY <1>10 DEF evalVars
<1>11. ASSUME NEW p \in Processes, NEW s \in EvalRuns, TaskFails(p, s) PROVE row'[r] = row[r]
  <2>1. CASE ClaimFails(p, s)
    BY <1>1, <1>2, <2>1 DEF ClaimFails, ClaimRun, Claimable
  <2>2. CASE BodyFails(p, s)
    BY <1>1, <1>2, <2>2 DEF BodyFails, CompleteRun
  <2>3. CASE HandlerFails(p, s)
    BY <2>3 DEF HandlerFails
  <2> QED BY <1>11, <2>1, <2>2, <2>3 DEF TaskFails
<1> QED BY <1>4, <1>5, <1>6, <1>7, <1>8, <1>9, <1>10, <1>11 DEF NextEvaluations

\* No late handler, second task, start-up or cancellation changes a run that has
\* ended.
THEOREM EndsAreFinal == EvaluationSpec => EndIsFinal
<1>1. EvalInv /\ [NextEvaluations]_evalVars =>
        [\A r \in EvalRuns : row[r].status \in Ended => row'[r] = row[r]]_evalVars
  BY EndedRunStays
<1> QED BY <1>1, EvalInvariant, PTL DEF EvaluationSpec, EndIsFinal

-----------------------------------------------------------------------------
(* AgentControl *)

\* The control plane leaves the evaluations alone or takes one of their steps.
LEMMA ControlSteps == [Next]_vars => [NextEvaluations]_evalVars
<1> SUFFICES ASSUME [Next]_vars PROVE [NextEvaluations]_evalVars
  OBVIOUS
<1>1. CASE UNCHANGED vars
  BY <1>1 DEF vars, evalVars
<1>2. CASE \E q \in Requests, a \in Agents : SeeAgents(q, a)
  BY <1>2 DEF SeeAgents, evalVars
<1>3. CASE \E q \in Requests, c \in Configs : CreateAgent(q, c)
  BY <1>3 DEF CreateAgent, evalVars
<1>4. CASE \E a \in Agents, c \in Configs : UpdateDraft(a, c)
  BY <1>4 DEF UpdateDraft, evalVars
<1>5. CASE \E a \in Agents : CreateVersion(a)
  BY <1>5 DEF CreateVersion, evalVars
<1>6. CASE \E a \in Agents : SetDefault(a)
  BY <1>6 DEF SetDefault, evalVars
<1>7. CASE \E q \in Requests : LockAgent(q)
  BY <1>7 DEF LockAgent, evalVars
<1>8. CASE \E q \in Requests : Commit(q)
  BY <1>8 DEF Commit, evalVars
<1>9. CASE \E a \in Agents, s \in DOMAIN dataset.versions, t \in Thresholds, b \in BOOLEAN :
             WritePolicy(a, s, t, b)
  BY <1>9 DEF WritePolicy, NextEvaluations
<1>10. CASE \E p \in Processes, r \in EvalRuns, a \in Agents, v \in Versions :
              Evaluate(p, r, a, v)
  BY <1>10 DEF Evaluate, NextEvaluations
<1>11. CASE RunEvaluations
  BY <1>11 DEF RunEvaluations, NextEvaluations
<1> QED BY <1>1, <1>2, <1>3, <1>4, <1>5, <1>6, <1>7, <1>8, <1>9, <1>10, <1>11 DEF Next

\* Composed with the control plane, the evaluations behave as they do alone, so
\* that all that is proved of EvaluationSpec holds under managed Agents, too.
THEOREM ControlImplementsEvaluations == Spec => EvaluationSpec
<1>1. Init => InitEvaluations
  BY DEF Init
<1> QED BY <1>1, ControlSteps, PTL DEF Spec, EvaluationSpec

Decisions == {"bypassed", "not_required", "not_configured", "missing", "stale",
              "incomplete", "failed", "passed"}

CreatingRecord == [pc : {"creating"}, agent : Agents, default : BOOLEAN]
LockedRecord == [pc : {"locked"}, ask : ReleaseRequest, decision : Decisions,
                 policy : PolicyRecord]

Locked(q) == req[q].pc = "locked"

RequestsOK ==
  /\ req \in [Requests -> {Idle} \cup CreatingRecord \cup LockedRecord]
  /\ \A q \in Requests : Locked(q) => lock[req[q].ask.agent] = q

\* What a release without a bypass rests on in required mode.
Evidence(rel, pol) ==
  /\ rel.evaluation \in EvalRuns
  /\ row[rel.evaluation].status = "completed"
  /\ row[rel.evaluation].passed
  /\ row[rel.evaluation].agent = rel.agent
  /\ row[rel.evaluation].version = rel.version
  /\ row[rel.evaluation].policy = pol

\* What release checked under the lock of the Agent still holds at its commit.
StillAdmitted(q) ==
  LET ask == req[q].ask
  IN /\ GenerationCurrent(ask)
     /\ ask.action = "rollback" => RollbackTarget(ask)
     /\ req[q].policy \in {NoPolicy, policy[ask.agent]}
     /\ GateMode = "required" /\ ~Production /\ ~ask.bypass => Evidence(ask, req[q].policy)

AdmissionHolds == \A q \in Requests : Locked(q) => StillAdmitted(q)

\* An Agent without a release was never deployed.
HistoryBegins == \A a \in Agents : ReleasesOf(a) = {} => deployed[a].version = 0

\* Neither the evidence nor the history of releases is inductive alone: a release
\* reads under the lock of its Agent and writes a step later.
ControlInv ==
  /\ EvalInv
  /\ ControlTypeOK
  /\ RequestsOK
  /\ AdmissionHolds
  /\ ReleaseHasEvidence
  /\ ReleasesFormHistory
  /\ HistoryBegins

\* The request that holds the lock of an Agent is the release that took it.
LEMMA LockHolders ==
  ASSUME ControlInv
  PROVE  \A a \in Agents, q \in Requests :
           lock[a] = q => req[q].pc = "locked" /\ req[q].ask.agent = a
BY DEF ControlInv, ControlTypeOK

\* The same history, stated for one Agent, a sequence of releases and a deployment.
Of(rels, a) == {i \in DOMAIN rels : rels[i].agent = a}
Before(rels, a, i) == {j \in Of(rels, a) : j < i}
Until(rels, a, i) == {j \in Of(rels, a) : j <= i}
LastOf(set) == CHOOSE j \in set : \A k \in set : k <= j

EntryFits(rels, a, i) ==
  /\ rels[i].expected # -1 =>
       Cardinality(Until(rels, rels[i].agent, i)) = rels[i].expected + 1
  /\ rels[i].previous = IF Before(rels, a, i) = {} THEN 0
                        ELSE rels[LastOf(Before(rels, a, i))].version
  /\ rels[i].previous # rels[i].version
  /\ rels[i].action = "rollback" =>
       \E j \in Before(rels, a, i) : rels[j].version = rels[i].version

HistoryOf(rels, a, d) ==
  /\ d.generation = Cardinality(Of(rels, a))
  /\ \A i \in Of(rels, a) :
       /\ EntryFits(rels, a, i)
       /\ (\A j \in Of(rels, a) : j <= i) => d.version = rels[i].version

\* ReleasesFormHistory says this of every Agent.
LEMMA HistoryForm ==
  ReleasesFormHistory <=> \A a \in Agents : HistoryOf(releases, a, deployed[a])
BY DEF ReleasesFormHistory, HistoryOf, EntryFits, Of, Before, Until, LastOf, ReleasesOf, Generation

\* A step that changes neither releases nor deployments changes no history.
LEMMA HistoryUntouched ==
  ASSUME ReleasesFormHistory, HistoryBegins, UNCHANGED <<releases, deployed>>
  PROVE  ReleasesFormHistory' /\ HistoryBegins'
<1>1. \A a \in Agents : HistoryOf(releases, a, deployed[a])
  BY HistoryForm
<1>2. \A a \in Agents : HistoryOf(releases', a, deployed'[a])
  BY <1>1
<1>3. ReleasesFormHistory' <=> \A a \in Agents : HistoryOf(releases', a, deployed'[a])
  BY DEF ReleasesFormHistory, HistoryOf, EntryFits, Of, Before, Until, LastOf, ReleasesOf,
         Generation
<1>4. HistoryBegins'
  BY DEF HistoryBegins, ReleasesOf
<1> QED BY <1>2, <1>3, <1>4

\* A step of the evaluations alone, which writes no policy of a locked Agent.
LEMMA EvaluationsOnly ==
  ASSUME ControlInv, [NextEvaluations]_evalVars, UNCHANGED controlVars,
         \A a \in Agents : lock[a] # NoRequest => policy'[a] = policy[a]
  PROVE  ControlInv'
<1> USE DEF ControlInv
<1>1. EvalInv'
  BY EvalStep
<1>2. ControlTypeOK'
  BY <1>1 DEF ControlTypeOK, controlVars, EvalInv
<1>3. RequestsOK'
  BY DEF RequestsOK, controlVars, Locked
<1>4. \A e \in EvalRuns : row[e].status = "completed" => row'[e] = row[e]
  BY EndedRunStays DEF Ended
<1>5. AdmissionHolds'
  <2> SUFFICES ASSUME NEW q \in Requests, Locked(q)' PROVE StillAdmitted(q)'
    BY DEF AdmissionHolds
  <2>1. UNCHANGED <<req, lock, releases, deployed>>
    BY DEF controlVars
  <2>2. Locked(q) /\ StillAdmitted(q)
    BY <2>1 DEF AdmissionHolds, Locked
  <2>3. req[q] \in LockedRecord
    BY <2>2 DEF RequestsOK, Locked, Idle, CreatingRecord, LockedRecord
  <2>4. req[q].ask.agent \in Agents /\ lock[req[q].ask.agent] = q
    BY <2>2, <2>3 DEF LockedRecord, ReleaseRequest, RequestsOK
  <2>5. policy'[req[q].ask.agent] = policy[req[q].ask.agent]
    BY <2>4, ControlAssumption
  <2> QED BY <1>4, <2>1, <2>2, <2>5 DEF StillAdmitted, GenerationCurrent, RollbackTarget, Evidence
<1>6. ReleaseHasEvidence'
  BY <1>4 DEF ReleaseHasEvidence, controlVars
<1>7. ReleasesFormHistory' /\ HistoryBegins'
  BY HistoryUntouched DEF controlVars
<1> QED BY <1>1, <1>2, <1>3, <1>5, <1>6, <1>7

\* A step that touches neither locks, releases nor the evaluations.
LEMMA ReleasesUntouched ==
  ASSUME ControlInv, UNCHANGED <<evalVars, lock, releases, deployed>>,
         default' \subseteq agents', agents' \subseteq Agents,
         draft' \in [Agents -> DraftRow],
         versions' \in [Agents -> Seq(Configs)],
         \A a \in Agents : \A i \in 1..(Len(versions'[a]) - 1) :
           versions'[a][i] # versions'[a][i + 1],
         req' \in [Requests -> {Idle} \cup CreatingRecord \cup LockedRecord],
         \A q \in Requests : req'[q] = req[q] \/ (~Locked(q) /\ req'[q].pc # "locked")
  PROVE  ControlInv'
<1> USE DEF ControlInv
<1>1. EvalInv'
  BY EvalStep
<1>2. ControlTypeOK'
  <2>1. TypeOK'
    BY <1>1 DEF EvalInv
  <2>2. \A a \in Agents, q \in Requests :
          lock'[a] = q => req'[q].pc = "locked" /\ req'[q].ask.agent = a
    <3> HIDE DEF ControlInv
    <3>1. \A a \in Agents, q \in Requests : lock[a] = q => req'[q] = req[q]
      BY LockHolders DEF Locked
    <3> QED BY <3>1, LockHolders
  <2> QED BY <2>1, <2>2 DEF ControlTypeOK
<1>3. RequestsOK'
  BY DEF RequestsOK, Locked
<1>4. AdmissionHolds'
  BY DEF AdmissionHolds, Locked, StillAdmitted, GenerationCurrent, RollbackTarget, Evidence,
         evalVars
<1>5. ReleaseHasEvidence'
  BY DEF ReleaseHasEvidence, evalVars
<1>6. ReleasesFormHistory' /\ HistoryBegins'
  BY HistoryUntouched
<1> QED BY <1>1, <1>2, <1>3, <1>4, <1>5, <1>6

\* A set of positions that is not empty has a last one.
LEMMA LastExists ==
  ASSUME NEW n \in Nat, NEW S \in SUBSET (1..n), S # {}
  PROVE  \E m \in S : \A j \in S : j <= m
<1> DEFINE R == OpToRel(<, Nat)
<1> DEFINE T == {k \in Nat : n - k \in S}
<1>1. IsWellFoundedOn(R, Nat)
  BY NatLessThanWellFounded
<1>2. T \subseteq Nat /\ T # {}
  <2>1. PICK j \in S : TRUE
    OBVIOUS
  <2>2. n - j \in Nat /\ n - (n - j) = j
    OBVIOUS
  <2> QED BY <2>1, <2>2
<1>3. \E x \in T : \A y \in T : ~(<<y, x>> \in R)
  <2> HIDE DEF R, T
  <2> QED BY <1>1, <1>2, WFMin
<1>4. \A x, y \in Nat : <<y, x>> \in R <=> y < x
  BY DEF OpToRel
<1>5. PICK x \in T : \A y \in T : ~(y < x)
  <2> HIDE DEF R
  <2> QED BY <1>3, <1>4
<1>6. n - x \in S
  OBVIOUS
<1>7. ASSUME NEW j \in S PROVE j <= n - x
  <2>1. n - j \in Nat /\ n - (n - j) = j
    OBVIOUS
  <2>2. n - j \in T
    BY <2>1
  <2> QED BY <1>5, <2>1, <2>2
<1> QED BY <1>6, <1>7

\* What a further release does to the positions of the releases of an Agent.
LEMMA AppendPositions ==
  ASSUME NEW rels \in Seq(ReleaseRow), NEW rel \in ReleaseRow, NEW a \in Agents
  PROVE  LET new == Append(rels, rel)
             n   == Len(rels) + 1
         IN /\ new \in Seq(ReleaseRow) /\ new[n] = rel /\ n \in Nat
            /\ \A i \in DOMAIN rels : i \in Nat /\ i < n /\ new[i] = rels[i]
            /\ Of(new, a) = Of(rels, a) \cup (IF rel.agent = a THEN {n} ELSE {})
            /\ n \notin Of(rels, a) /\ Of(rels, a) \in SUBSET (1..Len(rels))
            /\ \A i \in DOMAIN rels : Before(new, a, i) = Before(rels, a, i)
                                   /\ Until(new, a, i) = Until(rels, a, i)
<1> DEFINE new == Append(rels, rel)
<1> DEFINE n == Len(rels) + 1
<1>1. Len(rels) \in Nat /\ DOMAIN rels = 1..Len(rels)
  OBVIOUS
<1>2. /\ new \in Seq(ReleaseRow) /\ new[n] = rel /\ n \in Nat /\ DOMAIN new = 1..n
      /\ \A i \in DOMAIN rels : i \in Nat /\ i < n /\ new[i] = rels[i]
  BY <1>1
<1>3. DOMAIN new = DOMAIN rels \cup {n} /\ n \notin DOMAIN rels
  BY <1>1, <1>2
<1> HIDE DEF new
<1>4. Of(new, a) = Of(rels, a) \cup (IF rel.agent = a THEN {n} ELSE {})
  BY <1>2, <1>3 DEF Of
<1>5. n \notin Of(rels, a) /\ Of(rels, a) \in SUBSET (1..Len(rels))
  BY <1>1, <1>3 DEF Of
<1>6. ASSUME NEW i \in DOMAIN rels
      PROVE  Before(new, a, i) = Before(rels, a, i) /\ Until(new, a, i) = Until(rels, a, i)
  <2>1. ~(n < i) /\ ~(n <= i)
    BY <1>1
  <2> HIDE DEF n
  <2> QED BY <1>4, <2>1 DEF Before, Until
<1> QED BY <1>2, <1>4, <1>5, <1>6 DEF new

\* Earlier releases fit as before.
LEMMA EarlierFit ==
  ASSUME NEW rels \in Seq(ReleaseRow), NEW rel \in ReleaseRow, NEW a \in Agents,
         NEW i \in Of(rels, a), EntryFits(rels, a, i)
  PROVE  EntryFits(Append(rels, rel), a, i)
<1> DEFINE new == Append(rels, rel)
<1>1. i \in DOMAIN rels /\ rels[i].agent = a
  BY DEF Of
<1>2. new[i] = rels[i]
  BY <1>1
<1>3. Before(new, a, i) = Before(rels, a, i) /\ Until(new, a, i) = Until(rels, a, i)
  BY <1>1, AppendPositions
<1>4. \A j \in Before(rels, a, i) : new[j] = rels[j]
  BY DEF Before, Of
<1>5. Before(rels, a, i) # {} =>
        new[LastOf(Before(rels, a, i))] = rels[LastOf(Before(rels, a, i))]
  <2> DEFINE before == Before(rels, a, i)
  <2> SUFFICES ASSUME before # {} PROVE new[LastOf(before)] = rels[LastOf(before)]
    OBVIOUS
  <2>1. before \in SUBSET (1..Len(rels)) /\ Len(rels) \in Nat
    BY DEF Before, Of
  <2>2. \E j \in before : \A k \in before : k <= j
    <3> HIDE DEF before
    <3> QED BY <2>1, LastExists
  <2>3. LastOf(before) \in before
    BY <2>2 DEF LastOf
  <2> QED BY <1>4, <2>3
<1> HIDE DEF new
<1> QED BY <1>1, <1>2, <1>3, <1>4, <1>5 DEF EntryFits, new

\* A release of another Agent leaves the history of a as it is.
LEMMA HistoryOfOthers ==
  ASSUME NEW rels \in Seq(ReleaseRow), NEW rel \in ReleaseRow, NEW a \in Agents, NEW d,
         rel.agent # a, HistoryOf(rels, a, d)
  PROVE  HistoryOf(Append(rels, rel), a, d)
<1> DEFINE new == Append(rels, rel)
<1>1. Of(new, a) = Of(rels, a)
  <2>1. Of(new, a) = Of(rels, a) \cup (IF rel.agent = a THEN {Len(rels) + 1} ELSE {})
    BY AppendPositions
  <2> QED BY <2>1
<1>2. \A i \in Of(rels, a) : new[i] = rels[i] /\ EntryFits(new, a, i)
  BY EarlierFit DEF Of, HistoryOf
<1> HIDE DEF new
<1> QED BY <1>1, <1>2 DEF HistoryOf, new

\* A release of a that starts from what is deployed extends the history of a.
LEMMA HistoryGrows ==
  ASSUME NEW rels \in Seq(ReleaseRow), NEW rel \in ReleaseRow, NEW a \in Agents,
         NEW d \in DeploymentRow, NEW e,
         rel.agent = a, HistoryOf(rels, a, d), Of(rels, a) = {} => d.version = 0,
         rel.previous = d.version, rel.version # d.version,
         rel.expected \in {-1, d.generation},
         rel.action = "rollback" => \E j \in Of(rels, a) : rels[j].version = rel.version,
         e.version = rel.version, e.generation = d.generation + 1
  PROVE  HistoryOf(Append(rels, rel), a, e)
<1> DEFINE new == Append(rels, rel)
<1> DEFINE n == Len(rels) + 1
<1> DEFINE S == Of(rels, a)
<1>1. /\ n \in Nat /\ new[n] = rel
      /\ Of(new, a) = S \cup {n} /\ n \notin S /\ S \in SUBSET (1..Len(rels))
      /\ \A i \in DOMAIN rels : i \in Nat /\ i < n /\ new[i] = rels[i]
  BY AppendPositions
<1>2. \A i \in S : i \in DOMAIN rels /\ i \in Nat /\ i < n /\ new[i] = rels[i]
  BY <1>1 DEF Of
<1>3. \A i \in S : EntryFits(new, a, i)
  BY EarlierFit DEF HistoryOf
<1>4. IsFiniteSet(S) /\ Cardinality(S) = d.generation /\ d.generation \in Nat
  <2>1. IsFiniteSet(1..Len(rels))
    BY FS_Interval
  <2>2. IsFiniteSet(S)
    <3> HIDE DEF S
    <3> QED BY <1>1, <2>1, FS_Subset
  <2> QED BY <2>2 DEF HistoryOf, DeploymentRow
<1>5. Cardinality(Of(new, a)) = d.generation + 1
  <2> HIDE DEF S, n, new
  <2>1. n \notin S /\ Of(new, a) = S \cup {n}
    BY <1>1
  <2>2. Cardinality(S \cup {n}) = Cardinality(S) + 1
    BY <1>4, <2>1, FS_AddElement
  <2> QED BY <1>4, <2>1, <2>2
<1>6. Before(new, a, n) = S /\ Until(new, a, n) = Of(new, a)
  <2> HIDE DEF S, n, new
  <2>1. n \in Nat /\ Of(new, a) = S \cup {n}
    BY <1>1
  <2>2. \A i \in S : i \in Nat /\ i < n
    BY <1>2
  <2>3. Before(new, a, n) = S
    BY <2>1, <2>2 DEF Before
  <2>4. Until(new, a, n) = Of(new, a)
    BY <2>1, <2>2 DEF Until
  <2> QED BY <2>3, <2>4
<1>7. S # {} => rels[LastOf(S)].version = d.version /\ new[LastOf(S)] = rels[LastOf(S)]
  <2> SUFFICES ASSUME S # {}
               PROVE  rels[LastOf(S)].version = d.version /\ new[LastOf(S)] = rels[LastOf(S)]
    OBVIOUS
  <2>1. \E m \in S : \A j \in S : j <= m
    <3>1. Len(rels) \in Nat
      OBVIOUS
    <3> HIDE DEF S
    <3> QED BY <1>1, <3>1, LastExists
  <2>2. LastOf(S) \in S /\ \A j \in S : j <= LastOf(S)
    <3> HIDE DEF S
    <3> QED BY <2>1 DEF LastOf
  <2> QED BY <1>2, <2>2 DEF HistoryOf
<1>8. EntryFits(new, a, n)
  <2>1. rel.expected # -1 => Cardinality(Until(new, rel.agent, n)) = rel.expected + 1
    BY <1>5, <1>6
  <2>2. rel.previous = IF S = {} THEN 0 ELSE new[LastOf(S)].version
    BY <1>7
  <2>3. rel.action = "rollback" => \E j \in S : new[j].version = rel.version
    BY <1>2
  <2> HIDE DEF S, n, new
  <2> QED BY <1>1, <1>6, <2>1, <2>2, <2>3 DEF EntryFits
<1>9. \A i \in S : ~(\A j \in Of(new, a) : j <= i)
  BY <1>1, <1>2
<1> HIDE DEF S, n, new
<1> QED BY <1>1, <1>3, <1>5, <1>8, <1>9 DEF HistoryOf, new

\* A request that passed the checks of release under the lock.
LEMMA LockedFacts ==
  ASSUME ControlInv, NEW q \in Requests, Locked(q)
  PROVE  /\ req[q] \in LockedRecord /\ req[q].ask \in ReleaseRequest
         /\ req[q].decision \in Decisions /\ req[q].policy \in PolicyRecord
         /\ req[q].ask.agent \in Agents
         /\ lock[req[q].ask.agent] = q
         /\ StillAdmitted(q)
<1>1. req[q] \in LockedRecord
  BY DEF ControlInv, RequestsOK, Locked, Idle, CreatingRecord, LockedRecord
<1> QED BY <1>1 DEF ControlInv, RequestsOK, AdmissionHolds, LockedRecord, ReleaseRequest

\* The decision of an admitted release is one that a release row may carry, and
\* in required mode it rests on evidence.
LEMMA AdmittedDecision ==
  ASSUME ControlInv, NEW ask \in ReleaseRequest, Admissible(ask)
  PROVE  /\ Decision(ask) \in Decisions
         /\ GatePolicy(ask) \in PolicyRecord
         /\ GatePolicy(ask) \in {NoPolicy, policy[ask.agent]}
         /\ GateMode = "required" /\ ~Production /\ ~ask.bypass
              => Evidence(ask, GatePolicy(ask))
<1>1. ask.agent \in Agents /\ policy[ask.agent] \in PolicyRecord
  BY DEF ReleaseRequest, ControlInv, EvalInv, TypeOK
<1>2. GatePolicy(ask) \in {NoPolicy, policy[ask.agent]} /\ GatePolicy(ask) \in PolicyRecord
  BY <1>1, NoRowType DEF GatePolicy
<1>3. Decision(ask) \in Decisions
  <2>1. CASE ask.bypass \/ ~GateApplies(ask)
    BY <2>1 DEF Decision, Decisions
  <2>2. CASE ~ask.bypass /\ GateApplies(ask)
    <3>1. Decision(ask) = AssessRelease(ask.agent, ask.version, ask.evaluation)
      BY <2>2 DEF Decision
    <3>2. AssessRelease(ask.agent, ask.version, ask.evaluation) \in Decisions \cup {"invalid"}
      BY DEF AssessRelease, Decisions
    <3>3. CASE ask.evaluation = NoEvaluation
      BY <3>1, <3>3, ControlAssumption DEF AssessRelease, Decisions
    <3>4. CASE ask.evaluation # NoEvaluation
      <4>1. Decision(ask) # "invalid"
        BY <2>2, <3>4 DEF Admissible, GateAdmits
      <4> QED BY <3>1, <3>2, <4>1
    <3> QED BY <3>3, <3>4
  <2> QED BY <2>1, <2>2
<1>4. ASSUME GateMode = "required", ~Production, ~ask.bypass
      PROVE  Evidence(ask, GatePolicy(ask))
  <2>1. GateApplies(ask)
    BY <1>4 DEF GateApplies
  <2>2. AssessRelease(ask.agent, ask.version, ask.evaluation) = "passed"
    BY <1>4, <2>1 DEF Admissible, GateAdmits, Decision
  <2> DEFINE e == ask.evaluation
  <2>3. /\ policy[ask.agent].enabled
        /\ e \in EvalRuns
        /\ row[e].agent = ask.agent /\ row[e].version = ask.version
        /\ row[e].policy = policy[ask.agent]
        /\ row[e].status = "completed"
        /\ row[e].passed
    BY <2>2 DEF AssessRelease
  <2>4. GatePolicy(ask) = policy[ask.agent]
    BY <2>1, <2>3 DEF GatePolicy
  <2> QED BY <2>3, <2>4 DEF Evidence
<1> QED BY <1>2, <1>3, <1>4

\* release takes the lock of its Agent with all its checks.
LEMMA LockStep ==
  ASSUME ControlInv, NEW q \in Requests, LockAgent(q)
  PROVE  ControlInv'
<1> USE DEF ControlInv
<1>1. PICK ask \in ReleaseRequest :
        /\ LockFree(ask.agent) /\ Admissible(ask)
        /\ lock' = [lock EXCEPT ![ask.agent] = q]
        /\ req' = [req EXCEPT ![q] =
                     [pc |-> "locked", ask |-> ask, decision |-> Decision(ask),
                      policy |-> GatePolicy(ask)]]
  BY DEF LockAgent
<1>2. /\ UNCHANGED <<evalVars, agents, default, draft, versions, deployed, releases>>
      /\ req[q] = Idle
  BY DEF LockAgent
<1> DEFINE w == [pc |-> "locked", ask |-> ask, decision |-> Decision(ask),
                 policy |-> GatePolicy(ask)]
<1>3. /\ Decision(ask) \in Decisions /\ GatePolicy(ask) \in PolicyRecord
      /\ GatePolicy(ask) \in {NoPolicy, policy[ask.agent]}
      /\ GateMode = "required" /\ ~Production /\ ~ask.bypass
           => Evidence(ask, GatePolicy(ask))
  BY <1>1, AdmittedDecision
<1>4. w \in LockedRecord /\ w.pc = "locked" /\ w.ask = ask /\ w.policy = GatePolicy(ask)
  BY <1>3 DEF LockedRecord
<1>5. req' = [req EXCEPT ![q] = w] /\ ask.agent \in Agents /\ lock[ask.agent] = NoRequest
  BY <1>1 DEF ReleaseRequest, LockFree
<1> HIDE DEF w
<1>6. \A x \in Requests : req'[x] = IF x = q THEN w ELSE req[x]
  BY <1>5 DEF RequestsOK
<1>7. \A a \in Agents : lock'[a] = IF a = ask.agent THEN q ELSE lock[a]
  BY <1>1 DEF ControlTypeOK
<1>8. EvalInv'
  BY <1>2, EvalStep
<1>9. ControlTypeOK'
  <2>1. lock' \in [Agents -> Requests \cup {NoRequest}]
    BY <1>1, <1>5 DEF ControlTypeOK
  <2>2. \A a \in Agents, x \in Requests :
          lock'[a] = x => req'[x].pc = "locked" /\ req'[x].ask.agent = a
    <3> HIDE DEF ControlInv
    <3>1. \A a \in Agents : lock[a] # q
      BY <1>2, LockHolders DEF Idle
    <3> QED BY <1>4, <1>6, <1>7, <3>1, LockHolders
  <2>3. TypeOK'
    BY <1>8 DEF EvalInv
  <2> QED BY <1>2, <2>1, <2>2, <2>3 DEF ControlTypeOK
<1>10. RequestsOK'
  <2>1. req' \in [Requests -> {Idle} \cup CreatingRecord \cup LockedRecord]
    BY <1>4, <1>5 DEF RequestsOK
  <2>2. ASSUME NEW x \in Requests, req'[x].pc = "locked"
        PROVE  lock'[req'[x].ask.agent] = x
    <3>1. CASE x = q
      BY <1>4, <1>5, <1>6, <1>7, <3>1
    <3>2. CASE x # q
      <4>1. Locked(x) /\ req'[x] = req[x]
        BY <1>6, <2>2, <3>2 DEF Locked
      <4>2. req[x].ask.agent \in Agents /\ lock[req[x].ask.agent] = x
        BY <4>1, LockedFacts
      <4> QED BY <1>5, <1>7, <4>1, <4>2, ControlAssumption
    <3> QED BY <3>1, <3>2
  <2> QED BY <2>1, <2>2 DEF RequestsOK, Locked
<1>11. AdmissionHolds'
  <2> SUFFICES ASSUME NEW x \in Requests, req'[x].pc = "locked" PROVE StillAdmitted(x)'
    BY DEF AdmissionHolds, Locked
  <2>1. CASE x = q
    <3>1. req'[x] = w
      BY <1>6, <2>1
    <3> QED BY <1>1, <1>2, <1>3, <1>4, <3>1
            DEF StillAdmitted, Admissible, GenerationCurrent, RollbackTarget, Evidence, evalVars
  <2>2. CASE x # q
    <3>1. StillAdmitted(x) /\ req'[x] = req[x]
      BY <1>6, <2>2 DEF AdmissionHolds, Locked
    <3> QED BY <1>2, <3>1 DEF StillAdmitted, GenerationCurrent, RollbackTarget, Evidence, evalVars
  <2> QED BY <2>1, <2>2
<1>12. ReleaseHasEvidence'
  BY <1>2 DEF ReleaseHasEvidence, evalVars
<1>13. ReleasesFormHistory' /\ HistoryBegins'
  BY <1>2, HistoryUntouched
<1> QED BY <1>8, <1>9, <1>10, <1>11, <1>12, <1>13

\* The end of a release gives back its lock.
LEMMA UnlockKeeps ==
  ASSUME ControlInv, NEW q \in Requests, Locked(q),
         lock' = [lock EXCEPT ![req[q].ask.agent] = NoRequest],
         req' = [req EXCEPT ![q] = Idle]
  PROVE  /\ RequestsOK'
         /\ lock' \in [Agents -> Requests \cup {NoRequest}]
         /\ \A b \in Agents, x \in Requests :
              lock'[b] = x => req'[x].pc = "locked" /\ req'[x].ask.agent = b
         /\ \A x \in Requests : req'[x].pc = "locked" =>
              /\ Locked(x) /\ req'[x] = req[x] /\ x # q
              /\ req[x].ask.agent # req[q].ask.agent
<1> DEFINE a == req[q].ask.agent
<1>1. a \in Agents /\ lock[a] = q
  BY LockedFacts
<1>2. \A x \in Requests : req'[x] = IF x = q THEN Idle ELSE req[x]
  BY DEF ControlInv, RequestsOK
<1>3. \A b \in Agents : lock'[b] = IF b = a THEN NoRequest ELSE lock[b]
  BY <1>1 DEF ControlInv, ControlTypeOK
<1>4. \A x \in Requests : req'[x].pc = "locked" =>
        /\ Locked(x) /\ req'[x] = req[x] /\ x # q
        /\ req[x].ask.agent \in Agents /\ req[x].ask.agent # a /\ lock[req[x].ask.agent] = x
  <2> SUFFICES ASSUME NEW x \in Requests, req'[x].pc = "locked"
               PROVE  /\ Locked(x) /\ req'[x] = req[x] /\ x # q
                      /\ req[x].ask.agent \in Agents /\ req[x].ask.agent # a
                      /\ lock[req[x].ask.agent] = x
    OBVIOUS
  <2>1. x # q /\ req'[x] = req[x] /\ Locked(x)
    BY <1>2 DEF Idle, Locked
  <2>2. req[x].ask.agent \in Agents /\ lock[req[x].ask.agent] = x
    BY <2>1, LockedFacts
  <2> QED BY <1>1, <2>1, <2>2
<1>5. lock' \in [Agents -> Requests \cup {NoRequest}]
  BY DEF ControlInv, ControlTypeOK
<1>6. \A b \in Agents, x \in Requests :
        lock'[b] = x => req'[x].pc = "locked" /\ req'[x].ask.agent = b
  <2> SUFFICES ASSUME NEW b \in Agents, NEW x \in Requests, lock'[b] = x
               PROVE  req'[x].pc = "locked" /\ req'[x].ask.agent = b
    OBVIOUS
  <2>1. b # a /\ lock[b] = x
    BY <1>3, ControlAssumption
  <2>2. req[x].pc = "locked" /\ req[x].ask.agent = b
    BY <2>1 DEF ControlInv, ControlTypeOK
  <2> QED BY <1>2, <2>1, <2>2
<1>7. RequestsOK'
  <2>1. req' \in [Requests -> {Idle} \cup CreatingRecord \cup LockedRecord]
    BY DEF ControlInv, RequestsOK
  <2>2. \A x \in Requests : req'[x].pc = "locked" => lock'[req'[x].ask.agent] = x
    BY <1>3, <1>4
  <2> QED BY <2>1, <2>2 DEF RequestsOK, Locked
<1> QED BY <1>4, <1>5, <1>6, <1>7

\* A release commits: it extends the history of its Agent with what it checked.
LEMMA CommitStep ==
  ASSUME ControlInv, NEW q \in Requests, Commit(q)
  PROVE  ControlInv'
<1> USE DEF ControlInv
<1> DEFINE ask == req[q].ask
<1> DEFINE a == ask.agent
<1> DEFINE old == deployed[a]
<1>1. Locked(q) /\ UNCHANGED <<evalVars, agents, default, draft, versions>>
  BY DEF Commit, Locked
<1>2. /\ ask \in ReleaseRequest /\ req[q].decision \in Decisions
      /\ req[q].policy \in PolicyRecord /\ a \in Agents /\ StillAdmitted(q)
  BY <1>1, LockedFacts
<1>3. /\ lock' = [lock EXCEPT ![a] = NoRequest]
      /\ req' = [req EXCEPT ![q] = Idle]
  BY DEF Commit
<1>4. /\ RequestsOK'
      /\ lock' \in [Agents -> Requests \cup {NoRequest}]
      /\ \A b \in Agents, x \in Requests :
           lock'[b] = x => req'[x].pc = "locked" /\ req'[x].ask.agent = b
      /\ \A x \in Requests : req'[x].pc = "locked" =>
           /\ Locked(x) /\ req'[x] = req[x] /\ x # q /\ req[x].ask.agent # a
  BY <1>1, <1>3, UnlockKeeps
<1>5. EvalInv'
  BY <1>1, EvalStep
<1>6. CASE UNCHANGED <<deployed, releases>>
  <2>1. ControlTypeOK'
    BY <1>1, <1>4, <1>5, <1>6 DEF ControlTypeOK, EvalInv
  <2>2. AdmissionHolds'
    <3> SUFFICES ASSUME NEW x \in Requests, req'[x].pc = "locked" PROVE StillAdmitted(x)'
      BY DEF AdmissionHolds, Locked
    <3>1. StillAdmitted(x) /\ req'[x] = req[x]
      BY <1>4 DEF AdmissionHolds
    <3> QED BY <1>1, <1>6, <3>1
            DEF StillAdmitted, GenerationCurrent, RollbackTarget, Evidence, evalVars
  <2>3. ReleaseHasEvidence'
    BY <1>1, <1>6 DEF ReleaseHasEvidence, evalVars
  <2>4. ReleasesFormHistory' /\ HistoryBegins'
    BY <1>6, HistoryUntouched
  <2> QED BY <1>4, <1>5, <2>1, <2>2, <2>3, <2>4
<1> DEFINE rel == [agent |-> ask.agent, version |-> ask.version,
                   previous |-> old.version, action |-> ask.action,
                   key |-> ask.key, bypass |-> ask.bypass,
                   evaluation |-> ask.evaluation, expected |-> ask.expected,
                   decision |-> req[q].decision, policy |-> req[q].policy]
<1> DEFINE d == [version |-> ask.version, generation |-> old.generation + 1]
<1>7. CASE deployed' = [deployed EXCEPT ![a] = d] /\ releases' = Append(releases, rel)
  <2>1. old \in DeploymentRow /\ releases \in Seq(ReleaseRow)
    BY <1>2 DEF ControlTypeOK
  <2>2. /\ rel \in ReleaseRow /\ rel.agent = a /\ rel.version = ask.version
        /\ rel.previous = old.version /\ rel.action = ask.action /\ rel.bypass = ask.bypass
        /\ rel.evaluation = ask.evaluation /\ rel.expected = ask.expected
        /\ rel.policy = req[q].policy
    BY <1>2, <2>1 DEF ReleaseRow, ReleaseRequest, DeploymentRow, Decisions
  <2>3. /\ d \in DeploymentRow /\ d.version = ask.version
        /\ d.generation = old.generation + 1
    BY <1>2, <2>1 DEF ReleaseRequest, DeploymentRow
  <2> HIDE DEF rel, d
  <2>4. \A b \in Agents : deployed'[b] = IF b = a THEN d ELSE deployed[b]
    BY <1>7 DEF ControlTypeOK
  <2>5. /\ releases' \in Seq(ReleaseRow) /\ releases'[Len(releases) + 1] = rel
        /\ DOMAIN releases' = DOMAIN releases \cup {Len(releases) + 1}
        /\ \A i \in DOMAIN releases : releases'[i] = releases[i]
    BY <1>7, <2>1, <2>2
  <2>6. ControlTypeOK'
    <3>1. deployed' \in [Agents -> DeploymentRow]
      BY <1>7, <2>3 DEF ControlTypeOK
    <3> QED BY <1>1, <1>4, <1>5, <2>5, <3>1 DEF ControlTypeOK, EvalInv
  <2>7. AdmissionHolds'
    <3> SUFFICES ASSUME NEW x \in Requests, req'[x].pc = "locked" PROVE StillAdmitted(x)'
      BY DEF AdmissionHolds, Locked
    <3>1. StillAdmitted(x) /\ req'[x] = req[x] /\ req[x].ask.agent # a
      BY <1>4 DEF AdmissionHolds
    <3>2. req[x].ask.agent \in Agents
      BY <1>4, LockedFacts
    <3>3. deployed'[req[x].ask.agent] = deployed[req[x].ask.agent]
      BY <2>4, <3>1, <3>2
    <3>4. RollbackTarget(req[x].ask) => RollbackTarget(req[x].ask)'
      BY <2>5, <3>1 DEF RollbackTarget
    <3> QED BY <1>1, <3>1, <3>3, <3>4 DEF StillAdmitted, GenerationCurrent, Evidence, evalVars
  <2>8. ReleaseHasEvidence'
    <3> SUFFICES ASSUME GateMode = "required", ~Production, NEW i \in DOMAIN releases',
                        ~releases'[i].bypass
                 PROVE  Evidence(releases'[i], releases'[i].policy)
      BY <1>1 DEF ReleaseHasEvidence, Evidence, evalVars
    <3>1. CASE i \in DOMAIN releases
      BY <2>5, <3>1 DEF ReleaseHasEvidence, Evidence
    <3>2. CASE i = Len(releases) + 1
      BY <1>2, <2>2, <2>5, <3>2 DEF StillAdmitted, Evidence
    <3> QED BY <2>5, <3>1, <3>2
  <2>9. \A b \in Agents : HistoryOf(releases, b, deployed[b])
    BY HistoryForm
  <2>10. HistoryOf(releases', a, deployed'[a])
    <3>1. Of(releases, a) = {} => old.version = 0
      BY <1>2 DEF HistoryBegins, ReleasesOf, Of
    <3>2. rel.version # old.version /\ rel.expected \in {-1, old.generation}
      BY <1>2, <2>2 DEF StillAdmitted, GenerationCurrent
    <3>3. rel.action = "rollback" =>
            \E j \in Of(releases, a) : releases[j].version = rel.version
      BY <1>2, <2>2 DEF StillAdmitted, RollbackTarget, Of
    <3>4. HistoryOf(releases, a, old)
      BY <1>2, <2>9
    <3> HIDE DEF a, old, ask
    <3>5. HistoryOf(Append(releases, rel), a, d)
      BY <1>2, <2>1, <2>2, <2>3, <3>1, <3>2, <3>3, <3>4, HistoryGrows
    <3> QED BY <1>2, <1>7, <2>4, <3>5
  <2>11. \A b \in Agents \ {a} : HistoryOf(releases', b, deployed'[b])
    BY <1>7, <2>1, <2>2, <2>4, <2>9, HistoryOfOthers
  <2>12. ReleasesFormHistory'
    <3>1. ReleasesFormHistory' <=> \A b \in Agents : HistoryOf(releases', b, deployed'[b])
      BY DEF ReleasesFormHistory, HistoryOf, EntryFits, Of, Before, Until, LastOf, ReleasesOf,
             Generation
    <3> QED BY <2>10, <2>11, <3>1
  <2>13. HistoryBegins'
    <3> SUFFICES ASSUME NEW b \in Agents, ReleasesOf(b)' = {} PROVE deployed'[b].version = 0
      BY DEF HistoryBegins
    <3>1. b # a
      BY <2>2, <2>5 DEF ReleasesOf
    <3>2. ReleasesOf(b) = {}
      BY <2>5 DEF ReleasesOf
    <3> QED BY <2>4, <3>1, <3>2 DEF HistoryBegins
  <2> QED BY <1>4, <1>5, <2>6, <2>7, <2>8, <2>12, <2>13
<1>8. \/ UNCHANGED <<deployed, releases>>
      \/ deployed' = [deployed EXCEPT ![a] = d] /\ releases' = Append(releases, rel)
  BY DEF Commit
<1> QED BY <1>6, <1>7, <1>8

\* Every step of the control plane keeps the inductive invariant.
LEMMA ControlStep ==
  ASSUME ControlInv, [Next]_vars
  PROVE  ControlInv'
<1> USE DEF ControlInv
<1>1. ASSUME NEW q \in Requests, NEW a \in Agents, SeeAgents(q, a) PROVE ControlInv'
  <2> DEFINE e == [pc |-> "creating", agent |-> a, default |-> agents = {}]
  <2>1. e \in CreatingRecord /\ e.pc = "creating"
    BY DEF CreatingRecord
  <2>2. req' = [req EXCEPT ![q] = e] /\ req[q] = Idle
    BY <1>1 DEF SeeAgents
  <2> HIDE DEF e
  <2>3. req' \in [Requests -> {Idle} \cup CreatingRecord \cup LockedRecord]
    BY <2>1, <2>2 DEF RequestsOK
  <2>4. \A x \in Requests : req'[x] = req[x] \/ (~Locked(x) /\ req'[x].pc # "locked")
    BY <2>1, <2>2 DEF RequestsOK, Locked, Idle
  <2> QED BY <1>1, <2>3, <2>4, ReleasesUntouched DEF SeeAgents, ControlTypeOK
<1>2. ASSUME NEW q \in Requests, NEW c \in Configs, CreateAgent(q, c) PROVE ControlInv'
  <2>1. req[q] \in CreatingRecord
    BY <1>2 DEF CreateAgent, RequestsOK, Idle, LockedRecord
  <2>2. req' \in [Requests -> {Idle} \cup CreatingRecord \cup LockedRecord]
    BY <1>2 DEF CreateAgent, RequestsOK
  <2>3. \A x \in Requests : req'[x] = req[x] \/ (~Locked(x) /\ req'[x].pc # "locked")
    BY <1>2 DEF CreateAgent, RequestsOK, Locked, Idle
  <2>4. /\ default' \subseteq agents' /\ agents' \subseteq Agents
        /\ draft' \in [Agents -> DraftRow]
    <3>1. CASE Conflicts(q)
      BY <1>2, <3>1 DEF CreateAgent, ControlTypeOK
    <3>2. CASE ~Conflicts(q)
      <4>1. req[q].agent \in Agents
        BY <2>1 DEF CreatingRecord
      <4>2. [revision |-> 1, config |-> c] \in DraftRow
        BY ControlAssumption DEF DraftRow
      <4>3. draft' \in [Agents -> DraftRow]
        BY <1>2, <3>2, <4>1, <4>2 DEF CreateAgent, ControlTypeOK
      <4>4. agents' = agents \cup {req[q].agent}
            /\ default' \subseteq default \cup {req[q].agent}
        BY <1>2, <3>2 DEF CreateAgent
      <4> QED BY <4>1, <4>3, <4>4 DEF ControlTypeOK
    <3> QED BY <3>1, <3>2
  <2> QED BY <1>2, <2>2, <2>3, <2>4, ReleasesUntouched DEF CreateAgent, ControlTypeOK
<1>3. ASSUME NEW a \in Agents, NEW c \in Configs, UpdateDraft(a, c) PROVE ControlInv'
  <2>1. draft[a] \in DraftRow
    BY DEF ControlTypeOK
  <2>2. [revision |-> draft[a].revision + 1, config |-> c] \in DraftRow
    <3>1. draft[a].revision + 1 \in 0..MaxDrafts
      BY <1>3, <2>1, ControlAssumption DEF UpdateDraft, DraftRow
    <3> QED BY <3>1 DEF DraftRow
  <2>3. draft' \in [Agents -> DraftRow]
    BY <1>3, <2>2 DEF UpdateDraft, ControlTypeOK
  <2> QED BY <1>3, <2>3, ReleasesUntouched DEF UpdateDraft, ControlTypeOK, RequestsOK
<1>4. ASSUME NEW a \in Agents, CreateVersion(a) PROVE ControlInv'
  <2> DEFINE old == versions[a]
  <2> DEFINE c == draft[a].config
  <2>1. old \in Seq(Configs) /\ c \in Configs /\ Len(old) \in Nat
    BY DEF ControlTypeOK, DraftRow
  <2>2. versions' = [versions EXCEPT ![a] = Append(old, c)]
    BY <1>4 DEF CreateVersion
  <2>3. old # <<>> => old[Len(old)] # c
    BY <1>4 DEF CreateVersion
  <2>4. \A i \in 1..(Len(old) - 1) : old[i] # old[i + 1]
    BY DEF ControlTypeOK
  <2> HIDE DEF old, c
  <2>5. Append(old, c) \in Seq(Configs) /\ Len(Append(old, c)) = Len(old) + 1
        /\ \A i \in 1..Len(old) : Append(old, c)[i] = old[i]
        /\ Append(old, c)[Len(old) + 1] = c
    BY <2>1
  <2>6. versions' \in [Agents -> Seq(Configs)]
    BY <2>2, <2>5 DEF ControlTypeOK
  <2>7. ASSUME NEW i \in 1..Len(old) PROVE Append(old, c)[i] # Append(old, c)[i + 1]
    <3>1. CASE i = Len(old)
      <4>1. old # <<>>
        BY <2>1, <3>1
      <4> QED BY <2>1, <2>3, <2>5, <3>1, <4>1
    <3>2. CASE i # Len(old)
      <4>1. i \in 1..(Len(old) - 1) /\ i + 1 \in 1..Len(old)
        BY <2>1, <3>2
      <4> QED BY <2>4, <2>5, <4>1
    <3> QED BY <3>1, <3>2
  <2>8. \A b \in Agents : \A i \in 1..(Len(versions'[b]) - 1) :
          versions'[b][i] # versions'[b][i + 1]
    <3> SUFFICES ASSUME NEW b \in Agents, NEW i \in 1..(Len(versions'[b]) - 1)
                 PROVE  versions'[b][i] # versions'[b][i + 1]
      OBVIOUS
    <3>1. CASE b = a
      <4>1. versions'[b] = Append(old, c)
        BY <2>2, <3>1 DEF ControlTypeOK
      <4>2. i \in 1..Len(old)
        BY <2>1, <2>5, <4>1
      <4> QED BY <2>7, <4>1, <4>2
    <3>2. CASE b # a
      BY <2>2, <3>2 DEF ControlTypeOK
    <3> QED BY <3>1, <3>2
  <2> QED BY <1>4, <2>6, <2>8, ReleasesUntouched DEF CreateVersion, ControlTypeOK, RequestsOK
<1>5. ASSUME NEW a \in Agents, SetDefault(a) PROVE ControlInv'
  BY <1>5, ReleasesUntouched DEF SetDefault, ControlTypeOK, RequestsOK
<1>6. ASSUME NEW a \in Agents, NEW s \in DOMAIN dataset.versions, NEW t \in Thresholds,
             NEW b \in BOOLEAN, WritePolicy(a, s, t, b)
      PROVE  ControlInv'
  <2>1. NextEvaluations
    BY <1>6 DEF WritePolicy, NextEvaluations
  <2>2. \A x \in Agents : lock[x] # NoRequest => policy'[x] = policy[x]
    BY <1>6 DEF WritePolicy, LockFree, UpsertPolicy, EvalInv, TypeOK
  <2> QED BY <1>6, <2>1, <2>2, EvaluationsOnly DEF WritePolicy
<1>7. ASSUME NEW p \in Processes, NEW r \in EvalRuns, NEW a \in Agents, NEW v \in Versions,
             Evaluate(p, r, a, v)
      PROVE  ControlInv'
  <2>1. NextEvaluations /\ UNCHANGED policy
    BY <1>7 DEF Evaluate, NextEvaluations, CreateRun
  <2> QED BY <1>7, <2>1, EvaluationsOnly DEF Evaluate
<1>8. CASE RunEvaluations
  <2>1. NextEvaluations
    BY <1>8 DEF RunEvaluations, NextEvaluations
  <2>2. UNCHANGED policy
    <3>1. ASSUME NEW p \in Processes, NEW r \in EvalRuns, TaskStep(p, r) PROVE UNCHANGED policy
      BY <3>1 DEF TaskStep, Submit, Claim, Load, CheckCancel, ExecuteCase, Complete,
                  MarkCancelled, Fail
    <3>2. ASSUME NEW p \in Processes,
                 Close(p) \/ Stopped(p) \/ Crash(p) \/ Start(p) \/ StartSkipping(p)
          PROVE  UNCHANGED policy
      BY <3>2 DEF Close, Stopped, Crash, Start, StartSkipping, Boot
    <3>3. CASE EditDataset
      BY <3>3 DEF EditDataset, CreateDataset, UpdateDatasetDraft, CreateDatasetVersion
    <3>4. ASSUME NEW r \in EvalRuns, RequestCancel(r) PROVE UNCHANGED policy
      BY <3>4 DEF RequestCancel
    <3>5. ASSUME NEW p \in Processes, NEW r \in EvalRuns, TaskFails(p, r) PROVE UNCHANGED policy
      BY <3>5 DEF TaskFails, ClaimFails, BodyFails, HandlerFails, Fault
    <3> QED BY <1>8, <3>1, <3>2, <3>3, <3>4, <3>5 DEF RunEvaluations
  <2> QED BY <1>8, <2>1, <2>2, EvaluationsOnly DEF RunEvaluations
<1>9. CASE UNCHANGED vars
  BY <1>9, EvaluationsOnly DEF vars, evalVars
<1> QED BY <1>1, <1>2, <1>3, <1>4, <1>5, <1>6, <1>7, <1>8, <1>9, LockStep, CommitStep DEF Next

\* The initial state satisfies the invariant.
LEMMA ControlInit == Init => ControlInv
<1> SUFFICES ASSUME Init PROVE ControlInv
  OBVIOUS
<1>1. EvalInv
  BY EvalInit DEF Init
<1>2. ControlTypeOK
  <2>1. (CHOOSE c \in Configs : TRUE) \in Configs
    BY ControlAssumption
  <2>2. draft \in [Agents -> DraftRow]
    BY <2>1, ControlAssumption DEF Init, DraftRow
  <2>3. deployed \in [Agents -> DeploymentRow] /\ versions \in [Agents -> Seq(Configs)]
        /\ releases \in Seq(ReleaseRow) /\ lock \in [Agents -> Requests \cup {NoRequest}]
    BY DEF Init, DeploymentRow
  <2>4. \A a \in Agents : Len(versions[a]) = 0
    BY DEF Init
  <2>5. \A a \in Agents, q \in Requests : lock[a] # q
    BY ControlAssumption DEF Init
  <2> QED BY <1>1, <2>2, <2>3, <2>4, <2>5 DEF ControlTypeOK, Init, EvalInv
<1>3. RequestsOK /\ AdmissionHolds
  BY DEF Init, RequestsOK, AdmissionHolds, Locked, Idle
<1>4. DOMAIN releases = {}
  BY DEF Init
<1>5. \A a \in Agents : ReleasesOf(a) = {}
  BY <1>4 DEF ReleasesOf
<1>6. ReleaseHasEvidence /\ HistoryBegins
  BY <1>4 DEF ReleaseHasEvidence, HistoryBegins, Init
<1>7. ReleasesFormHistory
  BY <1>5, FS_EmptySet DEF ReleasesFormHistory, Init
<1> QED BY <1>1, <1>2, <1>3, <1>6, <1>7 DEF ControlInv

\* ControlInv is an invariant of the control plane.
LEMMA ControlInvariant == Spec => []ControlInv
BY ControlInit, ControlStep, PTL DEF Spec

\* Agents, drafts, versions, releases and locks keep their types: no two successive
\* versions of an Agent are the same, and a lock is held by the request that names it.
THEOREM ControlTypes == Spec => []ControlTypeOK
<1>1. ControlInv => ControlTypeOK
  BY DEF ControlInv
<1> QED BY <1>1, ControlInvariant, PTL

\* In required mode every release without a bypass rests on a finished evaluation
\* of its version that passed under the policy it names, and always will.
THEOREM ReleasesHaveEvidence == Spec => []ReleaseHasEvidence
<1>1. ControlInv => ReleaseHasEvidence
  BY DEF ControlInv
<1> QED BY <1>1, ControlInvariant, PTL

\* However requests for the same and for different Agents interleave, the releases
\* of each Agent form a history without gaps that ends at what is deployed.
THEOREM ReleaseHistory == Spec => []ReleasesFormHistory
<1>1. ControlInv => ReleasesFormHistory
  BY DEF ControlInv
<1> QED BY <1>1, ControlInvariant, PTL

\* A step that commits a release names the policy in force.
LEMMA CommitNamesPolicy ==
  ASSUME ControlInv, [Next]_vars, NEW i \in DOMAIN releases' \ DOMAIN releases
  PROVE  releases'[i].policy \in {NoPolicy, policy'[releases'[i].agent]}
<1>1. ASSUME NEW q \in Requests, Commit(q)
      PROVE  releases'[i].policy \in {NoPolicy, policy'[releases'[i].agent]}
  <2>1. Locked(q) /\ UNCHANGED policy
    BY <1>1 DEF Commit, Locked, evalVars
  <2>2. req[q].policy \in {NoPolicy, policy[req[q].ask.agent]}
    BY <2>1, LockedFacts DEF StillAdmitted
  <2>3. PICK rel : /\ releases' = Append(releases, rel)
                   /\ rel.policy = req[q].policy /\ rel.agent = req[q].ask.agent
    <3>1. releases' # releases
      OBVIOUS
    <3> QED BY <1>1, <3>1 DEF Commit
  <2>4. releases \in Seq(ReleaseRow)
    BY DEF ControlInv, ControlTypeOK
  <2>5. i = Len(releases) + 1 /\ releases'[i] = rel
    BY <2>3, <2>4
  <2> QED BY <2>1, <2>2, <2>3, <2>5
<1>2. (\A q \in Requests : ~Commit(q)) => UNCHANGED releases
  BY DEF Next, vars, controlVars, SeeAgents, CreateAgent, UpdateDraft, CreateVersion, SetDefault,
         LockAgent, WritePolicy, Evaluate, RunEvaluations
<1> QED BY <1>1, <1>2

\* No policy update slips between the assessment of a release and its commit.
THEOREM PolicyUpdatesWait == Spec => PolicyInForce
<1>1. ControlInv /\ [Next]_vars =>
        [\A i \in DOMAIN releases' \ DOMAIN releases :
           releases'[i].policy \in {NoPolicy, policy'[releases'[i].agent]}]_vars
  BY CommitNamesPolicy
<1> QED BY <1>1, ControlInvariant, PTL DEF Spec, PolicyInForce
=============================================================================
