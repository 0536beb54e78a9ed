-------------------------- MODULE RunStreamProofs --------------------------
(***************************************************************************)
(* Machine-checked proofs about RunStream, for every set of runs and       *)
(* processes and every value of LogLength, MaxDeltas and MaxFaults.        *)
(***************************************************************************)
EXTENDS RunStream, TLAPS

TaskTable == [Processes -> [Runs -> Task]]

-----------------------------------------------------------------------------
(* Type correctness *)

\* No task is a task that holds nothing; a submitted one starts like it.
LEMMA NoTaskType ==
  NoTask \in Task /\ [NoTask EXCEPT !.pc = "submitted"] \in Task
BY DEF NoTask, Task, TaskStates, TERMINAL_RUN_STATUSES

\* Replacing an entry by a well-formed one keeps the table well formed.
LEMMA PutTaskType ==
  ASSUME task \in TaskTable, NEW p \in Processes, NEW r \in Runs, NEW t \in Task
  PROVE  [task EXCEPT ![p][r] = t] \in TaskTable
BY DEF TaskTable

\* The helpers that move a task keep the table of tasks well formed.
LEMMA TaskType ==
  ASSUME task \in TaskTable, NEW p \in Processes, NEW r \in Runs,
         NEW pc \in TaskStates, NEW s \in TERMINAL_RUN_STATUSES
  PROVE  /\ Goto(p, r, pc) => task' \in TaskTable
         /\ EndTask(p, r) => task' \in TaskTable
         /\ Fail(p, r, s) => task' \in TaskTable
<1>1. NoTask \in Task
  BY NoTaskType
<1>2. "failing" \in TaskStates
  BY DEF TaskStates
<1>3. Goto(p, r, pc) => task' \in TaskTable
  <2> SUFFICES ASSUME Goto(p, r, pc) PROVE task' \in TaskTable
    OBVIOUS
  <2> DEFINE t == [task[p][r] EXCEPT !.pc = pc]
  <2>1. t \in Task
    BY DEF TaskTable, Task
  <2>2. task' = [task EXCEPT ![p][r] = t]
    BY DEF Goto
  <2> HIDE DEF t
  <2> QED BY <2>1, <2>2, PutTaskType
<1>4. EndTask(p, r) => task' \in TaskTable
  BY <1>1 DEF EndTask, TaskTable
<1>5. Fail(p, r, s) => task' \in TaskTable
  BY <1>2 DEF Fail, TaskTable, Task
<1> QED BY <1>3, <1>4, <1>5

\* A request that is over is a well-formed request.
LEMMA NoHandlerType ==
  NoHandler \in Handler
BY EmbeddedAssumption DEF NoHandler, Handler

\* A publication, lost or not, lengthens the log and never drops what is not there.
LEMMA PublishType ==
  ASSUME TypeOK, NEW r \in Runs, NEW event \in RunEvents, Publish(r, event)
  PROVE  /\ log' \in [Runs -> Seq(RunEvents)]
         /\ gone' \in [Runs -> Nat]
         /\ \A s \in Runs : gone'[s] <= Len(log'[s]) /\ Len(log[s]) <= Len(log'[s])
         /\ faults' \in 0..MaxFaults
<1>1. CASE Add(r, event) /\ UNCHANGED faults
  <2>1. log' \in [Runs -> Seq(RunEvents)]
    BY <1>1 DEF Add, TypeOK
  <2>2. /\ Len(log'[r]) = Len(log[r]) + 1
        /\ \A s \in Runs \ {r} : log'[s] = log[s]
    BY <1>1 DEF Add, TypeOK
  <2>3. CASE UNCHANGED gone
    <3>1. \A s \in Runs : Len(log[s]) \in Nat /\ Len(log'[s]) \in Nat /\ gone[s] \in Nat
      BY <2>1 DEF TypeOK
    <3>2. \A s \in Runs : Len(log[s]) <= Len(log'[s])
      BY <2>2, <3>1
    <3>3. \A s \in Runs : gone'[s] <= Len(log'[s])
      BY <2>3, <3>1, <3>2 DEF TypeOK
    <3> QED BY <1>1, <2>1, <2>3, <3>2, <3>3 DEF TypeOK
  <2>4. CASE /\ Len(log[r]) + 1 > gone[r] + LogLength
             /\ gone' = [gone EXCEPT ![r] = Len(log[r]) + 1 - LogLength]
    <3>1. Len(log[r]) + 1 - LogLength \in Nat
      BY <2>4, EmbeddedAssumption DEF TypeOK
    <3> QED BY <1>1, <2>1, <2>2, <2>4, <3>1, EmbeddedAssumption DEF TypeOK
  <2> QED BY <1>1, <2>3, <2>4 DEF Add
<1>2. CASE faults < MaxFaults /\ faults' = faults + 1 /\ UNCHANGED <<log, gone>>
  <2>1. faults' \in 0..MaxFaults
    BY <1>2, EmbeddedAssumption DEF TypeOK
  <2> QED BY <1>2, <2>1 DEF TypeOK
<1> QED BY <1>1, <1>2 DEF Publish

\* Every step of the processes keeps the server part of the state typed and
\* never shortens a log.
LEMMA ServerTypeStep ==
  ASSUME TypeOK, ServerNext
  PROVE  TypeOK' /\ \A s \in Runs : Len(log[s]) <= Len(log'[s])
<1> DEFINE Longer == \A s \in Runs : Len(log[s]) <= Len(log'[s])
<1> USE DEF TypeOK
<1> task \in TaskTable
  BY DEF TaskTable
<1>T. \A s \in Runs : Len(log[s]) \in Nat
  OBVIOUS
<1>F. faults < MaxFaults => faults + 1 \in 0..MaxFaults
  BY EmbeddedAssumption
<1>S. /\ {"submitted", "claiming", "claimed", "model", "completing", "telling"} \subseteq TaskStates
      /\ {"completed", "failed", "cancelled", "timed_out"} \subseteq TERMINAL_RUN_STATUSES
      /\ TERMINAL_RUN_STATUSES \subseteq RunEvents
      /\ "delta" \in RunEvents
      /\ {"queued", "running", "overdue"} \cup TERMINAL_RUN_STATUSES \subseteq RunStatus
  BY DEF TaskStates, InTry, TERMINAL_RUN_STATUSES, RunEvents, RunStatus, Active, Running
<1>1. ASSUME NEW r \in Runs, RequestCancel(r)
      PROVE  TypeOK' /\ Longer
  BY <1>1, <1>S, <1>T DEF RequestCancel
<1>2. ASSUME NEW r \in Runs, SignalCancel(r)
      PROVE  TypeOK' /\ Longer
  BY <1>2, <1>S, <1>T DEF SignalCancel
<1>3. ASSUME NEW r \in Runs, Age(r)
      PROVE  TypeOK' /\ Longer
  BY <1>3, <1>S, <1>T DEF Age
<1>4. ASSUME NEW r \in Runs, Expire(r)
      PROVE  TypeOK' /\ Longer
  BY <1>4, <1>T DEF Expire
<1>5. ASSUME NEW p \in Processes, NEW r \in Runs, CreateRun(p, r)
      PROVE  TypeOK' /\ Longer
  BY <1>5, <1>S, <1>T DEF CreateRun, Handler
<1>6. ASSUME NEW p \in Processes, NEW r \in Runs, Submit(p, r)
      PROVE  TypeOK' /\ Longer
  <2>1. task' \in TaskTable
    BY <1>6, <1>S, TaskType DEF Submit, SubmitTask
  <2>2. CASE up[p] = "up"
    <3>1. handler' = [handler EXCEPT ![r] = NoHandler]
      BY <1>6, <2>2 DEF Submit, SubmitTask
    <3>2. handler' \in [Runs -> Handler]
      BY <3>1, NoHandlerType
    <3> QED BY <1>6, <1>T, <2>1, <3>2 DEF Submit, SubmitTask, TaskTable
  <2>3. CASE up[p] # "up"
    <3>1. handler' = [handler EXCEPT ![r].pc = "rejecting"]
      BY <1>6, <2>3 DEF Submit, SubmitTask
    <3>2. handler' \in [Runs -> Handler]
      BY <3>1 DEF Handler
    <3> QED BY <1>6, <1>T, <2>1, <3>2 DEF Submit, SubmitTask, TaskTable
  <2> QED BY <2>2, <2>3
<1>7. ASSUME NEW p \in Processes, NEW r \in Runs, RejectSubmission(p, r)
      PROVE  TypeOK' /\ Longer
  <2>1. handler' \in [Runs -> Handler]
    <3>1. CASE status[r] \in TERMINAL_RUN_STATUSES
      BY <1>7, <3>1, NoHandlerType DEF RejectSubmission
    <3>2. CASE status[r] \notin TERMINAL_RUN_STATUSES
      <4>1. handler' = [handler EXCEPT ![r].pc = "telling"]
        BY <1>7, <3>2 DEF RejectSubmission
      <4> QED BY <4>1 DEF Handler
    <3> QED BY <3>1, <3>2
  <2>2. status' \in [Runs -> RunStatus]
    <3>1. "failed" \in RunStatus
      BY <1>S
    <3>2. status' = status \/ status' = [status EXCEPT ![r] = "failed"]
      BY <1>7 DEF RejectSubmission
    <3> QED BY <3>1, <3>2
  <2>3. UNCHANGED <<cancel, log, gone, up, task, faults, claims>>
    BY <1>7 DEF RejectSubmission
  <2> QED BY <1>T, <2>1, <2>2, <2>3
<1>8. ASSUME NEW p \in Processes, NEW r \in Runs, TellRejection(p, r)
      PROVE  TypeOK' /\ Longer
  BY <1>8, <1>S, PublishType, NoHandlerType DEF TellRejection
<1>9. ASSUME NEW p \in Processes, NEW r \in Runs, RejectFails(p, r)
      PROVE  TypeOK' /\ Longer
  BY <1>9, <1>T, <1>F, NoHandlerType DEF RejectFails
<1>10. ASSUME NEW p \in Processes, NEW r \in Runs, Execute(p, r)
      PROVE  TypeOK' /\ Longer
  <2>1. task' \in TaskTable
    BY <1>10, <1>S, TaskType DEF Execute
  <2> QED BY <1>10, <1>S, <1>T, <2>1 DEF Execute, TaskTable
<1>11. ASSUME NEW p \in Processes, NEW r \in Runs, ExecuteClosed(p, r)
      PROVE  TypeOK' /\ Longer
  <2>1. task' \in TaskTable
    BY <1>11, <1>S, TaskType DEF ExecuteClosed
  <2> QED BY <1>11, <1>S, <1>T, <2>1 DEF ExecuteClosed, TaskTable
<1>12. ASSUME NEW p \in Processes, NEW r \in Runs, ClaimRun(p, r)
      PROVE  TypeOK' /\ Longer
  <2>1. task' \in TaskTable
    BY <1>12, <1>S, TaskType DEF ClaimRun, Claim
  <2>2. status' \in [Runs -> RunStatus] /\ claims' \in [Runs -> Nat]
    <3>1. CASE status[r] = "queued"
      <4>1. /\ status' = [status EXCEPT ![r] = "running"]
            /\ claims' = [claims EXCEPT ![r] = @ + 1]
        BY <1>12, <3>1 DEF ClaimRun, Claim
      <4>2. "running" \in RunStatus /\ claims[r] + 1 \in Nat
        BY <1>S
      <4> QED BY <4>1, <4>2
    <3>2. CASE status[r] # "queued"
      BY <1>12, <3>2 DEF ClaimRun
    <3> QED BY <3>1, <3>2
  <2> QED BY <1>12, <1>S, <1>T, <2>2, <2>1 DEF ClaimRun, Claim, TaskTable
<1>13. ASSUME NEW p \in Processes, NEW r \in Runs, ClaimFails(p, r)
      PROVE  TypeOK' /\ Longer
  <2>1. task' \in TaskTable
    BY <1>13, <1>S, TaskType DEF ClaimFails
  <2> QED BY <1>13, <1>S, <1>T, <1>F, <2>1 DEF ClaimFails, TaskTable
<1>14. ASSUME NEW p \in Processes, NEW r \in Runs, Prepare(p, r)
      PROVE  TypeOK' /\ Longer
  <2>1. task' \in TaskTable
    BY <1>14, <1>S, TaskType DEF Prepare
  <2> QED BY <1>14, <1>S, <1>T, <2>1 DEF Prepare, TaskTable
<1>15. ASSUME NEW p \in Processes, NEW r \in Runs, AgentRun(p, r)
      PROVE  TypeOK' /\ Longer
  <2>1. task' \in TaskTable
    BY <1>15, <1>S, TaskType DEF AgentRun
  <2> QED BY <1>15, <1>S, <1>T, <2>1 DEF AgentRun, TaskTable
<1>16. ASSUME NEW p \in Processes, NEW r \in Runs, CompleteRun(p, r)
      PROVE  TypeOK' /\ Longer
  <2>1. CASE status[r] \in Running
    <3>1. [pc |-> "announcing", out |-> "completed"] \in Task
      BY <1>S DEF Task, TaskStates, InTry
    <3>2. task' \in TaskTable
      BY <1>16, <2>1, <3>1, PutTaskType DEF CompleteRun
    <3>3. status' \in [Runs -> RunStatus]
      <4>1. "completed" \in RunStatus
        BY <1>S
      <4>2. status' = [status EXCEPT ![r] = "completed"]
        BY <1>16, <2>1 DEF CompleteRun
      <4> QED BY <4>1, <4>2
    <3>4. UNCHANGED <<cancel, log, gone, handler, up, faults, claims>>
      BY <1>16, <2>1 DEF CompleteRun
    <3> QED BY <1>T, <3>2, <3>3, <3>4 DEF TaskTable
  <2>2. CASE status[r] \notin Running
    <3>1. task' \in TaskTable
      BY <1>16, <1>S, <2>2, TaskType DEF CompleteRun
    <3> QED BY <1>16, <1>T, <2>2, <3>1 DEF CompleteRun, TaskTable
  <2> QED BY <2>1, <2>2
<1>17. ASSUME NEW p \in Processes, NEW r \in Runs, FinishError(p, r)
      PROVE  TypeOK' /\ Longer
  <2>1. task' \in TaskTable
    BY <1>17, <1>S, TaskType DEF FinishError
  <2>2. task[p][r].out \in TERMINAL_RUN_STATUSES
    BY DEF TaskTable, Task
  <2>3. status' \in [Runs -> RunStatus]
    BY <1>17, <1>S, <2>2 DEF FinishError
  <2> QED BY <1>17, <1>T, <2>1, <2>3 DEF FinishError, TaskTable
<1>18. ASSUME NEW p \in Processes, NEW r \in Runs, FinishFails(p, r)
      PROVE  TypeOK' /\ Longer
  <2>1. task' \in TaskTable
    BY <1>18, <1>S, TaskType DEF FinishFails
  <2> QED BY <1>18, <1>S, <1>T, <1>F, <2>1 DEF FinishFails, TaskTable
<1>19. ASSUME NEW p \in Processes, NEW r \in Runs, TellOutcome(p, r)
      PROVE  TypeOK' /\ Longer
  <2>1. task[p][r].out \in RunEvents
    BY <1>S DEF TaskTable, Task
  <2>2. task' \in TaskTable
    BY <1>19, <1>S, TaskType DEF TellOutcome
  <2> QED BY <1>19, <2>1, <2>2, PublishType DEF TellOutcome, TaskTable
<1>20. ASSUME NEW p \in Processes, NEW r \in Runs, OnDelta(p, r)
      PROVE  TypeOK' /\ Longer
  <2>1. task' \in TaskTable
    BY <1>20, <1>S, TaskType DEF OnDelta
  <2>2. CASE UNCHANGED <<log, gone, faults>>
    BY <1>20, <1>T, <2>1, <2>2 DEF OnDelta, TaskTable
  <2>3. CASE Publish(r, "delta")
    BY <1>20, <1>S, <2>1, <2>3, PublishType DEF OnDelta, TaskTable
  <2> QED BY <1>20, <2>2, <2>3 DEF OnDelta
<1>21. ASSUME NEW p \in Processes, NEW r \in Runs, CancelTask(p, r)
      PROVE  TypeOK' /\ Longer
  <2>1. task' \in TaskTable
    BY <1>21, <1>S, TaskType DEF CancelTask
  <2>2. status' \in [Runs -> RunStatus]
    BY <1>21, <1>S DEF CancelTask
  <2>3. claims' \in [Runs -> Nat]
    <3>1. claims[r] + 1 \in Nat
      OBVIOUS
    <3> QED BY <1>21, <3>1 DEF CancelTask
  <2> QED BY <1>21, <1>T, <2>1, <2>2, <2>3 DEF CancelTask, TaskTable
<1>22. ASSUME NEW p \in Processes, Close(p)
      PROVE  TypeOK' /\ Longer
  BY <1>22, <1>T DEF Close
<1>23. ASSUME NEW p \in Processes, Crash(p)
      PROVE  TypeOK' /\ Longer
  BY <1>23, <1>T, NoTaskType, NoHandlerType DEF Crash, Exit, TaskTable
<1>24. ASSUME NEW p \in Processes, Start(p)
      PROVE  TypeOK' /\ Longer
  BY <1>24, <1>S, <1>T, NoTaskType DEF Start, Recovered, TaskTable
<1> HIDE DEF TypeOK
<1> QED
  BY <1>1, <1>2, <1>3, <1>4, <1>5, <1>6, <1>7, <1>8, <1>9, <1>10, <1>11, <1>12, <1>13,
     <1>14, <1>15, <1>16, <1>17, <1>18, <1>19, <1>20, <1>21, <1>22, <1>23, <1>24
  DEF ServerNext, TaskStep, HandlerStep

\* A block that is cut off moves the cursor behind it and is remembered.
LEMMA CutMoves ==
  ASSUME StreamTypeOK, NEW r \in Runs, BreakInside(r)
  PROVE  /\ NextEvent(r) \in Nat /\ NextEvent(r) <= Len(log[r])
         /\ conn' \in [Runs -> Connection]
         /\ conn[r].pc # "idle" /\ conn'[r].pc = "retrying"
         /\ conn'[r].cursor = NextEvent(r)
         /\ conn'[r].cut = conn[r].cut \cup {NextEvent(r)}
         /\ \A x \in Runs \ {r} : conn'[x] = conn[x]
<1>1. NextEvent(r) \in Nat /\ NextEvent(r) <= Len(log[r])
  BY DEF BreakInside, NextEvent, StreamTypeOK, TypeOK, Connection
<1> DEFINE n == NextEvent(r)
<1> DEFINE c == [conn[r] EXCEPT !.pc = "retrying", !.cursor = n, !.cut = conn[r].cut \cup {n}]
<1>2. conn[r] \in Connection /\ n \in Nat
  BY <1>1 DEF StreamTypeOK
<1>3. conn' = [conn EXCEPT ![r] = c]
  BY DEF BreakInside
<1> HIDE DEF n
<1>4. c.pc = "retrying" /\ c.cursor = n /\ c.cut = conn[r].cut \cup {n} /\ c \in Connection
  BY <1>2 DEF Connection
<1> HIDE DEF c
<1>5. conn[r].pc # "idle"
  BY DEF BreakInside
<1> QED BY <1>1, <1>3, <1>4, <1>5 DEF StreamTypeOK, n

\* Every message of the page and every event it is sent keep the state typed.
LEMMA TypeStep ==
  ASSUME StreamTypeOK, [Next]_vars
  PROVE  StreamTypeOK'
<1> USE DEF StreamTypeOK
<1>1. CASE ServerNext /\ UNCHANGED <<conn, shown>>
  <2>1. TypeOK' /\ \A s \in Runs : Len(log[s]) <= Len(log'[s])
    BY <1>1, ServerTypeStep
  <2>2. \A s \in Runs : Len(log[s]) \in Nat /\ Len(log'[s]) \in Nat
    BY <2>1 DEF TypeOK
  <2>3. \A s \in Runs : conn'[s].cursor <= Len(log'[s])
    <3>1. \A s \in Runs : conn[s].cursor \in Nat /\ conn'[s].cursor = conn[s].cursor
      BY <1>1 DEF Connection
    <3> QED BY <2>1, <2>2, <3>1
  <2> QED BY <1>1, <2>1, <2>3
<1>2. ASSUME UNCHANGED serverVars PROVE TypeOK'
  BY <1>2 DEF TypeOK, serverVars
<1>3. CASE UNCHANGED vars
  BY <1>3 DEF TypeOK, vars
<1>4. ASSUME NEW r \in Runs, Follow(r) PROVE StreamTypeOK'
  <2>1. [NoConn EXCEPT !.pc = "reading"] \in Connection /\ NoConn.cursor = 0
    BY DEF NoConn, Connection, TERMINAL_RUN_STATUSES
  <2>2. Len(log[r]) \in Nat
    BY DEF TypeOK
  <2>3. \A s \in Runs : conn'[s].cursor <= Len(log'[s])
    BY <1>4, <2>1, <2>2 DEF Follow, serverVars, NoConn
  <2>4. conn' \in [Runs -> Connection] /\ shown' \in [Runs -> Seq(Nat)]
    BY <1>4, <2>1 DEF Follow
  <2> QED BY <1>2, <1>4, <2>3, <2>4 DEF Follow
<1>5. ASSUME NEW r \in Runs, Break(r) PROVE StreamTypeOK'
  <2>1. NoConn \in Connection /\ NoConn.cursor = 0 /\ Len(log[r]) \in Nat
    BY DEF NoConn, Connection, TERMINAL_RUN_STATUSES, TypeOK
  <2>2. CASE conn' = [conn EXCEPT ![r].pc = "retrying"]
    BY <1>2, <1>5, <2>2 DEF Break, serverVars, Connection
  <2>3. CASE conn' = [conn EXCEPT ![r] = NoConn]
    BY <1>2, <1>5, <2>1, <2>3 DEF Break, serverVars
  <2> QED BY <1>5, <2>2, <2>3 DEF Break
<1>6. ASSUME NEW r \in Runs, Resume(r) PROVE StreamTypeOK'
  BY <1>2, <1>6 DEF Resume, serverVars, Connection
<1>7. ASSUME NEW r \in Runs, Deliver(r) PROVE StreamTypeOK'
  <2>1. NextEvent(r) \in Nat /\ NextEvent(r) <= Len(log[r])
    BY <1>7 DEF Deliver, OnEvent, NextEvent, TypeOK, Connection
  <2>2. conn' \in [Runs -> Connection]
    BY <1>7, <2>1 DEF Deliver, OnEvent, Connection
  <2>3. \A s \in Runs : conn'[s].cursor <= Len(log'[s])
    BY <1>7, <2>1 DEF Deliver, OnEvent, serverVars, Connection
  <2>4. shown' \in [Runs -> Seq(Nat)]
    BY <1>7, <2>1 DEF Deliver, OnEvent
  <2> QED BY <1>2, <1>7, <2>2, <2>3, <2>4 DEF Deliver, OnEvent
<1>10. ASSUME NEW r \in Runs, BreakInside(r) PROVE StreamTypeOK'
  <2>1. UNCHANGED serverVars /\ log' = log /\ shown' = shown
    BY <1>10 DEF BreakInside, serverVars
  <2> QED BY <1>2, <1>10, <2>1, CutMoves
<1>8. ASSUME NEW r \in Runs, TimeOut(r) PROVE StreamTypeOK'
  BY <1>2, <1>8 DEF TimeOut, serverVars, Connection
<1>9. ASSUME NEW r \in Runs, Check(r) PROVE StreamTypeOK'
  BY <1>2, <1>9 DEF Check, serverVars, Connection
<1> HIDE DEF StreamTypeOK
<1> QED BY <1>1, <1>3, <1>4, <1>5, <1>6, <1>7, <1>8, <1>9, <1>10 DEF Next, StreamStep

\* The rows, the event streams, the tasks and the page always have the shapes
\* the code gives them; in particular Redis never drops more than was published
\* and the cursor of the page never runs ahead of the stream.
THEOREM TypeCorrect == Spec => []StreamTypeOK
<1>1. StreamInit => StreamTypeOK
  <2>1. NoConn \in Connection
    BY DEF NoConn, Connection, TERMINAL_RUN_STATUSES
  <2> QED BY <2>1, NoTaskType, NoHandlerType, EmbeddedAssumption
          DEF StreamInit, Init, StreamTypeOK, TypeOK, NoConn, RunStatus
<1>2. StreamTypeOK /\ [Next]_vars => StreamTypeOK'
  BY TypeStep
<1> QED BY <1>1, <1>2, PTL DEF Spec

-----------------------------------------------------------------------------
(* Outcomes *)

\* What one step may do to the row of a run.
RowMove(r) ==
  \/ status'[r] = status[r] /\ claims'[r] = claims[r]
  \/ status[r] = "absent" /\ status'[r] = "queued" /\ claims'[r] = claims[r]
  \/ status[r] = "queued" /\ status'[r] = "running" /\ claims'[r] = claims[r] + 1
  \/ status[r] = "running" /\ status'[r] = "overdue" /\ claims'[r] = claims[r]
  \/ /\ status[r] \in Active
     /\ status'[r] \in TERMINAL_RUN_STATUSES
     /\ status'[r] = "completed" => status[r] \in Running
     /\ claims'[r] = claims[r]

\* A run is claimed only once: one that waits has not been claimed.
RowInv(r) == status[r] \in {"absent", "queued"} => claims[r] = 0

\* A task works on a run that exists; one about to report an outcome has
\* stored it, one about to store a failure has no success in hand.
TaskInv(p, r) ==
  /\ task[p][r].pc # "none" => status[r] # "absent"
  /\ task[p][r].pc \in {"announcing", "telling"} => status[r] = task[p][r].out
  /\ task[p][r].pc = "failing" => task[p][r].out # "completed"

\* The same of the request that created the run.
HandlerInv(r) ==
  /\ handler[r].pc # "none" => status[r] # "absent"
  /\ handler[r].pc = "telling" => status[r] = "failed"

\* A terminal event tells the status of the row.
LogInv(r) ==
  \A i \in DOMAIN log[r] :
    log[r][i] \in TERMINAL_RUN_STATUSES => status[r] = log[r][i]

\* The inductive invariant behind StreamTellsOutcome and KeepsLifecycle.
OutcomeInv ==
  /\ \A r \in Runs : RowInv(r) /\ HandlerInv(r) /\ LogInv(r)
  /\ \A p \in Processes, r \in Runs : TaskInv(p, r)
  /\ StreamTellsOutcome

\* Every step of the processes moves every row as RowMove allows.
LEMMA RowStep ==
  ASSUME TypeOK, OutcomeInv, ServerNext
  PROVE  \A s \in Runs : RowMove(s)
<1>1. ASSUME UNCHANGED <<status, claims>> PROVE \A s \in Runs : RowMove(s)
  BY <1>1 DEF RowMove
<1>2. ASSUME NEW r \in Runs, Age(r) PROVE \A s \in Runs : RowMove(s)
  BY <1>2 DEF Age, RowMove, TypeOK
<1>3. ASSUME NEW p \in Processes, NEW r \in Runs, CreateRun(p, r)
      PROVE \A s \in Runs : RowMove(s)
  BY <1>3 DEF CreateRun, RowMove, TypeOK
<1>4. ASSUME NEW p \in Processes, NEW r \in Runs, RejectSubmission(p, r)
      PROVE \A s \in Runs : RowMove(s)
  <2>1. CASE status[r] \in TERMINAL_RUN_STATUSES
    BY <1>4, <2>1 DEF RejectSubmission, RowMove
  <2>2. CASE status[r] \notin TERMINAL_RUN_STATUSES
    <3>1. status[r] # "absent"
      BY <1>4 DEF RejectSubmission, OutcomeInv, HandlerInv
    <3>2. status[r] \in Active
      BY <2>2, <3>1 DEF TypeOK, RunStatus
    <3>3. status' = [status EXCEPT ![r] = "failed"] /\ claims' = claims
      BY <1>4, <2>2 DEF RejectSubmission
    <3> QED BY <3>2, <3>3 DEF RowMove, TypeOK, TERMINAL_RUN_STATUSES
  <2> QED BY <2>1, <2>2
<1>5. ASSUME NEW p \in Processes, NEW r \in Runs, ClaimRun(p, r)
      PROVE \A s \in Runs : RowMove(s)
  <2>1. CASE status[r] = "queued"
    BY <1>5, <2>1 DEF ClaimRun, Claim, RowMove, TypeOK
  <2>2. CASE status[r] # "queued"
    BY <1>1, <1>5, <2>2 DEF ClaimRun
  <2> QED BY <2>1, <2>2
<1>6. ASSUME NEW p \in Processes, NEW r \in Runs, CompleteRun(p, r)
      PROVE \A s \in Runs : RowMove(s)
  <2>1. CASE status[r] \in Running
    <3>1. status' = [status EXCEPT ![r] = "completed"] /\ claims' = claims
      BY <1>6, <2>1 DEF CompleteRun
    <3> QED BY <2>1, <3>1 DEF RowMove, TypeOK, Active, TERMINAL_RUN_STATUSES
  <2>2. CASE status[r] \notin Running
    BY <1>1, <1>6, <2>2 DEF CompleteRun
  <2> QED BY <2>1, <2>2
<1>7. ASSUME NEW p \in Processes, NEW r \in Runs, FinishError(p, r)
      PROVE \A s \in Runs : RowMove(s)
  <2>1. CASE status[r] \in TERMINAL_RUN_STATUSES
    BY <1>1, <1>7, <2>1 DEF FinishError
  <2>2. CASE status[r] \notin TERMINAL_RUN_STATUSES
    <3>1. status[r] # "absent" /\ task[p][r].out # "completed"
      BY <1>7 DEF FinishError, OutcomeInv, TaskInv
    <3>2. status[r] \in Active
      BY <2>2, <3>1 DEF TypeOK, RunStatus
    <3>3. task[p][r].out \in TERMINAL_RUN_STATUSES
      BY DEF TypeOK, Task
    <3>4. status' = [status EXCEPT ![r] = task[p][r].out] /\ claims' = claims
      BY <1>7, <2>2 DEF FinishError
    <3> QED BY <3>1, <3>2, <3>3, <3>4 DEF RowMove, TypeOK
  <2> QED BY <2>1, <2>2
<1>8. ASSUME NEW p \in Processes, NEW r \in Runs, CancelTask(p, r)
      PROVE \A s \in Runs : RowMove(s)
  <2>1. CASE UNCHANGED <<status, claims>>
    BY <1>1, <2>1
  <2>2. CASE /\ task[p][r].pc \in InTry
             /\ status' = [status EXCEPT ![r] =
                  IF @ \in TERMINAL_RUN_STATUSES THEN @ ELSE "failed"]
             /\ UNCHANGED claims
    <3>1. status[r] # "absent"
      BY <2>2 DEF OutcomeInv, TaskInv, InTry
    <3>2. status[r] \in Active \/ status[r] \in TERMINAL_RUN_STATUSES
      BY <3>1 DEF TypeOK, RunStatus
    <3> QED BY <2>2, <3>2 DEF RowMove, TypeOK, TERMINAL_RUN_STATUSES
  <2>3. CASE /\ status[r] = "queued"
             /\ status' = [status EXCEPT ![r] = "running"]
             /\ claims' = [claims EXCEPT ![r] = @ + 1]
    BY <2>3 DEF RowMove, TypeOK
  <2> QED BY <1>8, <2>1, <2>2, <2>3 DEF CancelTask
<1>9. ASSUME NEW p \in Processes, Start(p) PROVE \A s \in Runs : RowMove(s)
  BY <1>9 DEF Start, Recovered, RowMove, Active, Running, TERMINAL_RUN_STATUSES
<1>10. ASSUME NEW p \in Processes, Crash(p) PROVE UNCHANGED <<status, claims>>
  BY <1>10 DEF Crash, Exit
<1>11. ASSUME NEW r \in Runs, RequestCancel(r) \/ SignalCancel(r) \/ Expire(r)
       PROVE  UNCHANGED <<status, claims>>
  BY <1>11 DEF RequestCancel, SignalCancel, Expire
<1>12. ASSUME NEW p \in Processes, NEW r \in Runs,
              \/ Submit(p, r) \/ TellRejection(p, r) \/ RejectFails(p, r)
              \/ Execute(p, r) \/ ExecuteClosed(p, r) \/ ClaimFails(p, r)
       PROVE  UNCHANGED <<status, claims>>
  BY <1>12 DEF Submit, SubmitTask, TellRejection, RejectFails, Execute, ExecuteClosed, ClaimFails
<1>13. ASSUME NEW p \in Processes, NEW r \in Runs,
              \/ Prepare(p, r) \/ AgentRun(p, r) \/ TellOutcome(p, r)
              \/ OnDelta(p, r) \/ FinishFails(p, r)
       PROVE  UNCHANGED <<status, claims>>
  BY <1>13 DEF Prepare, AgentRun, TellOutcome, OnDelta, FinishFails
<1>14. ASSUME NEW p \in Processes, Close(p) PROVE UNCHANGED <<status, claims>>
  BY <1>14 DEF Close
<1> QED
  BY <1>1, <1>2, <1>3, <1>4, <1>5, <1>6, <1>7, <1>8, <1>9, <1>10, <1>11, <1>12,
     <1>13, <1>14
  DEF ServerNext, TaskStep, HandlerStep

\* A row that ended stays as it is and a row never disappears.
LEMMA RowMoveKeeps ==
  ASSUME NEW r \in Runs, RowMove(r)
  PROVE  /\ status[r] \in TERMINAL_RUN_STATUSES => status'[r] = status[r]
         /\ status[r] # "absent" => status'[r] # "absent"
         /\ RowInv(r) => RowInv(r)'
BY DEF RowMove, RowInv, Active, Running, TERMINAL_RUN_STATUSES

\* What holds of a task holds as long as it does not move.
LEMMA TaskKeeps ==
  ASSUME TypeOK, NEW p \in Processes, NEW r \in Runs, TaskInv(p, r), RowMove(r),
         task'[p][r] = task[p][r]
  PROVE  TaskInv(p, r)'
<1>1. task[p][r].out \in TERMINAL_RUN_STATUSES
  BY DEF TypeOK, Task
<1> QED BY <1>1, RowMoveKeeps DEF TaskInv

\* The helpers that move a task change that one only.
LEMMA TaskFrame ==
  ASSUME TypeOK, NEW p \in Processes, NEW r \in Runs, NEW pc, NEW s
  PROVE  /\ Goto(p, r, pc) =>
              /\ task'[p][r].pc = pc /\ task'[p][r].out = task[p][r].out
              /\ \A q \in Processes, x \in Runs :
                   q # p \/ x # r => task'[q][x] = task[q][x]
         /\ EndTask(p, r) =>
              /\ task'[p][r].pc = "none"
              /\ \A q \in Processes, x \in Runs :
                   q # p \/ x # r => task'[q][x] = task[q][x]
         /\ Fail(p, r, s) =>
              /\ task'[p][r].pc = "failing" /\ task'[p][r].out = s
              /\ \A q \in Processes, x \in Runs :
                   q # p \/ x # r => task'[q][x] = task[q][x]
<1>1. ASSUME Goto(p, r, pc)
      PROVE  /\ task'[p][r].pc = pc /\ task'[p][r].out = task[p][r].out
             /\ \A q \in Processes, x \in Runs :
                  q # p \/ x # r => task'[q][x] = task[q][x]
  BY <1>1 DEF Goto, TypeOK, Task
<1>2. ASSUME EndTask(p, r)
      PROVE  /\ task'[p][r].pc = "none"
             /\ \A q \in Processes, x \in Runs :
                  q # p \/ x # r => task'[q][x] = task[q][x]
  BY <1>2 DEF EndTask, NoTask, TypeOK
<1>3. ASSUME Fail(p, r, s)
      PROVE  /\ task'[p][r].pc = "failing" /\ task'[p][r].out = s
             /\ \A q \in Processes, x \in Runs :
                  q # p \/ x # r => task'[q][x] = task[q][x]
  BY <1>3 DEF Fail, TypeOK
<1> QED BY <1>1, <1>2, <1>3

\* Every step of the processes keeps what holds of the tasks.
LEMMA TasksStep ==
  ASSUME TypeOK, OutcomeInv, ServerNext
  PROVE  \A q \in Processes, x \in Runs : TaskInv(q, x)'
<1>R. \A x \in Runs : RowMove(x)
  BY RowStep
<1>I. \A q \in Processes, x \in Runs : TaskInv(q, x)
  BY DEF OutcomeInv
<1>U. ASSUME UNCHANGED task
      PROVE  \A q \in Processes, x \in Runs : TaskInv(q, x)'
  BY <1>R, <1>I, <1>U, TaskKeeps
<1>O. ASSUME NEW p \in Processes, NEW r \in Runs, TaskInv(p, r)',
             \A q \in Processes, x \in Runs : q # p \/ x # r => task'[q][x] = task[q][x]
      PROVE  \A q \in Processes, x \in Runs : TaskInv(q, x)'
  BY <1>R, <1>I, <1>O, TaskKeeps
<1>E. ASSUME NEW p \in Processes, NEW r \in Runs, EndTask(p, r)
      PROVE  \A q \in Processes, x \in Runs : TaskInv(q, x)'
  <2>1. TaskInv(p, r)'
    BY <1>E, TaskFrame DEF TaskInv
  <2> QED BY <1>E, <1>O, <2>1, TaskFrame
<1>F. ASSUME NEW p \in Processes, NEW r \in Runs,
             NEW s \in TERMINAL_RUN_STATUSES \ {"completed"},
             task[p][r].pc # "none", Fail(p, r, s)
      PROVE  \A q \in Processes, x \in Runs : TaskInv(q, x)'
  <2>1. TaskInv(p, r)'
    BY <1>F, <1>R, <1>I, TaskFrame, RowMoveKeeps DEF TaskInv
  <2>2. \A q \in Processes, x \in Runs : q # p \/ x # r => task'[q][x] = task[q][x]
    BY <1>F, TaskFrame
  <2> QED BY <1>O, <2>1, <2>2
<1>G. ASSUME NEW p \in Processes, NEW r \in Runs,
             NEW pc \in {"submitted", "claiming", "claimed", "model", "completing"},
             status[r] # "absent", Goto(p, r, pc)
      PROVE  \A q \in Processes, x \in Runs : TaskInv(q, x)'
  <2>1. TaskInv(p, r)'
    BY <1>G, <1>R, TaskFrame, RowMoveKeeps DEF TaskInv
  <2> QED BY <1>G, <1>O, <2>1, TaskFrame
<1>L. ASSUME NEW p \in Processes, NEW r \in Runs, task[p][r].pc # "none"
      PROVE  status[r] # "absent"
  BY <1>I, <1>L DEF TaskInv
<1>N. {"failed", "cancelled", "timed_out"} \subseteq TERMINAL_RUN_STATUSES \ {"completed"}
  BY DEF TERMINAL_RUN_STATUSES
<1>1. ASSUME NEW p \in Processes, NEW r \in Runs, Submit(p, r)
      PROVE \A q \in Processes, x \in Runs : TaskInv(q, x)'
  <2>1. status[r] # "absent"
    BY <1>1 DEF Submit, SubmitTask, OutcomeInv, HandlerInv
  <2> QED BY <1>1, <1>U, <1>G, <2>1 DEF Submit, SubmitTask
<1>2. ASSUME NEW p \in Processes, NEW r \in Runs, Execute(p, r)
      PROVE \A q \in Processes, x \in Runs : TaskInv(q, x)'
  BY <1>2, <1>G, <1>L DEF Execute
<1>3. ASSUME NEW p \in Processes, NEW r \in Runs, ExecuteClosed(p, r)
      PROVE \A q \in Processes, x \in Runs : TaskInv(q, x)'
  BY <1>3, <1>E DEF ExecuteClosed
<1>4. ASSUME NEW p \in Processes, NEW r \in Runs, ClaimRun(p, r)
      PROVE \A q \in Processes, x \in Runs : TaskInv(q, x)'
  BY <1>4, <1>E, <1>G, <1>L DEF ClaimRun, Claim
<1>5. ASSUME NEW p \in Processes, NEW r \in Runs, ClaimFails(p, r)
      PROVE \A q \in Processes, x \in Runs : TaskInv(q, x)'
  BY <1>5, <1>E DEF ClaimFails
<1>6. ASSUME NEW p \in Processes, NEW r \in Runs, Prepare(p, r)
      PROVE \A q \in Processes, x \in Runs : TaskInv(q, x)'
  BY <1>6, <1>F, <1>G, <1>L, <1>N DEF Prepare
<1>7. ASSUME NEW p \in Processes, NEW r \in Runs, AgentRun(p, r)
      PROVE \A q \in Processes, x \in Runs : TaskInv(q, x)'
  BY <1>7, <1>F, <1>G, <1>L, <1>N DEF AgentRun
<1>8. ASSUME NEW p \in Processes, NEW r \in Runs, OnDelta(p, r)
      PROVE \A q \in Processes, x \in Runs : TaskInv(q, x)'
  BY <1>8, <1>F, <1>U, <1>N DEF OnDelta
<1>9. ASSUME NEW p \in Processes, NEW r \in Runs, CompleteRun(p, r)
      PROVE \A q \in Processes, x \in Runs : TaskInv(q, x)'
  <2>1. CASE status[r] \in Running
    <3>1. /\ status'[r] = "completed"
          /\ task' = [task EXCEPT ![p][r] = [pc |-> "announcing", out |-> "completed"]]
      BY <1>9, <2>1 DEF CompleteRun, TypeOK
    <3>2. task'[p][r] = [pc |-> "announcing", out |-> "completed"]
      BY <3>1 DEF TypeOK
    <3>3. \A q \in Processes, x \in Runs : q # p \/ x # r => task'[q][x] = task[q][x]
      BY <3>1 DEF TypeOK
    <3>4. TaskInv(p, r)'
      BY <3>1, <3>2 DEF TaskInv
    <3> QED BY <1>O, <3>3, <3>4
  <2>2. CASE status[r] \notin Running
    BY <1>9, <1>E, <2>2 DEF CompleteRun
  <2> QED BY <2>1, <2>2
<1>10. ASSUME NEW p \in Processes, NEW r \in Runs, FinishError(p, r)
      PROVE \A q \in Processes, x \in Runs : TaskInv(q, x)'
  <2>1. CASE status[r] \in TERMINAL_RUN_STATUSES
    BY <1>10, <1>E, <2>1 DEF FinishError
  <2>2. CASE status[r] \notin TERMINAL_RUN_STATUSES
    <3>1. status'[r] = task[p][r].out /\ Goto(p, r, "telling")
      BY <1>10, <2>2 DEF FinishError, TypeOK
    <3>2. status'[r] \in TERMINAL_RUN_STATUSES
      BY <3>1 DEF TypeOK, Task
    <3>3. TaskInv(p, r)'
      BY <3>1, <3>2, TaskFrame DEF TaskInv, TERMINAL_RUN_STATUSES
    <3>4. \A q \in Processes, x \in Runs : q # p \/ x # r => task'[q][x] = task[q][x]
      BY <3>1, TaskFrame
    <3> QED BY <1>O, <3>3, <3>4
  <2> QED BY <2>1, <2>2
<1>11. ASSUME NEW p \in Processes, NEW r \in Runs, TellOutcome(p, r)
      PROVE \A q \in Processes, x \in Runs : TaskInv(q, x)'
  BY <1>11, <1>E DEF TellOutcome
<1>12. ASSUME NEW p \in Processes, NEW r \in Runs, FinishFails(p, r)
      PROVE \A q \in Processes, x \in Runs : TaskInv(q, x)'
  BY <1>12, <1>E DEF FinishFails
<1>13. ASSUME NEW p \in Processes, NEW r \in Runs, CancelTask(p, r)
      PROVE \A q \in Processes, x \in Runs : TaskInv(q, x)'
  BY <1>13, <1>E DEF CancelTask
<1>14. ASSUME NEW p \in Processes, Crash(p)
      PROVE \A q \in Processes, x \in Runs : TaskInv(q, x)'
  <2>1. \A x \in Runs : task'[p][x].pc = "none"
    BY <1>14 DEF Crash, Exit, NoTask, TypeOK
  <2>2. \A q \in Processes \ {p} : task'[q] = task[q]
    BY <1>14 DEF Crash, Exit, TypeOK
  <2>3. \A x \in Runs : TaskInv(p, x)'
    BY <2>1 DEF TaskInv
  <2>4. \A q \in Processes \ {p}, x \in Runs : TaskInv(q, x)'
    BY <1>R, <1>I, <2>2, TaskKeeps
  <2> QED BY <2>3, <2>4
<1>15. ASSUME NEW p \in Processes, Start(p)
      PROVE \A q \in Processes, x \in Runs : TaskInv(q, x)'
  <2>1. \A x \in Runs : task'[p][x].pc = (IF status[x] = "queued" THEN "submitted" ELSE "none")
    BY <1>15 DEF Start, Recovered, NoTask, TypeOK
  <2>2. \A q \in Processes \ {p} : task'[q] = task[q]
    BY <1>15 DEF Start, Recovered, TypeOK
  <2>3. \A x \in Runs : status[x] = "queued" => status'[x] # "absent"
    BY <1>R, RowMoveKeeps
  <2>4. \A x \in Runs : TaskInv(p, x)'
    BY <2>1, <2>3 DEF TaskInv
  <2>5. \A q \in Processes \ {p}, x \in Runs : TaskInv(q, x)'
    BY <1>R, <1>I, <2>2, TaskKeeps
  <2> QED BY <2>4, <2>5
<1>16. ASSUME NEW r \in Runs,
              RequestCancel(r) \/ SignalCancel(r) \/ Age(r) \/ Expire(r)
       PROVE  UNCHANGED task
  BY <1>16 DEF RequestCancel, SignalCancel, Age, Expire
<1>17. ASSUME NEW p \in Processes, NEW r \in Runs,
              \/ CreateRun(p, r) \/ RejectSubmission(p, r)
              \/ RejectFails(p, r) \/ TellRejection(p, r)
       PROVE  UNCHANGED task
  BY <1>17 DEF CreateRun, RejectSubmission, RejectFails, TellRejection
<1>18. ASSUME NEW p \in Processes, Close(p) PROVE UNCHANGED task
  BY <1>18 DEF Close
<1> QED
  BY <1>U, <1>1, <1>2, <1>3, <1>4, <1>5, <1>6, <1>7, <1>8, <1>9,
     <1>10, <1>11, <1>12, <1>13, <1>14, <1>15, <1>16, <1>17, <1>18
  DEF ServerNext, TaskStep, HandlerStep

\* Every step of the processes keeps what holds of the requests.
LEMMA HandlersStep ==
  ASSUME TypeOK, OutcomeInv, ServerNext
  PROVE  \A x \in Runs : HandlerInv(x)'
<1>R. \A x \in Runs : RowMove(x)
  BY RowStep
<1>I. \A x \in Runs : HandlerInv(x)
  BY DEF OutcomeInv
<1>K. ASSUME NEW x \in Runs, handler'[x] = handler[x] PROVE HandlerInv(x)'
  BY <1>R, <1>I, <1>K, RowMoveKeeps DEF HandlerInv, TERMINAL_RUN_STATUSES
<1>N. ASSUME NEW x \in Runs, handler'[x] = NoHandler PROVE HandlerInv(x)'
  BY <1>N DEF HandlerInv, NoHandler
<1>1. ASSUME NEW p \in Processes, NEW r \in Runs, CreateRun(p, r)
      PROVE  \A x \in Runs : HandlerInv(x)'
  <2>1. handler'[r].pc = "created" /\ status'[r] = "queued"
    BY <1>1 DEF CreateRun, TypeOK
  <2>2. \A x \in Runs \ {r} : handler'[x] = handler[x]
    BY <1>1 DEF CreateRun, TypeOK
  <2>3. HandlerInv(r)'
    BY <2>1 DEF HandlerInv
  <2> QED BY <1>K, <2>2, <2>3
<1>2. ASSUME NEW p \in Processes, NEW r \in Runs, Submit(p, r)
      PROVE  \A x \in Runs : HandlerInv(x)'
  <2>1. handler'[r] = NoHandler \/ handler'[r].pc = "rejecting"
    BY <1>2 DEF Submit, SubmitTask, TypeOK, Handler
  <2>2. \A x \in Runs \ {r} : handler'[x] = handler[x]
    BY <1>2 DEF Submit, SubmitTask, TypeOK
  <2>3. status'[r] # "absent"
    BY <1>2, <1>I, <1>R, RowMoveKeeps DEF Submit, SubmitTask, HandlerInv
  <2>4. HandlerInv(r)'
    BY <1>N, <2>1, <2>3 DEF HandlerInv
  <2> QED BY <1>K, <2>2, <2>4
<1>3. ASSUME NEW p \in Processes, NEW r \in Runs, RejectSubmission(p, r)
      PROVE  \A x \in Runs : HandlerInv(x)'
  <2>1. CASE status[r] \in TERMINAL_RUN_STATUSES
    BY <1>3, <1>K, <1>N, <2>1 DEF RejectSubmission, TypeOK
  <2>2. CASE status[r] \notin TERMINAL_RUN_STATUSES
    <3>1. status'[r] = "failed"
      BY <1>3, <2>2 DEF RejectSubmission, TypeOK
    <3>2. \A x \in Runs \ {r} : handler'[x] = handler[x]
      BY <1>3, <2>2 DEF RejectSubmission, TypeOK
    <3>3. HandlerInv(r)'
      BY <3>1 DEF HandlerInv
    <3> QED BY <1>K, <3>2, <3>3
  <2> QED BY <2>1, <2>2
<1>4. ASSUME NEW p \in Processes, NEW r \in Runs, RejectFails(p, r) \/ TellRejection(p, r)
      PROVE  \A x \in Runs : HandlerInv(x)'
  <2>1. handler' = [handler EXCEPT ![r] = NoHandler]
    BY <1>4 DEF RejectFails, TellRejection
  <2> QED BY <1>K, <1>N, <2>1 DEF TypeOK
<1>5. ASSUME NEW p \in Processes, Crash(p) PROVE \A x \in Runs : HandlerInv(x)'
  BY <1>5, <1>K, <1>N DEF Crash, Exit
<1>6. ASSUME NEW r \in Runs, RequestCancel(r) \/ SignalCancel(r) \/ Age(r) \/ Expire(r)
      PROVE  UNCHANGED handler
  BY <1>6 DEF RequestCancel, SignalCancel, Age, Expire
<1>7. ASSUME NEW p \in Processes, NEW r \in Runs,
             \/ Execute(p, r) \/ ExecuteClosed(p, r) \/ ClaimRun(p, r) \/ ClaimFails(p, r)
             \/ Prepare(p, r) \/ AgentRun(p, r) \/ CompleteRun(p, r)
      PROVE  UNCHANGED handler
  BY <1>7 DEF Execute, ExecuteClosed, ClaimRun, ClaimFails, Prepare, AgentRun, CompleteRun
<1>8. ASSUME NEW p \in Processes, NEW r \in Runs,
             \/ FinishError(p, r) \/ TellOutcome(p, r) \/ OnDelta(p, r)
             \/ FinishFails(p, r) \/ CancelTask(p, r)
      PROVE  UNCHANGED handler
  BY <1>8 DEF FinishError, TellOutcome, OnDelta, FinishFails, CancelTask
<1>9. ASSUME NEW p \in Processes, Close(p) \/ Start(p) PROVE UNCHANGED handler
  BY <1>9 DEF Close, Start
<1> QED
  BY <1>K, <1>1, <1>2, <1>3, <1>4, <1>5, <1>6, <1>7, <1>8, <1>9
  DEF ServerNext, TaskStep, HandlerStep

\* A publication adds at most its event to the log of its run, and Redis only
\* ever drops more.
LEMMA PublishFrame ==
  ASSUME TypeOK, NEW r \in Runs, NEW event \in RunEvents, Publish(r, event)
  PROVE  /\ log'[r] = log[r] \/ log'[r] = Append(log[r], event)
         /\ \A x \in Runs \ {r} : log'[x] = log[x]
         /\ \A x \in Runs : gone[x] <= gone'[x]
<1>1. CASE Add(r, event)
  <2>1. log' = [log EXCEPT ![r] = Append(@, event)]
    BY <1>1 DEF Add
  <2>2. CASE UNCHANGED gone
    BY <2>1, <2>2 DEF TypeOK
  <2>3. CASE /\ Len(log[r]) + 1 > gone[r] + LogLength
             /\ gone' = [gone EXCEPT ![r] = Len(log[r]) + 1 - LogLength]
    <3>1. gone[r] \in Nat /\ Len(log[r]) \in Nat
      BY DEF TypeOK
    <3>2. gone[r] <= gone'[r]
      BY <2>3, <3>1, EmbeddedAssumption DEF TypeOK
    <3>3. \A x \in Runs \ {r} : gone[x] <= gone'[x]
      BY <2>3 DEF TypeOK
    <3> QED BY <2>1, <3>2, <3>3 DEF TypeOK
  <2> QED BY <1>1, <2>2, <2>3 DEF Add
<1>2. CASE UNCHANGED <<log, gone>>
  BY <1>2 DEF TypeOK
<1> QED BY <1>1, <1>2 DEF Publish

\* Three actions publish; every other one leaves the logs alone.
LEMMA Publishers ==
  ASSUME TypeOK, ServerNext
  PROVE  \/ UNCHANGED log /\ \A x \in Runs : gone[x] <= gone'[x]
         \/ \E p \in Processes, r \in Runs :
              \/ TellRejection(p, r) \/ TellOutcome(p, r)
              \/ OnDelta(p, r) /\ Publish(r, "delta")
<1>G. UNCHANGED <<log, gone>> => UNCHANGED log /\ \A x \in Runs : gone[x] <= gone'[x]
  BY DEF TypeOK
<1>1. ASSUME NEW r \in Runs, RequestCancel(r) \/ SignalCancel(r) \/ Age(r)
      PROVE  UNCHANGED <<log, gone>>
  BY <1>1 DEF RequestCancel, SignalCancel, Age
<1>2. ASSUME NEW r \in Runs, Expire(r)
      PROVE  UNCHANGED log /\ \A x \in Runs : gone[x] <= gone'[x]
  BY <1>2 DEF Expire, TypeOK
<1>3. ASSUME NEW p \in Processes, NEW r \in Runs,
             \/ CreateRun(p, r) \/ Submit(p, r) \/ RejectSubmission(p, r)
             \/ RejectFails(p, r) \/ Execute(p, r) \/ ExecuteClosed(p, r)
      PROVE  UNCHANGED <<log, gone>>
  BY <1>3 DEF CreateRun, Submit, RejectSubmission, RejectFails, Execute, ExecuteClosed
<1>4. ASSUME NEW p \in Processes, NEW r \in Runs,
             \/ ClaimRun(p, r) \/ ClaimFails(p, r) \/ Prepare(p, r) \/ AgentRun(p, r)
             \/ CompleteRun(p, r) \/ FinishError(p, r) \/ FinishFails(p, r)
             \/ CancelTask(p, r)
      PROVE  UNCHANGED <<log, gone>>
  BY <1>4 DEF ClaimRun, ClaimFails, Prepare, AgentRun, CompleteRun, FinishError,
              FinishFails, CancelTask
<1>5. ASSUME NEW p \in Processes, Close(p) \/ Crash(p) \/ Start(p)
      PROVE  UNCHANGED <<log, gone>>
  BY <1>5 DEF Close, Crash, Exit, Start
<1>6. ASSUME NEW p \in Processes, NEW r \in Runs, OnDelta(p, r)
      PROVE  UNCHANGED <<log, gone>> \/ Publish(r, "delta")
  BY <1>6 DEF OnDelta
<1> QED BY <1>G, <1>1, <1>2, <1>3, <1>4, <1>5, <1>6 DEF ServerNext, TaskStep, HandlerStep

\* Every step of the processes keeps what holds of the events: an outcome is
\* published only by who stored it.
LEMMA LogsStep ==
  ASSUME TypeOK, OutcomeInv, ServerNext
  PROVE  \A x \in Runs : LogInv(x)'
<1>R. \A x \in Runs : RowMove(x)
  BY RowStep
<1>I. \A x \in Runs : LogInv(x)
  BY DEF OutcomeInv
<1>K. ASSUME NEW x \in Runs, log'[x] = log[x] PROVE LogInv(x)'
  BY <1>R, <1>I, <1>K, RowMoveKeeps DEF LogInv
<1>P. ASSUME NEW r \in Runs, NEW event \in RunEvents, Publish(r, event),
             event \in TERMINAL_RUN_STATUSES => status'[r] = event
      PROVE  \A x \in Runs : LogInv(x)'
  <2>1. ASSUME log'[r] = Append(log[r], event) PROVE LogInv(r)'
    <3>1. log[r] \in Seq(RunEvents)
      BY DEF TypeOK
    <3>2. \A i \in DOMAIN log'[r] : \/ i \in DOMAIN log[r] /\ log'[r][i] = log[r][i]
                                    \/ log'[r][i] = event
      BY <2>1, <3>1
    <3>3. \A i \in DOMAIN log[r] :
            log[r][i] \in TERMINAL_RUN_STATUSES => status'[r] = log[r][i]
      BY <1>R, <1>I, RowMoveKeeps DEF LogInv
    <3> QED BY <1>P, <3>2, <3>3 DEF LogInv
  <2> QED BY <1>K, <1>P, <2>1, PublishFrame
<1>1. ASSUME NEW p \in Processes, NEW r \in Runs, TellRejection(p, r)
      PROVE  \A x \in Runs : LogInv(x)'
  <2>1. status'[r] = "failed"
    BY <1>1 DEF TellRejection, OutcomeInv, HandlerInv
  <2> QED BY <1>1, <1>P, <2>1 DEF TellRejection, RunEvents, TERMINAL_RUN_STATUSES
<1>2. ASSUME NEW p \in Processes, NEW r \in Runs, TellOutcome(p, r)
      PROVE  \A x \in Runs : LogInv(x)'
  <2>1. status'[r] = task[p][r].out
    BY <1>2 DEF TellOutcome, OutcomeInv, TaskInv
  <2>2. task[p][r].out \in RunEvents
    BY DEF TypeOK, Task, RunEvents
  <2> QED BY <1>2, <1>P, <2>1, <2>2 DEF TellOutcome
<1>3. ASSUME NEW r \in Runs, Publish(r, "delta") PROVE \A x \in Runs : LogInv(x)'
  BY <1>3, <1>P DEF RunEvents, TERMINAL_RUN_STATUSES
<1> QED BY <1>K, <1>1, <1>2, <1>3, Publishers

\* Every step keeps the inductive invariant.
LEMMA OutcomeStep ==
  ASSUME StreamTypeOK, OutcomeInv, [Next]_vars
  PROVE  OutcomeInv' /\ \A x \in Runs : RowMove(x)
<1>T. TypeOK
  BY DEF StreamTypeOK
<1>1. CASE ServerNext /\ UNCHANGED <<conn, shown>>
  <2>1. \A x \in Runs : RowMove(x)
    BY <1>1, <1>T, RowStep
  <2>2. \A x \in Runs : RowInv(x)' /\ HandlerInv(x)' /\ LogInv(x)'
    BY <1>1, <1>T, <2>1, RowMoveKeeps, HandlersStep, LogsStep DEF OutcomeInv
  <2>3. \A p \in Processes, x \in Runs : TaskInv(p, x)'
    BY <1>1, <1>T, TasksStep
  <2>4. \A x \in Runs : conn[x].told \in TERMINAL_RUN_STATUSES
    BY DEF StreamTypeOK, Connection
  <2>5. StreamTellsOutcome'
    BY <1>1, <2>1, <2>4, RowMoveKeeps DEF OutcomeInv, StreamTellsOutcome
  <2> QED BY <2>1, <2>2, <2>3, <2>5 DEF OutcomeInv
<1>S. ASSUME UNCHANGED serverVars, StreamTellsOutcome'
      PROVE  OutcomeInv' /\ \A x \in Runs : RowMove(x)
  BY <1>S DEF OutcomeInv, RowInv, HandlerInv, LogInv, TaskInv, RowMove, serverVars
<1>2. CASE UNCHANGED vars
  <2>1. UNCHANGED serverVars /\ UNCHANGED conn
    BY <1>2 DEF vars, serverVars
  <2> QED BY <1>S, <2>1 DEF OutcomeInv, StreamTellsOutcome, serverVars
<1>3. ASSUME NEW r \in Runs, Follow(r)
      PROVE  UNCHANGED serverVars /\ StreamTellsOutcome'
  BY <1>3 DEF Follow, NoConn, OutcomeInv, StreamTellsOutcome, StreamTypeOK, serverVars
<1>4. ASSUME NEW r \in Runs, Break(r) \/ BreakInside(r) \/ Resume(r) \/ TimeOut(r)
      PROVE  UNCHANGED serverVars /\ StreamTellsOutcome'
  <2>1. UNCHANGED serverVars
    BY <1>4 DEF Break, BreakInside, Resume, TimeOut
  <2>2. conn'[r].pc # "told" /\ \A x \in Runs \ {r} : conn'[x] = conn[x]
    <3>1. CASE BreakInside(r)
      BY <3>1, CutMoves
    <3>2. CASE Break(r) \/ Resume(r) \/ TimeOut(r)
      BY <3>2 DEF Break, NoConn, Resume, TimeOut, StreamTypeOK, Connection
    <3> QED BY <1>4, <3>1, <3>2
  <2> QED BY <2>1, <2>2 DEF OutcomeInv, StreamTellsOutcome, serverVars
<1>5. ASSUME NEW r \in Runs, Deliver(r)
      PROVE  UNCHANGED serverVars /\ StreamTellsOutcome'
  <2>1. NextEvent(r) \in DOMAIN log[r]
    BY <1>5 DEF Deliver, OnEvent, NextEvent, StreamTypeOK, TypeOK, Connection
  <2>2. log[r][NextEvent(r)] \in TERMINAL_RUN_STATUSES => status[r] = log[r][NextEvent(r)]
    BY <2>1 DEF OutcomeInv, LogInv
  <2> QED BY <1>5, <2>2 DEF Deliver, OnEvent, OutcomeInv, StreamTellsOutcome, StreamTypeOK,
                            Connection, serverVars
<1>6. ASSUME NEW r \in Runs, Check(r)
      PROVE  UNCHANGED serverVars /\ StreamTellsOutcome'
  BY <1>6 DEF Check, OutcomeInv, StreamTellsOutcome, StreamTypeOK, Connection, serverVars
<1> QED BY <1>1, <1>S, <1>2, <1>3, <1>4, <1>5, <1>6 DEF Next, StreamStep

\* The inductive invariant holds in every state.
LEMMA Invariance == Spec => [](StreamTypeOK /\ OutcomeInv)
<1>1. StreamInit => OutcomeInv
  BY DEF StreamInit, Init, OutcomeInv, RowInv, HandlerInv, LogInv, TaskInv, NoTask,
         NoHandler, NoConn, StreamTellsOutcome
<1>2. StreamTypeOK /\ OutcomeInv /\ [Next]_vars => OutcomeInv'
  BY OutcomeStep
<1> QED BY <1>1, <1>2, TypeCorrect, PTL DEF Spec

\* Whatever tasks, requests and starting processes compete to end a run, a page
\* is told the outcome that the row keeps.
THEOREM OutcomeIsTold == Spec => []StreamTellsOutcome
<1>1. OutcomeInv => StreamTellsOutcome
  BY DEF OutcomeInv
<1> QED BY <1>1, Invariance, PTL

\* Runs in embedded mode implement the life cycle that durable runs implement:
\* one execution at most, one outcome, for good.
THEOREM LifecycleIsKept == Spec => KeepsLifecycle
<1>1. StreamInit => Lifecycle!Init
  BY DEF StreamInit, Init, Lifecycle!Init, Phase, Running
<1>2. StreamTypeOK /\ OutcomeInv /\ [Next]_vars
        => [Lifecycle!Next]_<<[r \in Runs |-> Phase(r)], claims>>
  <2> SUFFICES ASSUME StreamTypeOK, OutcomeInv, [Next]_vars
               PROVE  Lifecycle!Next
    OBVIOUS
  <2>1. \A r \in Runs : RowMove(r) /\ RowInv(r)
    BY OutcomeStep DEF OutcomeInv
  <2>2. ASSUME NEW r \in Runs
        PROVE  Lifecycle!Moves(Phase(r), claims[r], Phase(r)', claims'[r])
    <3>1. claims[r] \in Nat
      BY DEF StreamTypeOK, TypeOK
    <3> QED
      BY <2>1, <3>1
      DEF RowMove, RowInv, Phase, Active, Running, TERMINAL_RUN_STATUSES,
          Lifecycle!Moves, Lifecycle!Create, Lifecycle!Begin, Lifecycle!EndEarly,
          Lifecycle!End, Lifecycle!Ended
  <2> QED BY <2>2 DEF Lifecycle!Next
<1> QED BY <1>1, <1>2, Invariance, PTL DEF Spec, KeepsLifecycle, Lifecycle!Spec

-----------------------------------------------------------------------------
(* The answer on the page *)

\* What AnswerInOrder says of one run, and that nothing on the page lies beyond
\* the cursor of an open connection: that is what makes the next delta a later one.
AnswerInv(r) ==
  /\ conn[r].pc # "idle" => \A i \in DOMAIN shown[r] : shown[r][i] <= conn[r].cursor
  /\ \A i, j \in DOMAIN shown[r] : i < j => shown[r][i] < shown[r][j]
  /\ \A d \in 1..conn[r].cursor :
       log[r][d] = "delta" =>
         \/ d <= gone[r] \/ d \in conn[r].cut
         \/ \E i \in DOMAIN shown[r] : shown[r][i] = d

\* Processes only append to logs, and Redis only drops more.
LEMMA LogsGrow ==
  ASSUME TypeOK, ServerNext
  PROVE  \A x \in Runs : /\ gone[x] <= gone'[x]
                         /\ \A d \in 1..Len(log[x]) : log'[x][d] = log[x][d]
<1>P. ASSUME NEW r \in Runs, NEW event \in RunEvents, Publish(r, event)
      PROVE  \A x \in Runs : /\ gone[x] <= gone'[x]
                             /\ \A d \in 1..Len(log[x]) : log'[x][d] = log[x][d]
  <2>1. log[r] \in Seq(RunEvents)
    BY DEF TypeOK
  <2>2. \A d \in 1..Len(log[r]) : Append(log[r], event)[d] = log[r][d]
    BY <2>1
  <2> QED BY <1>P, <2>2, PublishFrame
<1>1. ASSUME NEW p \in Processes, NEW r \in Runs, TellRejection(p, r) \/ TellOutcome(p, r)
      PROVE  \E event \in RunEvents : Publish(r, event)
  <2>1. "failed" \in RunEvents /\ task[p][r].out \in RunEvents
    BY DEF TypeOK, Task, RunEvents, TERMINAL_RUN_STATUSES
  <2> QED BY <1>1, <2>1 DEF TellRejection, TellOutcome
<1>2. "delta" \in RunEvents
  BY DEF RunEvents
<1> QED BY <1>P, <1>1, <1>2, Publishers

\* The next event is the first one behind the cursor that Redis still has.
LEMMA NextEventIsNext ==
  ASSUME NEW r \in Runs, conn[r].cursor \in Nat, gone[r] \in Nat
  PROVE  /\ NextEvent(r) \in Nat
         /\ NextEvent(r) > conn[r].cursor /\ NextEvent(r) > gone[r]
         /\ \A d \in 1..NextEvent(r) :
              d = NextEvent(r) \/ d <= conn[r].cursor \/ d <= gone[r]
<1> DEFINE c == conn[r].cursor
<1> DEFINE g == gone[r]
<1> DEFINE n == NextEvent(r)
<1>1. c \in Nat /\ g \in Nat /\ n = 1 + (IF g > c THEN g ELSE c)
  BY DEF NextEvent
<1> HIDE DEF c, g, n
<1>2. n \in Nat /\ n > c /\ n > g /\ \A d \in 1..n : d = n \/ d <= c \/ d <= g
  BY <1>1
<1> QED BY <1>2 DEF c, g, n

\* Every step keeps the answer of every page in order.
LEMMA AnswerStep ==
  ASSUME StreamTypeOK, \A x \in Runs : AnswerInv(x), [Next]_vars
  PROVE  \A x \in Runs : AnswerInv(x)'
<1>T. \A x \in Runs : /\ conn[x].cursor \in Nat /\ gone[x] \in Nat /\ Len(log[x]) \in Nat
                      /\ conn[x].cursor <= Len(log[x]) /\ gone[x] <= Len(log[x])
                      /\ shown[x] \in Seq(Nat)
  BY DEF StreamTypeOK, TypeOK, Connection
<1>K. ASSUME NEW x \in Runs, UNCHANGED serverVars, shown'[x] = shown[x],
             conn'[x].cursor = conn[x].cursor, conn'[x].cut = conn[x].cut,
             conn[x].pc = "idle" => conn'[x].pc = "idle"
      PROVE  AnswerInv(x)'
  BY <1>K DEF AnswerInv, serverVars
<1>1. CASE ServerNext /\ UNCHANGED <<conn, shown>>
  <2> SUFFICES ASSUME NEW x \in Runs PROVE AnswerInv(x)'
    OBVIOUS
  <2>1. /\ gone[x] <= gone'[x] /\ gone'[x] \in Nat
        /\ \A d \in 1..Len(log[x]) : log'[x][d] = log[x][d]
    BY <1>1, LogsGrow, ServerTypeStep DEF StreamTypeOK, TypeOK
  <2>2. conn'[x] = conn[x] /\ shown'[x] = shown[x]
    BY <1>1
  <2>3. ASSUME NEW d \in 1..conn'[x].cursor, log'[x][d] = "delta"
        PROVE  \/ d <= gone'[x] \/ d \in conn'[x].cut
               \/ \E i \in DOMAIN shown'[x] : shown'[x][i] = d
    <3>1. d \in 1..conn[x].cursor /\ d \in 1..Len(log[x])
      BY <1>T, <2>2, <2>3
    <3>2. log[x][d] = "delta"
      BY <2>1, <2>3, <3>1
    <3>3. \/ d <= gone[x] \/ d \in conn[x].cut
          \/ \E i \in DOMAIN shown[x] : shown[x][i] = d
      BY <3>1, <3>2 DEF AnswerInv
    <3> QED BY <1>T, <2>1, <2>2, <3>1, <3>3
  <2> QED BY <2>2, <2>3 DEF AnswerInv
<1>2. CASE UNCHANGED vars
  BY <1>2, <1>K DEF vars, serverVars
<1>3. ASSUME NEW r \in Runs, Follow(r) PROVE \A x \in Runs : AnswerInv(x)'
  <2>1. shown'[r] = <<>> /\ conn'[r].cursor = 0
    BY <1>3 DEF Follow, NoConn, StreamTypeOK
  <2>2. AnswerInv(r)'
    BY <2>1 DEF AnswerInv
  <2>3. \A x \in Runs \ {r} : shown'[x] = shown[x] /\ conn'[x] = conn[x]
    BY <1>3 DEF Follow, StreamTypeOK
  <2> QED BY <1>3, <1>K, <2>2, <2>3 DEF Follow
<1>4. ASSUME NEW r \in Runs, Break(r) \/ Resume(r) \/ TimeOut(r) \/ Check(r)
      PROVE  \A x \in Runs : AnswerInv(x)'
  <2>1. UNCHANGED serverVars /\ UNCHANGED shown
    BY <1>4 DEF Break, Resume, TimeOut, Check
  <2>2. CASE conn' = [conn EXCEPT ![r] = NoConn]
    <3>1. conn'[r].cursor = 0 /\ conn'[r].pc = "idle"
      BY <2>2 DEF NoConn, StreamTypeOK
    <3>2. AnswerInv(r)'
      BY <2>1, <3>1 DEF AnswerInv
    <3>3. \A x \in Runs \ {r} : conn'[x] = conn[x]
      BY <2>2 DEF StreamTypeOK
    <3> QED BY <1>K, <2>1, <3>2, <3>3
  <2>3. ASSUME ~(conn' = [conn EXCEPT ![r] = NoConn])
        PROVE  \A x \in Runs : /\ conn'[x].cursor = conn[x].cursor
                               /\ conn'[x].cut = conn[x].cut
                               /\ conn[x].pc = "idle" => conn'[x].pc = "idle"
    <3>2. CASE Break(r) \/ Resume(r) \/ TimeOut(r)
      <4>0. conn[r].pc # "idle"
        BY <3>2 DEF Break, Resume, TimeOut
      <4>1. PICK pc \in {"retrying", "reading", "checking"} :
              conn' = [conn EXCEPT ![r].pc = pc]
        BY <2>3, <3>2 DEF Break, Resume, TimeOut
      <4> QED BY <4>0, <4>1 DEF StreamTypeOK, Connection
    <3>3. CASE Check(r)
      BY <3>3 DEF Check, StreamTypeOK, Connection
    <3> QED BY <1>4, <3>2, <3>3
  <2> QED BY <1>K, <2>1, <2>2, <2>3
<1>5. ASSUME NEW r \in Runs, Deliver(r) PROVE \A x \in Runs : AnswerInv(x)'
  <2> DEFINE n == NextEvent(r)
  <2>1. /\ n \in Nat /\ n > conn[r].cursor /\ n > gone[r] /\ n <= Len(log[r])
        /\ \A d \in 1..n : d = n \/ d <= conn[r].cursor \/ d <= gone[r]
    BY <1>5, <1>T, NextEventIsNext DEF Deliver
  <2>2. conn'[r].cursor = n /\ conn'[r].cut = conn[r].cut /\ conn[r].pc # "idle"
    BY <1>5 DEF Deliver, OnEvent, StreamTypeOK, Connection
  <2>3. log' = log /\ gone' = gone /\ UNCHANGED serverVars
    BY <1>5 DEF Deliver, OnEvent, serverVars
  <2>4. \A x \in Runs \ {r} : shown'[x] = shown[x] /\ conn'[x] = conn[x]
    BY <1>5 DEF Deliver, OnEvent, StreamTypeOK
  <2>5. CASE log[r][n] # "delta"
    <3>1. shown'[r] = shown[r]
      BY <1>5, <2>5 DEF Deliver, OnEvent
    <3>2. \A i \in DOMAIN shown[r] : shown[r][i] \in Nat /\ shown[r][i] <= n
      BY <1>T, <2>1, <2>2 DEF AnswerInv
    <3>3. \A d \in 1..n : log[r][d] = "delta" =>
            \/ d <= gone[r] \/ d \in conn[r].cut
            \/ \E i \in DOMAIN shown[r] : shown[r][i] = d
      BY <1>T, <2>1, <2>5 DEF AnswerInv
    <3>4. AnswerInv(r)'
      BY <2>2, <2>3, <3>1, <3>2, <3>3 DEF AnswerInv
    <3> QED BY <1>K, <2>3, <2>4, <3>4
  <2>6. CASE log[r][n] = "delta"
    <3>1. shown'[r] = Append(shown[r], n)
      BY <1>5, <2>6 DEF Deliver, OnEvent, StreamTypeOK
    <3>2. /\ Len(shown[r]) \in Nat /\ DOMAIN shown[r] = 1..Len(shown[r])
          /\ DOMAIN shown'[r] = 1..(Len(shown[r]) + 1)
          /\ \A i \in 1..Len(shown[r]) : shown'[r][i] = shown[r][i]
          /\ shown'[r][Len(shown[r]) + 1] = n
      BY <1>T, <3>1
    <3>3. \A i \in DOMAIN shown[r] : shown[r][i] \in Nat /\ shown[r][i] < n
      BY <1>T, <2>1, <2>2 DEF AnswerInv
    <3>4. \A i \in DOMAIN shown'[r] : shown'[r][i] <= n
      <4> SUFFICES ASSUME NEW i \in DOMAIN shown'[r] PROVE shown'[r][i] <= n
        OBVIOUS
      <4>1. CASE i \in DOMAIN shown[r]
        <5>1. shown'[r][i] = shown[r][i] /\ shown[r][i] \in Nat /\ shown[r][i] < n
          BY <3>2, <3>3, <4>1
        <5> QED BY <2>1, <5>1
      <4>2. CASE i = Len(shown[r]) + 1
        BY <2>1, <3>2, <4>2
      <4> QED BY <3>2, <4>1, <4>2
    <3>5. \A i, j \in DOMAIN shown'[r] : i < j => shown'[r][i] < shown'[r][j]
      <4> SUFFICES ASSUME NEW i \in DOMAIN shown'[r], NEW j \in DOMAIN shown'[r], i < j
                   PROVE  shown'[r][i] < shown'[r][j]
        OBVIOUS
      <4>1. CASE j = Len(shown[r]) + 1
        BY <3>2, <3>3, <4>1
      <4>2. CASE j \in 1..Len(shown[r])
        BY <3>2, <4>2 DEF AnswerInv
      <4> QED BY <3>2, <4>1, <4>2
    <3>6. \A d \in 1..n : log[r][d] = "delta" =>
            \/ d <= gone[r] \/ d \in conn[r].cut
            \/ \E i \in DOMAIN shown'[r] : shown'[r][i] = d
      <4> SUFFICES ASSUME NEW d \in 1..n, log[r][d] = "delta", ~(d <= gone[r]),
                          d \notin conn[r].cut
                   PROVE  \E i \in DOMAIN shown'[r] : shown'[r][i] = d
        OBVIOUS
      <4>1. CASE d = n
        BY <3>2, <4>1
      <4>2. CASE d # n
        <5>1. d \in 1..conn[r].cursor
          BY <1>T, <2>1, <4>2
        <5>2. PICK i \in DOMAIN shown[r] : shown[r][i] = d
          BY <5>1 DEF AnswerInv
        <5> QED BY <3>2, <5>2
      <4> QED BY <4>1, <4>2
    <3>7. AnswerInv(r)'
      BY <2>2, <2>3, <3>4, <3>5, <3>6 DEF AnswerInv
    <3> QED BY <1>K, <2>3, <2>4, <3>7
  <2> QED BY <2>5, <2>6
<1>6. ASSUME NEW r \in Runs, BreakInside(r) PROVE \A x \in Runs : AnswerInv(x)'
  <2> DEFINE n == NextEvent(r)
  <2>1. /\ n \in Nat /\ n > conn[r].cursor
        /\ \A d \in 1..n : d = n \/ d <= conn[r].cursor \/ d <= gone[r]
    BY <1>T, NextEventIsNext
  <2>2. /\ conn'[r].cursor = n /\ conn'[r].cut = conn[r].cut \cup {n}
        /\ conn[r].pc # "idle"
    BY <1>6, CutMoves
  <2>3. log' = log /\ gone' = gone /\ shown' = shown /\ UNCHANGED serverVars
    BY <1>6 DEF BreakInside, serverVars
  <2>4. \A x \in Runs \ {r} : conn'[x] = conn[x]
    BY <1>6, CutMoves
  <2>5. \A i \in DOMAIN shown[r] : shown[r][i] \in Nat /\ shown[r][i] <= n
    BY <1>T, <2>1, <2>2 DEF AnswerInv
  <2>6. \A d \in 1..n : log[r][d] = "delta" =>
          \/ d <= gone[r] \/ d \in conn[r].cut \cup {n}
          \/ \E i \in DOMAIN shown[r] : shown[r][i] = d
    BY <1>T, <2>1 DEF AnswerInv
  <2> HIDE DEF n
  <2>7. AnswerInv(r)'
    BY <2>2, <2>3, <2>5, <2>6 DEF AnswerInv
  <2> QED BY <1>K, <2>3, <2>4, <2>7
<1> QED BY <1>1, <1>2, <1>3, <1>4, <1>5, <1>6 DEF Next, StreamStep

\* Over any number of broken and resumed connections and a trimmed stream, the
\* page never repeats or reorders a delta, and skips only what Redis has dropped
\* and the deltas whose blocks a connection cut off (readEventStream keeps their
\* ids).
THEOREM AnswerIsInOrder == Spec => []AnswerInOrder
<1> DEFINE Inv == \A x \in Runs : AnswerInv(x)
<1>1. StreamInit => Inv
  BY DEF StreamInit, NoConn, AnswerInv
<1>2. StreamTypeOK /\ Inv /\ [Next]_vars => Inv'
  BY AnswerStep
<1>3. Inv => AnswerInOrder
  BY DEF AnswerInv, AnswerInOrder
<1> HIDE DEF Inv
<1> QED BY <1>1, <1>2, <1>3, TypeCorrect, PTL DEF Spec

=============================================================================
