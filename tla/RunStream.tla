----------------------------- MODULE RunStream ------------------------------
(***************************************************************************)
(* The page that follows a run, composed with the processes that execute   *)
(* it.  The page reads the event stream of the run through run_events; a   *)
(* broken connection resumes after the last event it has seen, a new       *)
(* attempt of the user starts over.  A stream without news looks at the    *)
(* row of the run, so that a lost terminal event is made up for.           *)
(***************************************************************************)
EXTENDS EmbeddedRuns

VARIABLES
  conn,   \* conn[r]: the connection: its pc, the last event seen, the outcome told,
          \* and the events whose blocks were cut off
  shown   \* shown[r]: the deltas of the answer on the page, by their place in the log

vars == <<status, cancel, log, gone, handler, up, task, faults, claims, conn, shown>>

NoConn == [pc |-> "idle", cursor |-> 0, told |-> "completed", cut |-> {}]

Connection == [pc : {"idle", "reading", "checking", "retrying", "told"},
               cursor : Nat, told : TERMINAL_RUN_STATUSES, cut : SUBSET Nat]

StreamTypeOK ==
  /\ TypeOK
  /\ conn \in [Runs -> Connection]
  /\ \A r \in Runs : conn[r].cursor <= Len(log[r])
  /\ shown \in [Runs -> Seq(Nat)]

StreamInit ==
  /\ Init
  /\ conn = [r \in Runs |-> NoConn]
  /\ shown = [r \in Runs |-> <<>>]

-----------------------------------------------------------------------------
(* The page *)

\* followRun: a run that was created, or found active when the page was loaded,
\* or whose connection was lost for good; the answer is read from the start.
Follow(r) ==
  /\ status[r] # "absent"
  /\ conn[r].pc = "idle"
  /\ conn' = [conn EXCEPT ![r] = [NoConn EXCEPT !.pc = "reading"]]
  /\ shown' = [shown EXCEPT ![r] = <<>>]
  /\ UNCHANGED serverVars

\* The connection breaks: streamRunEvents tries again, or gives up after its
\* third failure, an error answer or an abort and forgets its lastEventId.
Break(r) ==
  /\ conn[r].pc \in {"reading", "checking"}
  /\ \/ conn' = [conn EXCEPT ![r].pc = "retrying"]
     \/ conn' = [conn EXCEPT ![r] = NoConn]
  /\ UNCHANGED <<serverVars, shown>>

\* XREAD goes on after the cursor and skips what Redis has dropped.
NextEvent(r) == 1 + (IF gone[r] > conn[r].cursor THEN gone[r] ELSE conn[r].cursor)

\* The stream ends inside the block of a delta: readEventStream parses what it
\* has of it, so its id is kept, and a text that is cut off is not shown.
BreakInside(r) ==
  LET i == NextEvent(r)
  IN /\ conn[r].pc = "reading"
     /\ i <= Len(log[r])
     /\ log[r][i] = "delta"
     /\ conn' = [conn EXCEPT ![r].pc = "retrying", ![r].cursor = i,
                             ![r].cut = conn[r].cut \cup {i}]
     /\ UNCHANGED <<serverVars, shown>>

\* Variant with a bug: the connection is resumed without Last-Event-ID.
ResumeFromStart(r) ==
  /\ conn[r].pc = "retrying"
  /\ conn' = [conn EXCEPT ![r] = [NoConn EXCEPT !.pc = "reading"]]
  /\ UNCHANGED <<serverVars, shown>>

\* The next request carries Last-Event-ID.
Resume(r) ==
  /\ conn[r].pc = "retrying"
  /\ conn' = [conn EXCEPT ![r].pc = "reading"]
  /\ UNCHANGED <<serverVars, shown>>

-----------------------------------------------------------------------------
(* _event_stream *)

\* The page takes event i: it keeps the id, appends a delta to the answer and
\* shows the outcome of a terminal event.
OnEvent(r, i, event) ==
  /\ conn' = [conn EXCEPT ![r] =
       IF event \in TERMINAL_RUN_STATUSES
         THEN [@ EXCEPT !.pc = "told", !.cursor = i, !.told = event]
         ELSE [@ EXCEPT !.cursor = i]]
  /\ shown' = IF event = "delta" THEN [shown EXCEPT ![r] = Append(@, i)] ELSE shown

\* The next event reaches the page; a terminal one is the last for both sides.
Deliver(r) ==
  /\ conn[r].pc = "reading"
  /\ NextEvent(r) <= Len(log[r])
  /\ OnEvent(r, NextEvent(r), log[r][NextEvent(r)])
  /\ UNCHANGED serverVars

\* XREAD blocks 15 seconds without an event.
TimeOut(r) ==
  /\ conn[r].pc = "reading"
  /\ NextEvent(r) > Len(log[r])
  /\ conn' = [conn EXCEPT ![r].pc = "checking"]
  /\ UNCHANGED <<serverVars, shown>>

\* Variant with a bug: only heartbeats are sent while there is no event.
HeartbeatOnly(r) ==
  /\ conn[r].pc = "checking"
  /\ conn' = [conn EXCEPT ![r].pc = "reading"]
  /\ UNCHANGED <<serverVars, shown>>

\* Then the row is read: run.snapshot for a run that ended, else a heartbeat.
Check(r) ==
  /\ conn[r].pc = "checking"
  /\ conn' = [conn EXCEPT ![r] =
       IF status[r] \in TERMINAL_RUN_STATUSES
         THEN [@ EXCEPT !.pc = "told", !.told = status[r]]
         ELSE [@ EXCEPT !.pc = "reading"]]
  /\ UNCHANGED <<serverVars, shown>>

-----------------------------------------------------------------------------

StreamStep(r) == Deliver(r) \/ TimeOut(r) \/ Check(r)

Next ==
  \/ ServerNext /\ UNCHANGED <<conn, shown>>
  \/ \E r \in Runs : Follow(r) \/ Break(r) \/ BreakInside(r) \/ Resume(r) \/ StreamStep(r)

\* A task, a request and a stream that are not killed go on.  Every holder of a
\* permit ends within max_run_seconds and a process is not always killed just
\* before a waiting task claims its run, hence the strong fairness.  Nothing is
\* assumed of users, faults, crashes or restarts.
Fairness ==
  \A r \in Runs :
    /\ WF_vars(Age(r) /\ UNCHANGED <<conn, shown>>)
    /\ WF_vars(StreamStep(r))
    /\ SF_vars(\E p \in Processes : Execute(p, r) /\ UNCHANGED <<conn, shown>>)
    /\ SF_vars(\E p \in Processes : ClaimRun(p, r) /\ UNCHANGED <<conn, shown>>)
    /\ \A p \in Processes :
         WF_vars((TaskStep(p, r) \/ HandlerStep(p, r)) /\ UNCHANGED <<conn, shown>>)

Spec == StreamInit /\ [][Next]_vars /\ Fairness

-----------------------------------------------------------------------------
(* Properties *)

\* The outcome a page is told, by a terminal event or by the snapshot, is the
\* one of the row, however many processes tried to end the run (_finish_error,
\* complete_run, reject_submission, recover_incomplete_runs).
StreamTellsOutcome ==
  \A r \in Runs : conn[r].pc = "told" => status[r] = conn[r].told

\* The answer on the page never repeats or reorders a delta over broken and
\* resumed connections, and misses one that lies behind its cursor only if
\* Redis had dropped it or a connection ended inside its block (lastEventId of
\* streamRunEvents, cursor of _event_stream).
AnswerInOrder ==
  \A r \in Runs :
    /\ \A i, j \in DOMAIN shown[r] : i < j => shown[r][i] < shown[r][j]
    /\ \A d \in 1..conn[r].cursor :
         log[r][d] = "delta" =>
           \/ d <= gone[r] \/ d \in conn[r].cut
           \/ \E i \in DOMAIN shown[r] : shown[r][i] = d

Phase(r) == CASE status[r] = "queued" -> "pending"
              [] status[r] \in Running -> "executing"
              [] OTHER -> status[r]

\* In embedded mode a run keeps the promises of a durable one: its Agent is
\* started at most once and it ends at most once, although a process that
\* starts submits what another one is executing.
Lifecycle == INSTANCE RunLifecycle WITH phase <- [r \in Runs |-> Phase(r)],
                                        starts <- claims
KeepsLifecycle == Lifecycle!Spec

Restart == (\E p \in Processes : Start(p)) /\ UNCHANGED <<conn, shown>>

\* Provided processes are restarted again and again, every run that was
\* created ends: a queued one is submitted by some start, a running one that
\* lost its task is failed by the first start after it became stale.
EveryRunEnds ==
  ([]<><<Restart>>_vars) =>
    \A r \in Runs : (status[r] # "absent") ~> (status[r] \in TERMINAL_RUN_STATUSES)

\* A page that is connected when the run has ended learns of it, even when the
\* terminal event was never published or is gone, or its connection breaks.
EveryStreamEnds ==
  \A r \in Runs :
    (conn[r].pc \in {"reading", "checking"} /\ status[r] \in TERMINAL_RUN_STATUSES)
      ~> (conn[r].pc \in {"idle", "retrying", "told"})
=============================================================================
