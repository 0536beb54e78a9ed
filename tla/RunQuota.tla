------------------------------ MODULE RunQuota ------------------------------
(***************************************************************************)
(* The Redis run quota in external-worker mode: daily budgets per user and *)
(* per organization, the request rate, concurrency slots, the reservation  *)
(* key that makes a reservation idempotent per run, and the operational    *)
(* switch; with the API requests and worker tasks that reserve, take a     *)
(* slot, settle, roll back and abandon.                                    *)
(*                                                                         *)
(* One action is one Lua script or Redis command, with the database calls  *)
(* of its caller that follow at once.  Tokens and cost are counted alike,  *)
(* so that one counter per scope and day stands for both.                  *)
(***************************************************************************)
EXTENDS Integers, FiniteSets, Functions

CONSTANTS
  Runs,        \* one trace id per run
  Users,
  UserOf,      \* the user who asks for each run; one organization owns all
  Organization,
  Clients,     \* API requests and worker tasks
  NoClient,
  LastDay,     \* bound: budget days are 1..LastDay
  Reserved,    \* reserved_tokens: what a run is charged in advance
  Usage,       \* what the model may report for a run
  DailyLimit,  \* daily limit of each user and of the organization
  RateLimit,   \* max_runs_per_user_per_minute
  Slots,       \* max_concurrent_runs of each user and of the organization
  Faults       \* subset of {"stall", "torn", "midnight"}: see LeaseExpires, Crash
               \* and NewDay

Scopes == Users \cup {Organization}
Days == 1..LastDay

ASSUME QuotaAssumption ==
  /\ IsFiniteSet(Runs) /\ Runs # {}
  /\ UserOf \in [Runs -> Users]
  /\ Organization \notin Users
  /\ NoClient \notin Clients
  /\ LastDay \in Nat \ {0}
  /\ Reserved \in Nat
  /\ Usage \subseteq Nat
  /\ DailyLimit \in [Scopes -> Nat]
  /\ RateLimit \in Nat
  /\ Slots \in [Scopes -> Nat]
  /\ Faults \subseteq {"stall", "torn", "midnight"}

VARIABLES
  used,     \* used[d][s]: the daily counter of scope s
  slots,    \* members of the concurrency sorted sets
  rate,     \* members of the rate sorted sets
  keys,     \* runs whose reservation key exists
  switch,   \* "off" when the runs-disabled key exists
  today,
  run,      \* the run row and its job: state, budget day, execution started
  holder,   \* holder[r]: the client whose job lease on r is valid
  client,   \* where each request or task stands
  spent     \* history: usage settled for r, or -1

vars == <<used, slots, rate, keys, switch, today, run, holder, client, spent>>

RunState == {"none", "asked", "queued", "running", "ended"}
\* A rollback passes through check, undo and delete; `end' says whether the
\* caller then ends the run.
ClientPC == {"idle", "create", "reserve", "slot", "claim", "start", "model", "drop",
             "check", "undo", "delete"}
Idle == [pc |-> "idle", run |-> CHOOSE r \in Runs : TRUE, day |-> 1, end |-> "no"]

TypeOK ==
  /\ used \in [Days -> [Scopes -> Int]]
  /\ slots \subseteq Runs /\ rate \subseteq Runs /\ keys \subseteq Runs
  /\ switch \in {"on", "off"} /\ today \in Days
  /\ run \in [Runs -> [state : RunState, day : Days, started : {"no", "yes"}]]
  /\ holder \in [Runs -> Clients \cup {NoClient}]
  /\ client \in [Clients -> [pc : ClientPC, run : Runs, day : Days, end : {"no", "yes"}]]
  /\ spent \in [Runs -> Nat \cup {-1}]

Init ==
  /\ used = [d \in Days |-> [s \in Scopes |-> 0]]
  /\ slots = {} /\ rate = {} /\ keys = {}
  /\ switch = "on" /\ today = 1
  /\ run = [r \in Runs |-> [state |-> "none", day |-> 1, started |-> "no"]]
  /\ holder = [r \in Runs |-> NoClient]
  /\ client = [c \in Clients |-> Idle]
  /\ spent = [r \in Runs |-> -1]

-----------------------------------------------------------------------------
(* The scripts *)

ScopesOf(r) == {UserOf[r], Organization}
InScope(S, s) == {r \in S : s \in ScopesOf(r)}

\* INCRBY or DECRBY on the counters of r.
Add(r, d, n) ==
  used' = [used EXCEPT ![d] = [s \in Scopes |-> IF s \in ScopesOf(r) THEN @[s] + n ELSE @[s]]]

\* Variant with a bug: the reservation itself is left out of the comparison.
ReserveUntilFull(r, d) ==
  CASE switch = "off" -> "refused"
    [] switch = "on" /\ r \in keys -> "existing"
    [] OTHER -> IF \A s \in ScopesOf(r) : used[d][s] <= DailyLimit[s] THEN "ok" ELSE "refused"

\* _RESERVE: what the script answers ...
ReserveOutcome(r, d) ==
  CASE switch = "off" -> "refused"
    [] switch = "on" /\ r \in keys -> "existing"
    [] OTHER ->
         IF /\ Cardinality(InScope(rate, UserOf[r])) < RateLimit
            /\ \A s \in ScopesOf(r) : used[d][s] + Reserved <= DailyLimit[s]
         THEN "ok" ELSE "refused"

\* ... and what it writes when it admits a new reservation.
ReserveEffect(r, d, outcome) ==
  IF outcome = "ok"
  THEN Add(r, d, Reserved) /\ rate' = rate \cup {r} /\ keys' = keys \cup {r}
  ELSE UNCHANGED <<used, rate, keys>>

\* Variant with a bug: a full set still admits one more.
HasSlotOrLast(r) ==
  \/ r \in slots
  \/ \A s \in ScopesOf(r) : Cardinality(InScope(slots, s)) <= Slots[s]

\* _ACQUIRE_CONCURRENCY: a slot that r holds already, or a free one.
HasSlot(r) ==
  \/ r \in slots
  \/ \A s \in ScopesOf(r) : Cardinality(InScope(slots, s)) < Slots[s]

Goto(c, pc) == client' = [client EXCEPT ![c].pc = pc]
Leave(c) == client' = [client EXCEPT ![c] = Idle]

\* rollback begins; the caller ends the run afterwards, or not.
Rollback(c, r, d, end) ==
  client' = [client EXCEPT ![c] = [pc |-> "check", run |-> r, day |-> d, end |-> end]]

\* The caller's transaction ends run r if the caller still holds the lease.
EndRun(c, r) ==
  IF holder[r] = c
  THEN /\ run' = [run EXCEPT ![r].state = "ended"]
       /\ holder' = [holder EXCEPT ![r] = NoClient]
  ELSE UNCHANGED <<run, holder>>

-----------------------------------------------------------------------------
(* API requests *)

\* create_message_run: reserve under the trace id of the request, for today.
Request(c, r) ==
  /\ client[c].pc = "idle"
  /\ run[r].state = "none"
  /\ LET outcome == ReserveOutcome(r, today)
     IN  /\ ReserveEffect(r, today, outcome)
         /\ IF outcome = "refused"
            THEN UNCHANGED client
            ELSE client' = [client EXCEPT ![c] =
                             [pc |-> "create", run |-> r, day |-> today, end |-> "no"]]
  /\ run' = [run EXCEPT ![r].state = "asked", ![r].day = today]
  /\ UNCHANGED <<slots, switch, today, holder, spent>>

\* create_run commits, with created_at now; or it raises or finds an earlier
\* run of the same idempotency key, and the reservation is rolled back.
CreateRun(c) ==
  LET r == client[c].run
  IN  /\ client[c].pc = "create"
      /\ \/ run' = [run EXCEPT ![r].state = "queued", ![r].day = today] /\ Leave(c)
         \/ Rollback(c, r, client[c].day, "no") /\ UNCHANGED run
      /\ UNCHANGED <<used, slots, rate, keys, switch, today, holder, spent>>

\* cancel_run of a queued run: cancel_queued, then rollback.
CancelQueued(c, r) ==
  /\ client[c].pc = "idle"
  /\ run[r].state \in {"queued", "running"} /\ holder[r] = NoClient
  /\ run' = [run EXCEPT ![r].state = "ended"]
  /\ Rollback(c, r, run[r].day, "no")
  /\ UNCHANGED <<used, slots, rate, keys, switch, today, holder, spent>>

-----------------------------------------------------------------------------
(* Worker tasks *)

\* Variant with a bug: the worker charges the day of the retry.
LeaseToday(c, r) ==
  /\ client[c].pc = "idle"
  /\ run[r].state \in {"queued", "running"} /\ holder[r] = NoClient
  /\ holder' = [holder EXCEPT ![r] = c]
  /\ client' = [client EXCEPT ![c] = [pc |-> "reserve", run |-> r, day |-> today, end |-> "no"]]
  /\ UNCHANGED <<used, slots, rate, keys, switch, today, run, spent>>

\* RunJobService.claim
Lease(c, r) ==
  /\ client[c].pc = "idle"
  /\ run[r].state \in {"queued", "running"} /\ holder[r] = NoClient
  /\ holder' = [holder EXCEPT ![r] = c]
  /\ client' = [client EXCEPT ![c] = [pc |-> "reserve", run |-> r, day |-> run[r].day,
                                      end |-> "no"]]
  /\ UNCHANGED <<used, slots, rate, keys, switch, today, run, spent>>

\* quota.reserve with claim_existing; when refused, reject_submission ends
\* the run and leaves the reservation alone.
Reserve(c) ==
  LET r == client[c].run
      outcome == ReserveOutcome(r, client[c].day)
  IN  /\ client[c].pc = "reserve"
      /\ ReserveEffect(r, client[c].day, outcome)
      /\ IF outcome = "refused"
         THEN EndRun(c, r) /\ Leave(c)
         ELSE Goto(c, "slot") /\ UNCHANGED <<run, holder>>
      /\ UNCHANGED <<slots, switch, today, spent>>

\* quota.acquire_concurrency; without a slot, release_for_capacity.
AcquireConcurrency(c) ==
  LET r == client[c].run
  IN  /\ client[c].pc = "slot"
      /\ IF HasSlot(r)
         THEN slots' = slots \cup {r} /\ Goto(c, "claim") /\ UNCHANGED holder
         ELSE /\ holder' = [holder EXCEPT ![r] = IF @ = c THEN NoClient ELSE @]
              /\ Leave(c)
              /\ UNCHANGED slots
      /\ UNCHANGED <<used, rate, keys, switch, today, run, spent>>

\* acquire_concurrency raised: abandon, then release_before_execution.
ReleaseAfterError(c) ==
  LET r == client[c].run
  IN  /\ client[c].pc = "slot"
      /\ slots' = slots \ {r}
      /\ holder' = [holder EXCEPT ![r] = IF @ = c THEN NoClient ELSE @]
      /\ Leave(c)
      /\ UNCHANGED <<used, rate, keys, switch, today, run, spent>>

\* claim_run; when it finds the run taken, or raises, the quota is rolled back.
ClaimRun(c) ==
  LET r == client[c].run
  IN  /\ client[c].pc = "claim"
      /\ \/ /\ run[r].state = "queued"
            /\ run' = [run EXCEPT ![r].state = "running"]
            /\ Goto(c, "start")
         \/ Rollback(c, r, client[c].day, "no") /\ UNCHANGED run
      /\ UNCHANGED <<used, slots, rate, keys, switch, today, holder, spent>>

\* Before the model: mark_execution_started under a valid lease; a rollback
\* when the lease is lost, or when a cancellation or a limit ends the run.
Start(c) ==
  LET r == client[c].run
  IN  /\ client[c].pc = "start"
      /\ \/ /\ holder[r] = c
            /\ run' = [run EXCEPT ![r].started = "yes"]
            /\ Goto(c, "model")
         \/ holder[r] # c /\ Rollback(c, r, client[c].day, "no") /\ UNCHANGED run
         \/ Rollback(c, r, client[c].day, "yes") /\ UNCHANGED run
      /\ UNCHANGED <<used, slots, rate, keys, switch, today, holder, spent>>

\* _SETTLE: the slot is freed, the reservation replaced by the usage.
Settle(c) ==
  LET r == client[c].run
  IN  /\ client[c].pc = "model"
      /\ \E tokens \in Usage :
           /\ Add(r, client[c].day, tokens - Reserved)
           /\ spent' = [spent EXCEPT ![r] = tokens]
      /\ slots' = slots \ {r}
      /\ Goto(c, "drop")
      /\ UNCHANGED <<rate, keys, switch, today, run, holder>>

\* settle deletes the reservation key; the run is completed or failed.
DropKey(c) ==
  LET r == client[c].run
  IN  /\ client[c].pc = "drop"
      /\ keys' = keys \ {r}
      /\ EndRun(c, r)
      /\ Leave(c)
      /\ UNCHANGED <<used, slots, rate, switch, today, spent>>

\* An unmetered failure: abandon frees the slot and keeps the reservation.
Abandon(c) ==
  LET r == client[c].run
  IN  /\ client[c].pc \in {"start", "model"}
      /\ slots' = slots \ {r}
      /\ EndRun(c, r)
      /\ Leave(c)
      /\ UNCHANGED <<used, rate, keys, switch, today, spent>>

-----------------------------------------------------------------------------
(* rollback: EXISTS, then the script, then DEL *)

CheckKey(c) ==
  LET r == client[c].run
  IN  /\ client[c].pc = "check"
      /\ IF r \in keys
         THEN Goto(c, "undo") /\ UNCHANGED <<run, holder>>
         ELSE /\ IF client[c].end = "yes" THEN EndRun(c, r) ELSE UNCHANGED <<run, holder>>
              /\ Leave(c)
      /\ UNCHANGED <<used, slots, rate, keys, switch, today, spent>>

\* _ROLLBACK
UndoReservation(c) ==
  LET r == client[c].run
  IN  /\ client[c].pc = "undo"
      /\ Add(r, client[c].day, -Reserved)
      /\ slots' = slots \ {r} /\ rate' = rate \ {r}
      /\ Goto(c, "delete")
      /\ UNCHANGED <<keys, switch, today, run, holder, spent>>

DeleteKey(c) ==
  LET r == client[c].run
  IN  /\ client[c].pc = "delete"
      /\ keys' = keys \ {r}
      /\ IF client[c].end = "yes" THEN EndRun(c, r) ELSE UNCHANGED <<run, holder>>
      /\ Leave(c)
      /\ UNCHANGED <<used, slots, rate, switch, today, spent>>

-----------------------------------------------------------------------------
(* Time, faults and operators *)

\* c is at work on r.
Working(c, r) == client[c].pc # "idle" /\ client[c].run = r

\* recover_expired for the lease on r: requeued, or ended once started.  A
\* holder that still works on r loses its lease only under the fault "stall".
LeaseExpires(r) ==
  /\ holder[r] # NoClient
  /\ "stall" \in Faults \/ ~Working(holder[r], r)
  /\ holder' = [holder EXCEPT ![r] = NoClient]
  /\ run' = [run EXCEPT ![r].state = IF run[r].started = "yes" THEN "ended" ELSE "queued"]
  /\ UNCHANGED <<used, slots, rate, keys, switch, today, client, spent>>

\* A process dies; between _ROLLBACK and DEL only under the fault "torn".
Crash(c) ==
  /\ client[c].pc # "idle"
  /\ "torn" \in Faults \/ client[c].pc # "delete"
  /\ Leave(c)
  /\ UNCHANGED <<used, slots, rate, keys, switch, today, run, holder, spent>>

\* A slot outlives the execution it was taken for (max_run_seconds plus the
\* shutdown grace); afterwards it expires.
SlotExpires(r) ==
  /\ r \in slots
  /\ \A c \in Clients : Working(c, r) => client[c].pc \notin {"claim", "start", "model"}
  /\ slots' = slots \ {r}
  /\ UNCHANGED <<used, rate, keys, switch, today, run, holder, client, spent>>

\* The sliding window of a minute moves on.
RateExpires(r) ==
  /\ r \in rate
  /\ rate' = rate \ {r}
  /\ UNCHANGED <<used, slots, keys, switch, today, run, holder, client, spent>>

\* Midnight (UTC); between reserve and create_run only under "midnight".
NewDay ==
  /\ today < LastDay
  /\ "midnight" \in Faults \/ \A c \in Clients : client[c].pc # "create"
  /\ today' = today + 1
  /\ UNCHANGED <<used, slots, rate, keys, switch, run, holder, client, spent>>

\* disable_runs, enable_runs
Toggle ==
  /\ switch' = IF switch = "on" THEN "off" ELSE "on"
  /\ UNCHANGED <<used, slots, rate, keys, today, run, holder, client, spent>>

-----------------------------------------------------------------------------

ClientNext(c) ==
  \/ \E r \in Runs : Request(c, r) \/ CancelQueued(c, r) \/ Lease(c, r)
  \/ CreateRun(c) \/ Reserve(c) \/ AcquireConcurrency(c) \/ ReleaseAfterError(c)
  \/ ClaimRun(c) \/ Start(c) \/ Settle(c) \/ DropKey(c) \/ Abandon(c) \/ CheckKey(c) \/ UndoReservation(c)
  \/ DeleteKey(c) \/ Crash(c)

Next ==
  \/ \E c \in Clients : ClientNext(c)
  \/ \E r \in Runs : LeaseExpires(r) \/ SlotExpires(r) \/ RateExpires(r)
  \/ NewDay \/ Toggle

Spec == Init /\ [][Next]_vars

-----------------------------------------------------------------------------
(* Properties *)

\* What run r owes: its usage once settled, else its reservation.
Owes(r) ==
  IF spent[r] >= 0 THEN spent[r]
  ELSE IF r \in keys /\ \A c \in Clients : ~(Working(c, r) /\ client[c].pc = "delete")
       THEN Reserved ELSE 0

\* What of it the counter of day d and scope s stands for.
Charge(r, d, s) == IF run[r].day = d /\ s \in ScopesOf(r) THEN Owes(r) ELSE 0

\* What run r used in scope s beyond its reservation.
Excess(r, s) == IF s \in ScopesOf(r) /\ spent[r] > Reserved THEN spent[r] - Reserved ELSE 0

\* Accounting is exact: each daily counter is the sum of what the runs of that
\* day owe, through retries, crashes, duplicate requests, cancellations and
\* capacity waits, as long as every task keeps its lease while it works.
BudgetExact ==
  \A d \in Days : \A s \in Scopes : used[d][s] = SumFunction([r \in Runs |-> Charge(r, d, s)])

\* No daily budget is overdrawn by admission: whatever exceeds a limit is
\* usage that the model reported beyond the reservation.
BudgetRespected ==
  \A d \in Days : \A s \in Scopes :
    used[d][s] <= DailyLimit[s] + SumFunction([r \in Runs |-> Excess(r, s)])

\* The runs whose model is at work never exceed the concurrency limits, also
\* when slots expire, are shared by retries or freed by rollbacks.
SlotsRespected ==
  \A s \in Scopes :
    Cardinality({c \in Clients : client[c].pc = "model" /\ s \in ScopesOf(client[c].run)})
      <= Slots[s]

\* A settled run stays charged: no counter ever falls below the usage of the
\* runs settled on it.
NeverUndercharged ==
  \A d \in Days : \A s \in Scopes :
    used[d][s] >= SumFunction([r \in Runs |-> IF spent[r] >= 0 THEN Charge(r, d, s) ELSE 0])
=============================================================================
