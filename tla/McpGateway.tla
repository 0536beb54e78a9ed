----------------------------- MODULE McpGateway -----------------------------
(***************************************************************************)
(* Tool calls of one user to one MCP server through the gateway of one     *)
(* process: resolution against the registered server, the connection and   *)
(* the cached catalog, then the rate limit, the circuit breaker and the    *)
(* semaphore, the call and its report to the breaker.  Administrators      *)
(* update the server and rotate the connection meanwhile.                  *)
(***************************************************************************)
EXTENDS Naturals, Sequences, FiniteSets

CONSTANTS
  Calls,        \* tool calls, each made once
  Tools,        \* tools that the server offers
  Limits,       \* values of max_concurrency that administrators set
  MaxVersion,   \* bound on config_version
  MaxRotations, \* bound on rotations of the connection
  rate_limit, threshold

ASSUME McpGatewayAssumption ==
  /\ Limits # {} /\ Limits \subseteq Nat \ {0}
  /\ {MaxVersion, rate_limit, threshold} \subseteq Nat \ {0}
  /\ MaxRotations \in Nat

VARIABLES
  kind,        \* the breaker and limiter in use: "memory" or "redis"
  server,      \* McpServerDefinition: config_version, allowed_tools, max_concurrency, enabled
  connection,  \* ExternalConnection: credential reference, allowed_tools
  stale,       \* an update was committed and invalidate_server has not run
  cache,       \* catalog entries: key and tools
  rate,        \* calls counted in the window
  breaker,     \* failures and whether it is open
  semaphores,  \* free permits of each semaphore made so far; the last is in use
  sem_limit,   \* _semaphore_limits: the limit the last one was made for, or 0
  call         \* what each call is doing

vars == <<kind, server, connection, stale, cache, rate, breaker, semaphores,
          sem_limit, call>>
config == <<kind, server, connection, stale>>

Server == [version : 1..MaxVersion, allowed : SUBSET Tools, limit : Limits, enabled : BOOLEAN]
Connection == [reference : 0..MaxRotations, allowed : SUBSET Tools]
NoCall == [pc |-> "idle"]
CallRecord ==
  {NoCall}
  \cup [pc : {"done"}]
  \cup [pc : {"connect"}, tool : Tools, server : Server]
  \cup [pc : {"lookup", "discover", "limit", "before"}, tool : Tools,
        server : Server, connection : Connection]
  \cup [pc : {"wait", "calling"}, tool : Tools, server : Server,
        connection : Connection, sem : Nat]
  \cup [pc : {"report"}, success : BOOLEAN]

\* What _cache_key tells apart for one user and server, and the tools listed.
CatalogEntry ==
  [key : (1..MaxVersion) \X (0..MaxRotations) \X SUBSET Tools, tools : SUBSET Tools]

\* Types of the state; a catalog key has one entry.
TypeOK ==
  /\ kind \in {"memory", "redis"}
  /\ server \in Server
  /\ connection \in Connection
  /\ stale \in BOOLEAN
  /\ cache \subseteq CatalogEntry
  /\ \A e, f \in cache : e.key = f.key => e = f
  /\ rate \in 0..rate_limit
  /\ breaker \in [failures : Nat, opened : {"no", "until_later", "until_past"}]
  /\ semaphores \in Seq(Nat)
  /\ sem_limit \in Limits \cup {0}
  /\ call \in [Calls -> CallRecord]

Init ==
  /\ kind \in {"memory", "redis"}
  /\ server \in {s \in Server : s.version = 1 /\ s.enabled}
  /\ connection \in {x \in Connection : x.reference = 0}
  /\ stale = FALSE
  /\ cache = {}
  /\ rate = 0
  /\ breaker = [failures |-> 0, opened |-> "no"]
  /\ semaphores = <<>>
  /\ sem_limit = 0
  /\ call = [c \in Calls |-> NoCall]

Goto(c, pc) == call' = [call EXCEPT ![c].pc = pc]
End(c) == call' = [call EXCEPT ![c] = [pc |-> "done"]]

-----------------------------------------------------------------------------
(* Resolution: ToolCatalogService.resolve_tool *)

Call(c, tool) ==
  /\ call[c] = NoCall
  /\ IF server.enabled
       THEN call' = [call EXCEPT ![c] = [pc |-> "connect", tool |-> tool, server |-> server]]
       ELSE End(c)
  /\ UNCHANGED <<config, cache, rate, breaker, semaphores, sem_limit>>

ReadConnection(c) ==
  /\ call[c].pc = "connect"
  /\ call' = [call EXCEPT ![c] =
       [pc |-> "lookup", tool |-> @.tool, server |-> @.server, connection |-> connection]]
  /\ UNCHANGED <<config, cache, rate, breaker, semaphores, sem_limit>>

\* Variant with a bug: the key does not hold config_version.
CacheKeyUnversioned(s, x) == <<x.reference, x.allowed>>

\* What _cache_key tells apart for one user and server.
CacheKey(s, x) == <<s.version, x.reference, x.allowed>>

\* _filter: what server and connection allow of what the server offers.
Filter(s, x) == s.allowed \cap x.allowed

\* The call goes on when the tool is in the catalog.
Resolved(c, tools) == IF call[c].tool \in tools THEN Goto(c, "limit") ELSE End(c)

Lookup(c) ==
  /\ call[c].pc = "lookup"
  /\ LET hit == {e \in cache : e.key = CacheKey(call[c].server, call[c].connection)}
     IN IF hit = {} THEN Goto(c, "discover")
                    ELSE Resolved(c, (CHOOSE e \in hit : TRUE).tools)
  /\ UNCHANGED <<config, cache, rate, breaker, semaphores, sem_limit>>

\* The server lists its tools, or the connection fails.
Discover(c) ==
  /\ call[c].pc = "discover"
  /\ \/ LET key == CacheKey(call[c].server, call[c].connection)
            tools == Filter(call[c].server, call[c].connection)
        IN /\ cache' = {e \in cache : e.key # key} \cup {[key |-> key, tools |-> tools]}
           /\ Resolved(c, tools)
     \/ End(c) /\ UNCHANGED cache
  /\ UNCHANGED <<config, rate, breaker, semaphores, sem_limit>>

-----------------------------------------------------------------------------
(* Policy and call: McpGateway.call *)

RateExceeded == rate >= rate_limit

\* _validate_input may refuse the arguments, then the limiter counts the call.
CheckRate(c) ==
  /\ call[c].pc = "limit"
  /\ \/ End(c) /\ UNCHANGED rate
     \/ ~RateExceeded /\ rate' = rate + 1 /\ Goto(c, "before")
  /\ UNCHANGED <<config, cache, breaker, semaphores, sem_limit>>

\* Variant with a bug: the first semaphore is kept when the limit changes.
SameLimitOnce(c) == sem_limit # 0

\* The semaphore in use was made for the limit that the call has read.
SameLimit(c) == sem_limit = call[c].server.limit

\* before(), then the choice of the semaphore.
Before(c) ==
  /\ call[c].pc = "before"
  /\ IF breaker.opened = "until_later"
       THEN End(c) /\ UNCHANGED <<breaker, semaphores, sem_limit>>
       ELSE /\ breaker' = [breaker EXCEPT !.opened = "no"]
            /\ semaphores' = IF SameLimit(c) THEN semaphores
                             ELSE Append(semaphores, call[c].server.limit)
            /\ sem_limit' = call[c].server.limit
            /\ call' = [call EXCEPT ![c] =
                 [pc |-> "wait", tool |-> @.tool, server |-> @.server,
                  connection |-> @.connection, sem |-> Len(semaphores')]]
  /\ UNCHANGED <<config, cache, rate>>

\* Redis does not answer the limiter or the breaker: the call counts as failed.
BackendFails(c) ==
  /\ kind = "redis"
  /\ call[c].pc \in {"limit", "before"}
  /\ call' = [call EXCEPT ![c] = [pc |-> "report", success |-> FALSE]]
  /\ UNCHANGED <<config, cache, rate, breaker, semaphores, sem_limit>>

Acquire(c) ==
  /\ call[c].pc = "wait"
  /\ semaphores[call[c].sem] > 0
  /\ semaphores' = [semaphores EXCEPT ![call[c].sem] = @ - 1]
  /\ Goto(c, "calling")
  /\ UNCHANGED <<config, cache, rate, breaker, sem_limit>>

Release(c) == semaphores' = [semaphores EXCEPT ![call[c].sem] = @ + 1]

\* Variant with a bug: the permit is given back only after a success.
ReturnKeeping(c) ==
  /\ call[c].pc = "calling"
  /\ \/ call' = [call EXCEPT ![c] = [pc |-> "report", success |-> TRUE]] /\ Release(c)
     \/ call' = [call EXCEPT ![c] = [pc |-> "report", success |-> FALSE]] /\ UNCHANGED semaphores
     \/ End(c) /\ Release(c)
  /\ UNCHANGED <<config, cache, rate, breaker, sem_limit>>

\* The server answers (a denial of permission counts as a success), the call
\* fails or times out, or the answer violates its schema and is not counted.
Return(c) ==
  /\ call[c].pc = "calling"
  /\ Release(c)
  /\ \/ \E success \in BOOLEAN :
          call' = [call EXCEPT ![c] = [pc |-> "report", success |-> success]]
     \/ End(c)
  /\ UNCHANGED <<config, cache, rate, breaker, sem_limit>>

\* CircuitBreaker.success and RedisCircuitBreaker.success
Success == [failures |-> 0, opened |-> "no"]

\* CircuitBreaker.failure and _FAILURE_SCRIPT
Failure ==
  [failures |-> breaker.failures + 1,
   opened |-> IF breaker.failures + 1 >= threshold THEN "until_later" ELSE breaker.opened]

\* What Redis does not take is caught: a success then counts as a failure, and
\* a failure is not counted.
Report(c) ==
  /\ call[c].pc = "report"
  /\ \/ breaker' = IF call[c].success THEN Success ELSE Failure
     \/ kind = "redis" /\ breaker' \in {Failure, breaker}
  /\ End(c)
  /\ UNCHANGED <<config, cache, rate, semaphores, sem_limit>>

\* The run is cancelled or its deadline passes: the task leaves what it awaits.
Cancel(c) ==
  /\ call[c].pc \notin {"idle", "done"}
  /\ IF call[c].pc = "calling" THEN Release(c) ELSE UNCHANGED semaphores
  /\ End(c)
  /\ UNCHANGED <<config, cache, rate, breaker, sem_limit>>

-----------------------------------------------------------------------------
(* Time and administration *)

\* The recovery time is over.  In Redis the key and the count expire together.
RecoveryPasses ==
  /\ breaker.opened = "until_later"
  /\ breaker' = IF kind = "memory" THEN [breaker EXCEPT !.opened = "until_past"]
                                   ELSE [failures |-> 0, opened |-> "no"]
  /\ UNCHANGED <<config, cache, rate, semaphores, sem_limit, call>>

\* The count in Redis expires when no failure has renewed it.
CountExpires ==
  /\ kind = "redis" /\ breaker.opened = "no" /\ breaker.failures > 0
  /\ breaker' = [breaker EXCEPT !.failures = 0]
  /\ UNCHANGED <<config, cache, rate, semaphores, sem_limit, call>>

WindowMoves ==
  /\ rate > 0
  /\ rate' = rate - 1
  /\ UNCHANGED <<config, cache, breaker, semaphores, sem_limit, call>>

EntryExpires ==
  /\ \E e \in cache : cache' = cache \ {e}
  /\ UNCHANGED <<config, rate, breaker, semaphores, sem_limit, call>>

\* McpServerRegistry.update; the API then runs invalidate_server.
UpdateServer ==
  /\ server.version < MaxVersion
  /\ \E s \in Server : s.version = server.version + 1 /\ server' = s
  /\ stale' = TRUE
  /\ UNCHANGED <<kind, connection, cache, rate, breaker, semaphores, sem_limit, call>>

InvalidateServer ==
  /\ stale
  /\ stale' = FALSE
  /\ cache' = {}
  /\ UNCHANGED <<kind, server, connection, rate, breaker, semaphores, sem_limit, call>>

\* A new credential reference with an allowlist of its own.
RotateConnection ==
  /\ connection.reference < MaxRotations
  /\ \E x \in Connection : x.reference = connection.reference + 1 /\ connection' = x
  /\ UNCHANGED <<kind, server, stale, cache, rate, breaker, semaphores, sem_limit, call>>

Step(c) ==
  ReadConnection(c) \/ Lookup(c) \/ Discover(c) \/ CheckRate(c) \/ Before(c)
  \/ Acquire(c) \/ Return(c) \/ Report(c)

Next ==
  \/ \E c \in Calls, tool \in Tools : Call(c, tool)
  \/ \E c \in Calls : Step(c)
  \/ \E c \in Calls : BackendFails(c)
  \/ \E c \in Calls : Cancel(c)
  \/ RecoveryPasses
  \/ CountExpires
  \/ WindowMoves
  \/ EntryExpires
  \/ UpdateServer
  \/ InvalidateServer
  \/ RotateConnection

Spec == Init /\ [][Next]_vars

\* The event loop runs every task; a request to the server is under a timeout.
FairSpec == Spec /\ \A c \in Calls : WF_vars(Step(c))

-----------------------------------------------------------------------------
(* Properties *)

\* A tool is called only if the server and the connection that the call has read
\* allow it, whatever catalog was cached under earlier configurations.
CallIsAllowed ==
  \A c \in Calls : call[c].pc \in {"limit", "before", "wait", "calling"} =>
    call[c].tool \in call[c].server.allowed \cap call[c].connection.allowed

\* The calls at the server.
Calling == {c \in Calls : call[c].pc = "calling"}

\* Through waits, timeouts, failures and cancellations, and while an update of
\* max_concurrency replaces the semaphore under calls that hold or await the old
\* one: calls through one semaphore are never more than the limit that each of
\* them has read, and until the first update all calls share one.
ConcurrencyRespected ==
  /\ \A c \in Calling :
       Cardinality({d \in Calling : call[d].sem = call[c].sem}) <= call[c].server.limit
  /\ server.version = 1 => Cardinality(Calling) <= server.limit

\* Every call ends: none waits for a permit that nobody gives back.
EveryCallEnds == \A c \in Calls : call[c].pc # "idle" ~> call[c].pc = "done"
=============================================================================
