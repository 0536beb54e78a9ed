-------------------------- MODULE McpGatewayProofs --------------------------
(***************************************************************************)
(* Machine-checked proofs about McpGateway, for every set of calls and     *)
(* tools, every set of limits and every bound on updates and rotations.    *)
(***************************************************************************)
EXTENDS McpGateway, FiniteSetTheorems, TLAPS

\* The calls that have read the server, and those that have read the connection.
HasServer == {"connect", "lookup", "discover", "limit", "before", "wait", "calling"}
HasConnection == HasServer \ {"connect"}
ReadServer(c) == call[c].pc \in HasServer

\* A version names one configuration: what calls have read of it agrees with the
\* registered server and with what other calls have read.
VersionsAgree ==
  \A c \in Calls : ReadServer(c) =>
    /\ call[c].server.version <= server.version
    /\ call[c].server.version = server.version => call[c].server = server
    /\ \A d \in Calls : ReadServer(d) /\ call[c].server.version = call[d].server.version
                          => call[c].server = call[d].server

\* A cached catalog lists only what its key's connection and its version's server
\* allow, for every call that may still look it up.
CatalogsAgree ==
  \A e \in cache :
    /\ e.key[1] <= server.version
    /\ e.tools \subseteq e.key[3]
    /\ e.key[1] = server.version => e.tools \subseteq server.allowed
    /\ \A c \in Calls : ReadServer(c) /\ call[c].server.version = e.key[1]
                          => e.tools \subseteq call[c].server.allowed

GatewayInv == TypeOK /\ VersionsAgree /\ CatalogsAgree /\ CallIsAllowed

-----------------------------------------------------------------------------
(* Records of calls *)

\* What a record holds at each point of a call.
LEMMA CallFields ==
  ASSUME TypeOK, NEW c \in Calls
  PROVE  /\ ReadServer(c) => call[c].tool \in Tools /\ call[c].server \in Server
         /\ call[c].pc \in HasConnection => call[c].connection \in Connection
         /\ call[c].pc \in {"wait", "calling"} => call[c].sem \in Nat
         /\ call[c].pc = "report" => call[c].success \in BOOLEAN
BY DEF TypeOK, CallRecord, NoCall, ReadServer, HasServer, HasConnection

\* The end of a call takes its record away and changes no other call.
LEMMA EndKeeps ==
  ASSUME GatewayInv, NEW c \in Calls, End(c), UNCHANGED <<server, cache>>
  PROVE  /\ call' \in [Calls -> CallRecord]
         /\ VersionsAgree' /\ CatalogsAgree' /\ CallIsAllowed'
<1>1. [pc |-> "done"] \in CallRecord
  BY DEF CallRecord
<1>2. call' \in [Calls -> CallRecord]
  BY <1>1 DEF End, GatewayInv, TypeOK
<1>3. /\ call'[c].pc = "done"
      /\ \A d \in Calls \ {c} : call'[d] = call[d]
  BY DEF End, GatewayInv, TypeOK
<1>4. VersionsAgree'
  BY <1>3 DEF GatewayInv, VersionsAgree, ReadServer, HasServer
<1>5. CatalogsAgree'
  BY <1>3 DEF GatewayInv, CatalogsAgree, ReadServer, HasServer
<1>6. CallIsAllowed'
  BY <1>3 DEF GatewayInv, CallIsAllowed
<1> QED BY <1>2, <1>4, <1>5, <1>6

\* A call that moves on with what it has read, its tool allowed where it must
\* be, keeps what calls and catalogs agree on.
LEMMA MoveKeeps ==
  ASSUME GatewayInv, NEW c \in Calls, NEW record \in CallRecord,
         ReadServer(c), record.pc \in HasServer,
         record.server = call[c].server,
         record.pc \in {"limit", "before", "wait", "calling"} =>
           record.tool \in record.server.allowed \cap record.connection.allowed,
         call' = [call EXCEPT ![c] = record], UNCHANGED <<server, cache>>
  PROVE  /\ call' \in [Calls -> CallRecord]
         /\ VersionsAgree' /\ CatalogsAgree' /\ CallIsAllowed'
<1>1. call' \in [Calls -> CallRecord]
  BY DEF GatewayInv, TypeOK
<1>2. /\ call'[c] = record
      /\ \A d \in Calls \ {c} : call'[d] = call[d]
  BY DEF GatewayInv, TypeOK
<1>3. \A d \in Calls : ReadServer(d)' => ReadServer(d) /\ call'[d].server = call[d].server
  BY <1>2 DEF ReadServer
<1>4. VersionsAgree'
  BY <1>3 DEF GatewayInv, VersionsAgree
<1>5. CatalogsAgree'
  BY <1>3 DEF GatewayInv, CatalogsAgree
<1>6. CallIsAllowed'
  BY <1>2 DEF GatewayInv, CallIsAllowed
<1> QED BY <1>1, <1>4, <1>5, <1>6

\* Goto leaves a well-formed record between the points that hold the same fields.
LEMMA GotoRecord ==
  ASSUME TypeOK, NEW c \in Calls, NEW pc,
         \/ /\ call[c].pc \in {"lookup", "discover", "limit", "before"}
            /\ pc \in {"lookup", "discover", "limit", "before"}
         \/ call[c].pc \in {"wait", "calling"} /\ pc \in {"wait", "calling"}
  PROVE  /\ [call[c] EXCEPT !.pc = pc] \in CallRecord
         /\ [call[c] EXCEPT !.pc = pc].pc = pc
         /\ [call[c] EXCEPT !.pc = pc].tool = call[c].tool
         /\ [call[c] EXCEPT !.pc = pc].server = call[c].server
         /\ [call[c] EXCEPT !.pc = pc].connection = call[c].connection
<1>1. CASE /\ call[c].pc \in {"lookup", "discover", "limit", "before"}
           /\ pc \in {"lookup", "discover", "limit", "before"}
  <2>1. call[c] \in [pc : {"lookup", "discover", "limit", "before"}, tool : Tools,
                     server : Server, connection : Connection]
    BY <1>1 DEF TypeOK, CallRecord, NoCall
  <2>2. [call[c] EXCEPT !.pc = pc] \in
          [pc : {"lookup", "discover", "limit", "before"}, tool : Tools,
           server : Server, connection : Connection]
    BY <1>1, <2>1
  <2> QED BY <2>1, <2>2 DEF CallRecord
<1>2. CASE call[c].pc \in {"wait", "calling"} /\ pc \in {"wait", "calling"}
  <2>1. call[c] \in [pc : {"wait", "calling"}, tool : Tools, server : Server,
                     connection : Connection, sem : Nat]
    BY <1>2 DEF TypeOK, CallRecord, NoCall
  <2>2. [call[c] EXCEPT !.pc = pc] \in
          [pc : {"wait", "calling"}, tool : Tools, server : Server,
           connection : Connection, sem : Nat]
    BY <1>2, <2>1
  <2> QED BY <2>1, <2>2 DEF CallRecord
<1> QED BY <1>1, <1>2

\* A call that reports holds nothing that the invariants speak of.
LEMMA ReportKeeps ==
  ASSUME GatewayInv, NEW c \in Calls, NEW success \in BOOLEAN,
         call' = [call EXCEPT ![c] = [pc |-> "report", success |-> success]],
         UNCHANGED <<server, cache>>
  PROVE  /\ call' \in [Calls -> CallRecord]
         /\ VersionsAgree' /\ CatalogsAgree' /\ CallIsAllowed'
<1>1. [pc |-> "report", success |-> success] \in CallRecord
  BY DEF CallRecord
<1>2. call' \in [Calls -> CallRecord]
  BY <1>1 DEF GatewayInv, TypeOK
<1>3. /\ call'[c].pc = "report"
      /\ \A d \in Calls \ {c} : call'[d] = call[d]
  BY DEF GatewayInv, TypeOK
<1>4. VersionsAgree'
  BY <1>3 DEF GatewayInv, VersionsAgree, ReadServer, HasServer
<1>5. CatalogsAgree'
  BY <1>3 DEF GatewayInv, CatalogsAgree, ReadServer, HasServer
<1>6. CallIsAllowed'
  BY <1>3 DEF GatewayInv, CallIsAllowed
<1> QED BY <1>2, <1>4, <1>5, <1>6

-----------------------------------------------------------------------------
(* Steps *)

\* Reading the server and the connection: Call and ReadConnection.
LEMMA ReadStep ==
  ASSUME GatewayInv, NEW c \in Calls
  PROVE  /\ \A tool \in Tools : Call(c, tool) => GatewayInv'
         /\ ReadConnection(c) => GatewayInv'
<1> USE DEF GatewayInv
<1>1. ASSUME NEW tool \in Tools, Call(c, tool) PROVE GatewayInv'
  <2>1. CASE End(c)
    BY <1>1, <2>1, EndKeeps DEF Call, config, TypeOK
  <2>2. CASE call' = [call EXCEPT ![c] = [pc |-> "connect", tool |-> tool, server |-> server]]
    <3>1. [pc |-> "connect", tool |-> tool, server |-> server] \in CallRecord
      BY DEF CallRecord, TypeOK
    <3>2. call' \in [Calls -> CallRecord]
      BY <2>2, <3>1 DEF TypeOK
    <3>3. /\ call'[c] = [pc |-> "connect", tool |-> tool, server |-> server]
          /\ \A d \in Calls \ {c} : call'[d] = call[d]
      BY <2>2 DEF TypeOK
    <3>4. server' = server /\ cache' = cache /\ server.version \in Nat
      BY <1>1, McpGatewayAssumption DEF Call, config, TypeOK, Server
    <3>5. VersionsAgree'
      BY <3>3, <3>4 DEF VersionsAgree, ReadServer
    <3>6. CatalogsAgree'
      BY <3>3, <3>4 DEF CatalogsAgree, ReadServer
    <3>7. CallIsAllowed'
      BY <3>3 DEF CallIsAllowed
    <3> QED BY <1>1, <3>2, <3>5, <3>6, <3>7 DEF Call, config, TypeOK
  <2> QED BY <1>1, <2>1, <2>2 DEF Call
<1>2. ASSUME ReadConnection(c) PROVE GatewayInv'
  <2> DEFINE record == [pc |-> "lookup", tool |-> call[c].tool, server |-> call[c].server,
                        connection |-> connection]
  <2>1. call[c].pc = "connect" /\ ReadServer(c)
    BY <1>2 DEF ReadConnection, ReadServer, HasServer
  <2>2. record \in CallRecord
    BY <2>1, CallFields DEF CallRecord, TypeOK
  <2>3. call' = [call EXCEPT ![c] = record]
    BY <1>2 DEF ReadConnection
  <2>4. record.pc = "lookup" /\ record.server = call[c].server
    OBVIOUS
  <2>5. record.pc \in HasServer
    BY <2>4 DEF HasServer
  <2> HIDE DEF record
  <2> QED BY <1>2, <2>1, <2>2, <2>3, <2>4, <2>5, MoveKeeps DEF ReadConnection, config, TypeOK
<1> QED BY <1>1, <1>2

\* A tool that the catalog of the call lists lets the call go on; the caller shows
\* that this catalog is allowed.
LEMMA ResolvedKeeps ==
  ASSUME GatewayInv, NEW c \in Calls, call[c].pc \in {"lookup", "discover"},
         NEW tools, tools \subseteq call[c].server.allowed \cap call[c].connection.allowed,
         Resolved(c, tools), UNCHANGED <<server, cache>>
  PROVE  /\ call' \in [Calls -> CallRecord]
         /\ VersionsAgree' /\ CatalogsAgree' /\ CallIsAllowed'
<1>1. CASE call[c].tool \notin tools
  BY <1>1, EndKeeps DEF Resolved
<1>2. CASE call[c].tool \in tools
  <2> DEFINE record == [call[c] EXCEPT !.pc = "limit"]
  <2>1. /\ record \in CallRecord
        /\ record.pc = "limit"
        /\ record.tool = call[c].tool
        /\ record.server = call[c].server
        /\ record.connection = call[c].connection
    BY GotoRecord DEF GatewayInv
  <2>2. call' = [call EXCEPT ![c] = record]
    BY <1>2 DEF Resolved, Goto
  <2>3. ReadServer(c) /\ record.pc \in HasServer
    BY <2>1 DEF ReadServer, HasServer
  <2> HIDE DEF record
  <2> QED BY <1>2, <2>1, <2>2, <2>3, MoveKeeps
<1> QED BY <1>1, <1>2

\* A hit was computed for the version and the allowlist that the call has read.
LEMMA LookupStep ==
  ASSUME GatewayInv, NEW c \in Calls, Lookup(c)
  PROVE  GatewayInv'
<1> DEFINE hit == {e \in cache : e.key = CacheKey(call[c].server, call[c].connection)}
<1>1. call[c].pc = "lookup" /\ ReadServer(c)
  BY DEF Lookup, ReadServer, HasServer
<1>2. CASE hit = {}
  <2>1. call' = [call EXCEPT ![c] = [call[c] EXCEPT !.pc = "discover"]]
    BY <1>2 DEF Lookup, Goto
  <2>2. /\ [call[c] EXCEPT !.pc = "discover"] \in CallRecord
        /\ [call[c] EXCEPT !.pc = "discover"].pc = "discover"
        /\ [call[c] EXCEPT !.pc = "discover"].server = call[c].server
    BY <1>1, GotoRecord DEF GatewayInv
  <2>3. "discover" \in HasServer
    BY DEF HasServer
  <2> QED BY <1>1, <2>1, <2>2, <2>3, MoveKeeps DEF Lookup, GatewayInv, TypeOK, config
<1>3. CASE hit # {}
  <2> DEFINE e == CHOOSE x \in hit : TRUE
  <2>1. e \in hit
    BY <1>3
  <2>2. e \in cache /\ e.key = CacheKey(call[c].server, call[c].connection)
    BY <2>1
  <2>3. Resolved(c, e.tools)
    BY <1>3 DEF Lookup
  <2> HIDE DEF e, hit
  <2>4. e.key[1] = call[c].server.version /\ e.key[3] = call[c].connection.allowed
    BY <2>2 DEF CacheKey
  <2>5. e.tools \subseteq call[c].server.allowed \cap call[c].connection.allowed
    BY <1>1, <2>2, <2>4 DEF GatewayInv, CatalogsAgree
  <2> QED BY <1>1, <2>3, <2>5, ResolvedKeeps DEF Lookup, GatewayInv, TypeOK, config
<1> QED BY <1>2, <1>3

\* A late discovery stores a catalog under the version that its call has read.
LEMMA DiscoverStep ==
  ASSUME GatewayInv, NEW c \in Calls, Discover(c)
  PROVE  GatewayInv'
<1> DEFINE key == CacheKey(call[c].server, call[c].connection)
           tools == Filter(call[c].server, call[c].connection)
           entry == [key |-> key, tools |-> tools]
<1>1. /\ call[c].pc = "discover" /\ ReadServer(c)
      /\ call[c].server \in Server /\ call[c].connection \in Connection
  <2>1. call[c].pc = "discover"
    BY DEF Discover
  <2>2. call[c].pc \in HasConnection /\ ReadServer(c)
    BY <2>1 DEF ReadServer, HasServer, HasConnection
  <2> QED BY <2>1, <2>2, CallFields DEF GatewayInv
<1>2. CASE End(c) /\ UNCHANGED cache
  BY <1>2, EndKeeps DEF Discover, GatewayInv, TypeOK, config
<1>3. CASE /\ cache' = {e \in cache : e.key # key} \cup {entry}
           /\ Resolved(c, tools)
  <2>1. server' = server
    BY DEF Discover, config
  <2>2. /\ entry \in CatalogEntry
        /\ entry.key[1] = call[c].server.version
        /\ entry.key[3] = call[c].connection.allowed
        /\ entry.tools = call[c].server.allowed \cap call[c].connection.allowed
        /\ entry.key = key
    BY <1>1 DEF CatalogEntry, CacheKey, Filter, Server, Connection
  <2>3. /\ cache' \subseteq CatalogEntry
        /\ \A e, f \in cache' : e.key = f.key => e = f
    BY <1>3, <2>2 DEF GatewayInv, TypeOK
  <2>4. \A e \in cache' : e \in cache \/ e = entry
    BY <1>3
  <2>5. /\ call' \in [Calls -> CallRecord]
        /\ \A d \in Calls : ReadServer(d)' => ReadServer(d) /\ call'[d].server = call[d].server
        /\ CallIsAllowed'
    <3>1. CASE call[c].tool \notin tools
      <4>1. call' = [call EXCEPT ![c] = [pc |-> "done"]]
        BY <1>3, <3>1 DEF Resolved, End
      <4>2. [pc |-> "done"] \in CallRecord
        BY DEF CallRecord
      <4>3. call' \in [Calls -> CallRecord]
        BY <4>1, <4>2 DEF GatewayInv, TypeOK
      <4>4. call'[c].pc = "done" /\ \A d \in Calls \ {c} : call'[d] = call[d]
        BY <4>1 DEF GatewayInv, TypeOK
      <4> QED BY <4>3, <4>4 DEF GatewayInv, CallIsAllowed, ReadServer, HasServer
    <3>2. CASE call[c].tool \in tools
      <4> DEFINE record == [call[c] EXCEPT !.pc = "limit"]
      <4>1. call' = [call EXCEPT ![c] = record]
        BY <1>3, <3>2 DEF Resolved, Goto
      <4>2. /\ record \in CallRecord
            /\ record.tool = call[c].tool
            /\ record.server = call[c].server
            /\ record.connection = call[c].connection
        BY <1>1, GotoRecord DEF GatewayInv
      <4> HIDE DEF record
      <4>3. call' \in [Calls -> CallRecord]
        BY <4>1, <4>2 DEF GatewayInv, TypeOK
      <4>4. call'[c] = record /\ \A d \in Calls \ {c} : call'[d] = call[d]
        BY <4>1 DEF GatewayInv, TypeOK
      <4>5. \A d \in Calls : ReadServer(d)' => ReadServer(d) /\ call'[d].server = call[d].server
        BY <1>1, <4>2, <4>4 DEF ReadServer
      <4>6. CallIsAllowed'
        BY <3>2, <4>2, <4>4 DEF GatewayInv, CallIsAllowed, Filter
      <4> QED BY <4>3, <4>5, <4>6
    <3> QED BY <3>1, <3>2
  <2>6. VersionsAgree'
    BY <2>1, <2>5 DEF GatewayInv, VersionsAgree
  <2>7. CatalogsAgree'
    <3> SUFFICES ASSUME NEW e \in cache'
                 PROVE  /\ e.key[1] <= server.version
                        /\ e.tools \subseteq e.key[3]
                        /\ e.key[1] = server.version => e.tools \subseteq server.allowed
                        /\ \A d \in Calls : ReadServer(d) /\ call[d].server.version = e.key[1]
                                              => e.tools \subseteq call[d].server.allowed
      BY <2>1, <2>5 DEF CatalogsAgree
    <3>1. CASE e \in cache
      BY <3>1 DEF GatewayInv, CatalogsAgree
    <3>2. CASE e = entry
      <4> HIDE DEF entry
      <4> QED BY <1>1, <2>2, <3>2 DEF GatewayInv, VersionsAgree
    <3> QED BY <2>4, <3>1, <3>2
  <2> QED BY <2>1, <2>3, <2>5, <2>6, <2>7 DEF Discover, config, GatewayInv, TypeOK
<1> QED BY <1>2, <1>3 DEF Discover

\* A call whose tool is allowed keeps what it has read up to the server.
LEMMA AllowedMove ==
  ASSUME GatewayInv, NEW c \in Calls, NEW record \in CallRecord,
         call[c].pc \in {"limit", "before", "wait", "calling"},
         record.pc \in {"before", "wait", "calling"},
         record.tool = call[c].tool, record.server = call[c].server,
         record.connection = call[c].connection,
         call' = [call EXCEPT ![c] = record], UNCHANGED <<server, cache>>
  PROVE  /\ call' \in [Calls -> CallRecord]
         /\ VersionsAgree' /\ CatalogsAgree' /\ CallIsAllowed'
<1>1. call[c].tool \in call[c].server.allowed \cap call[c].connection.allowed
  BY DEF GatewayInv, CallIsAllowed
<1>2. ReadServer(c) /\ record.pc \in HasServer
  BY DEF ReadServer, HasServer
<1> QED BY <1>1, <1>2, MoveKeeps

\* Taking or returning a permit leaves a sequence of natural numbers.
LEMMA PermitType ==
  ASSUME NEW s \in Seq(Nat), NEW i \in Nat, NEW n, i \in DOMAIN s => n \in Nat
  PROVE  [s EXCEPT ![i] = n] \in Seq(Nat)
<1>1. CASE i \in DOMAIN s
  BY <1>1
<1>2. CASE i \notin DOMAIN s
  <2>1. [s EXCEPT ![i] = n] = s
    BY <1>2
  <2> QED BY <2>1
<1> QED BY <1>1, <1>2

\* The limiter, the breaker and the semaphore.
LEMMA PolicyStep ==
  ASSUME GatewayInv, NEW c \in Calls
  PROVE  /\ CheckRate(c) => GatewayInv'
         /\ Before(c) => GatewayInv'
         /\ Acquire(c) => GatewayInv'
<1> USE DEF GatewayInv
<1>1. ASSUME CheckRate(c) PROVE GatewayInv'
  <2>1. CASE End(c) /\ UNCHANGED rate
    BY <1>1, <2>1, EndKeeps DEF CheckRate, config, TypeOK
  <2>2. CASE ~RateExceeded /\ rate' = rate + 1 /\ Goto(c, "before")
    <3> DEFINE record == [call[c] EXCEPT !.pc = "before"]
    <3>1. call' = [call EXCEPT ![c] = record]
      BY <2>2 DEF Goto
    <3>2. /\ record \in CallRecord
          /\ record.pc = "before" /\ record.tool = call[c].tool
          /\ record.server = call[c].server /\ record.connection = call[c].connection
      BY <1>1, GotoRecord DEF CheckRate
    <3>3. rate' \in 0..rate_limit
      BY <2>2, McpGatewayAssumption DEF RateExceeded, TypeOK
    <3> HIDE DEF record
    <3> QED BY <1>1, <3>1, <3>2, <3>3, AllowedMove DEF CheckRate, config, TypeOK
  <2> QED BY <1>1, <2>1, <2>2 DEF CheckRate
<1>2. ASSUME Before(c) PROVE GatewayInv'
  <2>1. CASE breaker.opened = "until_later"
    BY <1>2, <2>1, EndKeeps DEF Before, config, TypeOK
  <2>2. CASE breaker.opened # "until_later"
    <3> DEFINE record == [pc |-> "wait", tool |-> call[c].tool, server |-> call[c].server,
                          connection |-> call[c].connection, sem |-> Len(semaphores')]
    <3>1. /\ call[c].pc = "before" /\ call[c].tool \in Tools
          /\ call[c].server \in Server /\ call[c].connection \in Connection
      BY <1>2, CallFields DEF Before, ReadServer, HasServer, HasConnection
    <3>2. call[c].server.limit \in Limits /\ call[c].server.limit \in Nat
      BY <3>1, McpGatewayAssumption DEF Server
    <3>3. semaphores' \in Seq(Nat) /\ sem_limit' \in Limits \cup {0}
      <4>1. semaphores' = semaphores \/ semaphores' = Append(semaphores, call[c].server.limit)
        BY <1>2, <2>2 DEF Before
      <4>2. semaphores \in Seq(Nat)
        BY DEF TypeOK
      <4>3. semaphores' \in Seq(Nat)
        <5> DEFINE limit == call[c].server.limit
        <5>1. limit \in Nat /\ (semaphores' = semaphores \/ semaphores' = Append(semaphores, limit))
          BY <3>2, <4>1
        <5> HIDE DEF limit
        <5> QED BY <4>2, <5>1
      <4>4. sem_limit' \in Limits
        BY <1>2, <2>2, <3>2 DEF Before
      <4> QED BY <4>3, <4>4
    <3>4. breaker' \in [failures : Nat, opened : {"no", "until_later", "until_past"}]
      BY <1>2, <2>2 DEF Before, TypeOK
    <3>5. record \in CallRecord
      BY <3>1, <3>3 DEF CallRecord
    <3>6. call' = [call EXCEPT ![c] = record]
      BY <1>2, <2>2 DEF Before
    <3>7. /\ record.pc = "wait" /\ record.tool = call[c].tool
          /\ record.server = call[c].server /\ record.connection = call[c].connection
      OBVIOUS
    <3> HIDE DEF record
    <3> QED BY <1>2, <3>1, <3>3, <3>4, <3>5, <3>6, <3>7, AllowedMove
            DEF Before, config, TypeOK
  <2> QED BY <2>1, <2>2
<1>3. ASSUME Acquire(c) PROVE GatewayInv'
  <2> DEFINE record == [call[c] EXCEPT !.pc = "calling"]
  <2>1. call[c].pc = "wait" /\ call' = [call EXCEPT ![c] = record]
    BY <1>3 DEF Acquire, Goto
  <2>2. /\ record \in CallRecord
        /\ record.pc = "calling" /\ record.tool = call[c].tool
        /\ record.server = call[c].server /\ record.connection = call[c].connection
    BY <2>1, GotoRecord
  <2>3. call[c].sem \in Nat
    BY <2>1, CallFields
  <2>4. call[c].sem \in DOMAIN semaphores => semaphores[call[c].sem] - 1 \in Nat
    BY <1>3 DEF Acquire, TypeOK
  <2>5. semaphores' \in Seq(Nat)
    BY <1>3, <2>3, <2>4, PermitType DEF Acquire, TypeOK
  <2> HIDE DEF record
  <2> QED BY <1>3, <2>1, <2>2, <2>5, AllowedMove DEF Acquire, config, TypeOK
<1> QED BY <1>1, <1>2, <1>3

\* A permit comes back.
LEMMA ReleaseType ==
  ASSUME TypeOK, NEW c \in Calls, call[c].pc = "calling", Release(c)
  PROVE  semaphores' \in Seq(Nat)
<1>1. call[c].sem \in Nat
  BY CallFields
<1>2. call[c].sem \in DOMAIN semaphores => semaphores[call[c].sem] + 1 \in Nat
  BY DEF TypeOK
<1> QED BY <1>1, <1>2, PermitType DEF Release, TypeOK

\* The ways a call leaves: answer, failure, cancellation, report.
LEMMA LeaveStep ==
  ASSUME GatewayInv, NEW c \in Calls
  PROVE  /\ BackendFails(c) => GatewayInv'
         /\ Return(c) => GatewayInv'
         /\ Report(c) => GatewayInv'
         /\ Cancel(c) => GatewayInv'
<1> USE DEF GatewayInv
<1>1. ASSUME BackendFails(c) PROVE GatewayInv'
  BY <1>1, ReportKeeps DEF BackendFails, config, TypeOK
<1>2. ASSUME Return(c) PROVE GatewayInv'
  <2>1. semaphores' \in Seq(Nat)
    BY <1>2, ReleaseType DEF Return
  <2>2. CASE End(c)
    BY <1>2, <2>1, <2>2, EndKeeps DEF Return, config, TypeOK
  <2>3. CASE \E success \in BOOLEAN :
               call' = [call EXCEPT ![c] = [pc |-> "report", success |-> success]]
    BY <1>2, <2>1, <2>3, ReportKeeps DEF Return, config, TypeOK
  <2> QED BY <1>2, <2>2, <2>3 DEF Return
<1>3. ASSUME Report(c) PROVE GatewayInv'
  <2>1. breaker' \in [failures : Nat, opened : {"no", "until_later", "until_past"}]
    BY <1>3 DEF Report, Success, Failure, TypeOK
  <2> QED BY <1>3, <2>1, EndKeeps DEF Report, config, TypeOK
<1>4. ASSUME Cancel(c) PROVE GatewayInv'
  <2>1. semaphores' \in Seq(Nat)
    BY <1>4, ReleaseType DEF Cancel, TypeOK
  <2> QED BY <1>4, <2>1, EndKeeps DEF Cancel, config, TypeOK
<1> QED BY <1>1, <1>2, <1>3, <1>4

\* Time and administrators: only UpdateServer gives a version a meaning, and a
\* new one that no call and no catalog has seen.
LEMMA OutsideStep ==
  ASSUME GatewayInv
  PROVE  /\ RecoveryPasses => GatewayInv'
         /\ CountExpires => GatewayInv'
         /\ WindowMoves => GatewayInv'
         /\ EntryExpires => GatewayInv'
         /\ UpdateServer => GatewayInv'
         /\ InvalidateServer => GatewayInv'
         /\ RotateConnection => GatewayInv'
         /\ UNCHANGED vars => GatewayInv'
<1> USE DEF GatewayInv
<1>1. ASSUME UNCHANGED <<server, cache, call>>
      PROVE  VersionsAgree' /\ CatalogsAgree' /\ CallIsAllowed'
  BY <1>1 DEF VersionsAgree, CatalogsAgree, CallIsAllowed, ReadServer
<1>2. ASSUME RecoveryPasses PROVE GatewayInv'
  <2>1. breaker' \in [failures : Nat, opened : {"no", "until_later", "until_past"}]
    BY <1>2 DEF RecoveryPasses, TypeOK
  <2> QED BY <1>1, <1>2, <2>1 DEF RecoveryPasses, config, TypeOK
<1>3. ASSUME CountExpires PROVE GatewayInv'
  <2>1. breaker' \in [failures : Nat, opened : {"no", "until_later", "until_past"}]
    BY <1>3 DEF CountExpires, TypeOK
  <2> QED BY <1>1, <1>3, <2>1 DEF CountExpires, config, TypeOK
<1>4. ASSUME WindowMoves PROVE GatewayInv'
  <2>1. rate' \in 0..rate_limit
    BY <1>4, McpGatewayAssumption DEF WindowMoves, TypeOK
  <2> QED BY <1>1, <1>4, <2>1 DEF WindowMoves, config, TypeOK
<1>5. ASSUME server' = server, cache' \subseteq cache, call' = call
      PROVE  VersionsAgree' /\ CatalogsAgree' /\ CallIsAllowed'
  BY <1>5 DEF VersionsAgree, CatalogsAgree, CallIsAllowed, ReadServer
<1>6. ASSUME EntryExpires PROVE GatewayInv'
  <2>1. cache' \subseteq cache
    BY <1>6 DEF EntryExpires
  <2> QED BY <1>5, <1>6, <2>1 DEF EntryExpires, config, TypeOK
<1>7. ASSUME UpdateServer PROVE GatewayInv'
  <2>1. /\ server' \in Server /\ server.version \in Nat
        /\ server'.version = server.version + 1
        /\ UNCHANGED <<cache, call>>
    BY <1>7, McpGatewayAssumption DEF UpdateServer, TypeOK, Server
  <2>2. \A c \in Calls : ReadServer(c) => call[c].server.version \in Nat
    BY CallFields, McpGatewayAssumption DEF Server
  <2>3. \A e \in cache : e.key[1] \in Nat
    BY McpGatewayAssumption DEF TypeOK, CatalogEntry
  <2>4. VersionsAgree'
    BY <2>1, <2>2 DEF VersionsAgree, ReadServer
  <2>5. CatalogsAgree'
    BY <2>1, <2>3 DEF CatalogsAgree, ReadServer
  <2>6. CallIsAllowed'
    BY <2>1 DEF CallIsAllowed
  <2> QED BY <1>7, <2>1, <2>4, <2>5, <2>6 DEF UpdateServer, TypeOK
<1>8. ASSUME InvalidateServer PROVE GatewayInv'
  <2>1. cache' \subseteq cache
    BY <1>8 DEF InvalidateServer
  <2> QED BY <1>5, <1>8, <2>1 DEF InvalidateServer, TypeOK
<1>9. ASSUME RotateConnection PROVE GatewayInv'
  BY <1>1, <1>9 DEF RotateConnection, TypeOK
<1>10. ASSUME UNCHANGED vars PROVE GatewayInv'
  BY <1>1, <1>10 DEF vars, TypeOK
<1> QED BY <1>2, <1>3, <1>4, <1>6, <1>7, <1>8, <1>9, <1>10

\* The inductive invariant holds in every reachable state.
LEMMA GatewayInvariance ==
  Spec => []GatewayInv
<1>1. Init => GatewayInv
  <2> SUFFICES ASSUME Init PROVE GatewayInv
    OBVIOUS
  <2>1. NoCall \in CallRecord /\ NoCall.pc = "idle"
    BY DEF NoCall, CallRecord
  <2>2. call \in [Calls -> CallRecord] /\ \A c \in Calls : call[c].pc = "idle"
    BY <2>1 DEF Init
  <2>3. /\ rate \in 0..rate_limit
        /\ breaker \in [failures : Nat, opened : {"no", "until_later", "until_past"}]
        /\ semaphores \in Seq(Nat)
    BY McpGatewayAssumption DEF Init
  <2>4. /\ server \in Server /\ connection \in Connection
        /\ kind \in {"memory", "redis"} /\ stale \in BOOLEAN
        /\ cache = {} /\ sem_limit = 0
    BY DEF Init
  <2>5. TypeOK
    BY <2>2, <2>3, <2>4 DEF TypeOK
  <2> QED BY <2>2, <2>5 DEF Init, GatewayInv, VersionsAgree, CatalogsAgree, CallIsAllowed,
                            ReadServer, HasServer
<1>2. GatewayInv /\ [Next]_vars => GatewayInv'
  BY ReadStep, LookupStep, DiscoverStep, PolicyStep, LeaveStep, OutsideStep DEF Next, Step
<1> QED BY <1>1, <1>2, PTL DEF Spec

\* Every state of the gateway is well typed; a catalog key of _cache_key never has
\* two entries, and the rate limit is never exceeded.
THEOREM GatewayTypeCorrect ==
  Spec => []TypeOK
BY GatewayInvariance, PTL DEF GatewayInv

\* Whatever is cached, invalidated, rotated or updated while calls are under way,
\* McpGateway.call reaches only tools that the server and the connection it has
\* read allow.
THEOREM OnlyAllowedCalls ==
  Spec => []CallIsAllowed
BY GatewayInvariance, PTL DEF GatewayInv

-----------------------------------------------------------------------------
(* Permits *)

\* The calls at the server under a permit of one semaphore.
Holders(i) == {c \in Calls : call[c].pc = "calling" /\ call[c].sem = i}

\* The free permits of a semaphore and those that calls hold.
MadeFor(i) == semaphores[i] + Cardinality(Holders(i))

AtSemaphore(c) == call[c].pc \in {"wait", "calling"}

\* Whatever a semaphore was made for is either free or held by a call at the
\* server; it is the limit that every call at the semaphore has read, and for the
\* last semaphore the limit remembered.  No call is at a semaphore that was not made.
PermitsKept ==
  /\ sem_limit # 0 => Len(semaphores) # 0
  /\ \A c \in Calls : AtSemaphore(c) => call[c].sem \in 1..Len(semaphores)
  /\ \A i \in 1..Len(semaphores) :
       /\ IsFiniteSet(Holders(i))
       /\ MadeFor(i) \in Limits
       /\ i = Len(semaphores) => MadeFor(i) = sem_limit
       /\ \A c \in Calls : AtSemaphore(c) /\ call[c].sem = i => MadeFor(i) = call[c].server.limit

\* A step after which each semaphore accounts for as much as before, and that
\* brings no call to a semaphore.
LEMMA PermitsCarry ==
  ASSUME PermitsKept, UNCHANGED sem_limit, Len(semaphores') = Len(semaphores),
         \A i \in 1..Len(semaphores) : IsFiniteSet(Holders(i)') /\ MadeFor(i)' = MadeFor(i),
         \A d \in Calls : AtSemaphore(d)' => /\ AtSemaphore(d)
                                             /\ call'[d].sem = call[d].sem
                                             /\ call'[d].server = call[d].server
  PROVE  PermitsKept'
<1>1. \A c \in Calls : AtSemaphore(c)' => call'[c].sem \in 1..Len(semaphores)
  BY DEF PermitsKept
<1>2. ASSUME NEW i \in 1..Len(semaphores)
      PROVE  /\ IsFiniteSet(Holders(i)')
             /\ MadeFor(i)' \in Limits
             /\ i = Len(semaphores) => MadeFor(i)' = sem_limit
             /\ \A c \in Calls : AtSemaphore(c)' /\ call'[c].sem = i
                                   => MadeFor(i)' = call'[c].server.limit
  BY DEF PermitsKept
<1> QED BY <1>1, <1>2 DEF PermitsKept

\* A step that leaves the semaphores and the calls at them alone.
LEMMA QuietKeeps ==
  ASSUME TypeOK, PermitsKept, UNCHANGED <<semaphores, sem_limit>>,
         \A d \in Calls : \/ call'[d] = call[d]
                          \/ /\ call[d].pc # "calling"
                             /\ call'[d].pc \notin {"wait", "calling"}
  PROVE  PermitsKept'
<1>1. ASSUME NEW i \in 1..Len(semaphores)
      PROVE  IsFiniteSet(Holders(i)') /\ MadeFor(i)' = MadeFor(i)
  <2>1. Holders(i)' = Holders(i)
    BY DEF Holders
  <2>2. IsFiniteSet(Holders(i))
    BY DEF PermitsKept
  <2> QED BY <2>1, <2>2 DEF MadeFor
<1>2. \A d \in Calls : AtSemaphore(d)' => AtSemaphore(d) /\ call'[d] = call[d]
  BY DEF AtSemaphore
<1> QED BY <1>1, <1>2, PermitsCarry

\* A step of a call that is not at a semaphore and does not come to one.
LEMMA MoveIsQuiet ==
  ASSUME TypeOK, PermitsKept, UNCHANGED <<semaphores, sem_limit>>, NEW c \in Calls, NEW record,
         call' = [call EXCEPT ![c] = record], call[c].pc # "calling",
         record.pc \notin {"wait", "calling"}
  PROVE  PermitsKept'
<1>1. \A d \in Calls : \/ call'[d] = call[d]
                       \/ /\ call[d].pc # "calling"
                          /\ call'[d].pc \notin {"wait", "calling"}
  BY DEF TypeOK
<1> QED BY <1>1, QuietKeeps

\* A call takes a semaphore, the last one or a new one for the limit it has read.
LEMMA BeforePermits ==
  ASSUME TypeOK, TypeOK', PermitsKept, NEW c \in Calls, Before(c)
  PROVE  PermitsKept'
<1>1. CASE breaker.opened = "until_later"
  <2>1. call' = [call EXCEPT ![c] = [pc |-> "done"]] /\ UNCHANGED <<semaphores, sem_limit>>
    BY <1>1 DEF Before, End
  <2>2. call[c].pc # "calling" /\ [pc |-> "done"].pc \notin {"wait", "calling"}
    BY DEF Before
  <2> QED BY <2>1, <2>2, MoveIsQuiet
<1>2. CASE breaker.opened # "until_later"
  <2>0. PICK limit : limit = call[c].server.limit
    OBVIOUS
  <2>1. PICK record :
          /\ call' = [call EXCEPT ![c] = record]
          /\ record.pc = "wait" /\ record.sem = Len(semaphores')
          /\ record.server.limit = limit
    <3> DEFINE r == [pc |-> "wait", tool |-> call[c].tool, server |-> call[c].server,
                     connection |-> call[c].connection, sem |-> Len(semaphores')]
    <3>1. call' = [call EXCEPT ![c] = r]
      BY <1>2 DEF Before
    <3>2. r.pc = "wait" /\ r.sem = Len(semaphores') /\ r.server.limit = limit
      BY <2>0
    <3> HIDE DEF r
    <3> QED BY <3>1, <3>2
  <2>2. /\ call[c].pc = "before" /\ call'[c] = record
        /\ \A d \in Calls \ {c} : call'[d] = call[d]
    BY <2>1 DEF TypeOK, Before
  <2>3. limit \in Limits /\ limit \in Nat /\ limit # 0
    BY <2>0, <2>2, CallFields, McpGatewayAssumption DEF ReadServer, HasServer, Server
  <2>4. semaphores \in Seq(Nat)
    BY DEF TypeOK
  <2>5. \A i \in Nat : Holders(i)' = Holders(i)
    BY <2>1, <2>2 DEF Holders
  <2>6. sem_limit' = limit
    BY <1>2, <2>0 DEF Before
  <2> DEFINE n == Len(semaphores)
             m == Len(semaphores')
  <2>7. /\ n \in Nat /\ m \in Nat /\ m # 0
        /\ \A i \in 1..n : semaphores'[i] = semaphores[i]
        /\ \/ m = n /\ sem_limit = limit
           \/ m = n + 1 /\ semaphores'[m] = limit
    <3>1. CASE SameLimit(c)
      <4>1. semaphores' = semaphores /\ sem_limit = limit
        BY <1>2, <2>0, <3>1 DEF Before, SameLimit
      <4>2. n # 0
        BY <2>3, <4>1 DEF PermitsKept
      <4> QED BY <2>4, <4>1, <4>2
    <3>2. CASE ~SameLimit(c)
      <4>1. semaphores' = Append(semaphores, limit)
        BY <1>2, <2>0, <3>2 DEF Before
      <4> QED BY <2>3, <2>4, <4>1
    <3> QED BY <3>1, <3>2
  <2>8. ASSUME NEW d \in Calls, d # c, AtSemaphore(d)'
        PROVE  AtSemaphore(d) /\ call'[d] = call[d] /\ call[d].sem \in 1..n
    BY <2>2, <2>8 DEF PermitsKept, AtSemaphore
  <2>9. \A d \in Calls : AtSemaphore(d)' => call'[d].sem \in 1..m
    <3> SUFFICES ASSUME NEW d \in Calls, AtSemaphore(d)' PROVE call'[d].sem \in 1..m
      OBVIOUS
    <3>1. CASE d = c
      BY <2>1, <2>2, <2>7, <3>1
    <3>2. CASE d # c
      <4>1. call'[d].sem \in 1..n
        BY <2>8, <3>2
      <4> HIDE DEF n, m
      <4> QED BY <2>7, <4>1
    <3> QED BY <3>1, <3>2
  <2>10. ASSUME NEW i \in 1..n PROVE IsFiniteSet(Holders(i)') /\ MadeFor(i)' = MadeFor(i)
    <3>1. Holders(i)' = Holders(i)
      BY <2>5, <2>7
    <3>2. IsFiniteSet(Holders(i)) /\ semaphores'[i] = semaphores[i]
      BY <2>7 DEF PermitsKept
    <3> QED BY <3>1, <3>2 DEF MadeFor
  <2>11. ASSUME NEW i, i = m, m = n + 1
         PROVE  IsFiniteSet(Holders(i)') /\ MadeFor(i)' = limit
    <3>2. i \in Nat /\ i \notin 1..n /\ semaphores'[i] = limit
      <4> HIDE DEF n, m
      <4> QED BY <2>7, <2>11
    <3>3. Holders(i)' = {}
      <4>1. Holders(i)' = Holders(i)
        BY <2>5, <3>2
      <4>2. ASSUME NEW d \in Holders(i) PROVE FALSE
        BY <3>2, <4>2 DEF Holders, PermitsKept, AtSemaphore
      <4> QED BY <4>1, <4>2
    <3>4. IsFiniteSet(Holders(i)') /\ Cardinality(Holders(i)') = 0
      BY <3>3, FS_EmptySet
    <3>5. MadeFor(i)' = limit
      BY <2>3, <3>2, <3>4 DEF MadeFor
    <3> QED BY <3>4, <3>5
  <2>12. ASSUME NEW i \in 1..m
         PROVE  /\ IsFiniteSet(Holders(i)')
                /\ MadeFor(i)' \in Limits
                /\ i = m => MadeFor(i)' = limit
                /\ \A d \in Calls : AtSemaphore(d)' /\ call'[d].sem = i
                                      => MadeFor(i)' = call'[d].server.limit
    <3>1. /\ IsFiniteSet(Holders(i)') /\ MadeFor(i)' \in Limits
          /\ i = m => MadeFor(i)' = limit
      <4>1. CASE i \in 1..n
        <5>1. MadeFor(i) \in Limits /\ (i = n => MadeFor(i) = sem_limit)
          BY <4>1 DEF PermitsKept
        <5>2. i = m => i = n /\ sem_limit = limit
          <6> HIDE DEF n, m
          <6> QED BY <2>7, <4>1
        <5>3. IsFiniteSet(Holders(i)') /\ MadeFor(i)' = MadeFor(i)
          BY <2>10, <4>1
        <5> HIDE DEF n, m
        <5> QED BY <5>1, <5>2, <5>3
      <4>2. CASE i \notin 1..n
        <5>1. i = m /\ m = n + 1
          <6> HIDE DEF n, m
          <6> QED BY <2>7, <4>2
        <5> QED BY <2>3, <2>11, <5>1
      <4> QED BY <4>1, <4>2
    <3>2. ASSUME NEW d \in Calls, AtSemaphore(d)', call'[d].sem = i
          PROVE  MadeFor(i)' = call'[d].server.limit
      <4>1. CASE d = c
        <5>1. i = m /\ call'[d].server.limit = limit
          BY <2>1, <2>2, <3>2, <4>1
        <5> HIDE DEF m
        <5> QED BY <3>1, <5>1
      <4>2. CASE d # c
        <5>1. AtSemaphore(d) /\ call'[d] = call[d] /\ i \in 1..n
          BY <2>8, <3>2, <4>2
        <5>2. MadeFor(i) = call[d].server.limit
          BY <3>2, <5>1 DEF PermitsKept
        <5> QED BY <2>10, <5>1, <5>2
      <4> QED BY <4>1, <4>2
    <3> QED BY <3>1, <3>2
  <2> QED BY <2>6, <2>7, <2>9, <2>12 DEF PermitsKept
<1> QED BY <1>1, <1>2

\* A permit is taken from the semaphore of the call, or given back to it, as the
\* call comes to the server or leaves it.
LEMMA PermitMoves ==
  ASSUME TypeOK, PermitsKept, NEW c \in Calls, NEW k, call[c].sem = k,
         NEW record, call' = [call EXCEPT ![c] = record],
         UNCHANGED sem_limit,
         \/ /\ call[c].pc = "wait" /\ record.pc = "calling" /\ record.sem = k
            /\ record.server = call[c].server
            /\ semaphores[k] > 0
            /\ semaphores' = [semaphores EXCEPT ![k] = @ - 1]
         \/ /\ call[c].pc = "calling" /\ record.pc \notin {"wait", "calling"}
            /\ semaphores' = [semaphores EXCEPT ![k] = @ + 1]
  PROVE  PermitsKept'
<1> DEFINE n == Len(semaphores)
<1>1. semaphores \in Seq(Nat) /\ k \in 1..n /\ n \in Nat
  BY DEF TypeOK, PermitsKept, AtSemaphore
<1>2. Len(semaphores') = n /\ \A i \in 1..n : i # k => semaphores'[i] = semaphores[i]
  BY <1>1
<1>3. call'[c] = record /\ \A d \in Calls \ {c} : call'[d] = call[d]
  BY DEF TypeOK
<1>4. \A d \in Calls : AtSemaphore(d)' => /\ AtSemaphore(d)
                                          /\ call'[d].sem = call[d].sem
                                          /\ call'[d].server = call[d].server
  BY <1>3 DEF AtSemaphore
<1>5. ASSUME NEW i \in 1..n, i # k
      PROVE  IsFiniteSet(Holders(i)') /\ MadeFor(i)' = MadeFor(i)
  <2>1. Holders(i)' = Holders(i)
    BY <1>3, <1>5 DEF Holders
  <2> QED BY <1>2, <1>5, <2>1 DEF PermitsKept, MadeFor
<1>6. IsFiniteSet(Holders(k)') /\ MadeFor(k)' = MadeFor(k)
  <2> DEFINE old == Cardinality(Holders(k))
             free == semaphores[k]
  <2>1. IsFiniteSet(Holders(k)) /\ free \in Nat
    BY <1>1 DEF PermitsKept
  <2>2. old \in Nat
    BY <2>1, FS_CardinalityType
  <2>3. CASE call[c].pc = "wait"
    <3>1. Holders(k)' = Holders(k) \cup {c} /\ c \notin Holders(k)
      BY <1>3, <2>3 DEF Holders
    <3>2. IsFiniteSet(Holders(k)') /\ Cardinality(Holders(k)') = old + 1
      BY <2>1, <3>1, FS_AddElement
    <3>3. semaphores'[k] = free - 1
      BY <1>1, <2>3
    <3>4. MadeFor(k)' = (free - 1) + (old + 1) /\ MadeFor(k) = free + old
      BY <3>2, <3>3 DEF MadeFor
    <3> HIDE DEF old, free
    <3> QED BY <2>1, <2>2, <3>2, <3>4
  <2>4. CASE call[c].pc = "calling"
    <3>1. Holders(k)' = Holders(k) \ {c} /\ c \in Holders(k)
      BY <1>3, <2>4 DEF Holders
    <3>2. IsFiniteSet(Holders(k)') /\ Cardinality(Holders(k)') = old - 1
      BY <2>1, <3>1, FS_RemoveElement
    <3>3. semaphores'[k] = free + 1
      BY <1>1, <2>4
    <3>4. MadeFor(k)' = (free + 1) + (old - 1) /\ MadeFor(k) = free + old
      BY <3>2, <3>3 DEF MadeFor
    <3> HIDE DEF old, free
    <3> QED BY <2>1, <2>2, <3>2, <3>4
  <2> QED BY <2>3, <2>4
<1>7. \A i \in 1..n : IsFiniteSet(Holders(i)') /\ MadeFor(i)' = MadeFor(i)
  BY <1>5, <1>6
<1> QED BY <1>2, <1>4, <1>7, PermitsCarry

\* The steps of a call that is not at a semaphore.
LEMMA CallsKeepPermits ==
  ASSUME TypeOK, TypeOK', PermitsKept, NEW c \in Calls,
         \/ \E tool \in Tools : Call(c, tool)
         \/ ReadConnection(c) \/ Lookup(c) \/ Discover(c) \/ CheckRate(c)
         \/ BackendFails(c) \/ Report(c)
  PROVE  PermitsKept'
<1>1. UNCHANGED <<semaphores, sem_limit>> /\ call[c].pc # "calling"
  BY DEF Call, ReadConnection, Lookup, Discover, CheckRate, BackendFails, Report, NoCall
<1>2. \E record : /\ call' = [call EXCEPT ![c] = record]
                  /\ record.pc \notin {"wait", "calling"}
  <2>1. CASE End(c)
    <3> WITNESS [pc |-> "done"]
    <3> QED BY <2>1 DEF End
  <2>2. ASSUME NEW p \in {"discover", "limit", "before"}, Goto(c, p),
               call[c].pc \in {"lookup", "discover", "limit"}
        PROVE  \E record : /\ call' = [call EXCEPT ![c] = record]
                           /\ record.pc \notin {"wait", "calling"}
    <3> DEFINE r == [call[c] EXCEPT !.pc = p]
    <3>1. call' = [call EXCEPT ![c] = r]
      BY <2>2 DEF Goto
    <3>2. r.pc = p
      BY <2>2, GotoRecord
    <3> HIDE DEF r
    <3> QED BY <3>1, <3>2
  <2>3. CASE \E tool \in Tools : Call(c, tool)
    <3>1. PICK tool \in Tools : Call(c, tool)
      BY <2>3
    <3>2. CASE server.enabled
      <4> WITNESS [pc |-> "connect", tool |-> tool, server |-> server]
      <4> QED BY <3>1, <3>2 DEF Call
    <3> QED BY <2>1, <3>1, <3>2 DEF Call
  <2>4. CASE ReadConnection(c)
    <3> WITNESS [pc |-> "lookup", tool |-> call[c].tool, server |-> call[c].server,
                 connection |-> connection]
    <3> QED BY <2>4 DEF ReadConnection
  <2>5. CASE Lookup(c)
    BY <2>1, <2>2, <2>5 DEF Lookup, Resolved
  <2>6. CASE Discover(c)
    BY <2>1, <2>2, <2>6 DEF Discover, Resolved
  <2>7. CASE CheckRate(c)
    BY <2>1, <2>2, <2>7 DEF CheckRate
  <2>8. CASE BackendFails(c)
    <3> WITNESS [pc |-> "report", success |-> FALSE]
    <3> QED BY <2>8 DEF BackendFails
  <2>9. CASE Report(c)
    BY <2>1, <2>9 DEF Report
  <2> QED BY <2>3, <2>4, <2>5, <2>6, <2>7, <2>8, <2>9
<1> QED BY <1>1, <1>2, MoveIsQuiet

\* The steps that take or give back a permit.
LEMMA PermitSteps ==
  ASSUME TypeOK, PermitsKept, NEW c \in Calls, Acquire(c) \/ Return(c) \/ Cancel(c)
  PROVE  PermitsKept'
<1>1. UNCHANGED sem_limit
  BY DEF Acquire, Return, Cancel
<1>2. CASE Acquire(c)
  <2> DEFINE r == [call[c] EXCEPT !.pc = "calling"]
  <2>1. /\ call[c].pc = "wait" /\ semaphores[call[c].sem] > 0
        /\ semaphores' = [semaphores EXCEPT ![call[c].sem] = @ - 1]
        /\ call' = [call EXCEPT ![c] = r]
    BY <1>2 DEF Acquire, Goto
  <2>2. r.pc = "calling" /\ r.sem = call[c].sem /\ r.server = call[c].server
    BY <2>1 DEF TypeOK, CallRecord, NoCall
  <2> HIDE DEF r
  <2> QED BY <1>1, <2>1, <2>2, PermitMoves
<1>3. ASSUME Return(c) \/ Cancel(c)
      PROVE  \E record : /\ call' = [call EXCEPT ![c] = record]
                         /\ record.pc \notin {"wait", "calling"}
  <2>1. CASE End(c)
    <3> WITNESS [pc |-> "done"]
    <3> QED BY <2>1 DEF End
  <2>2. CASE \E success \in BOOLEAN :
               call' = [call EXCEPT ![c] = [pc |-> "report", success |-> success]]
    <3>1. PICK success \in BOOLEAN :
            call' = [call EXCEPT ![c] = [pc |-> "report", success |-> success]]
      BY <2>2
    <3> WITNESS [pc |-> "report", success |-> success]
    <3> QED BY <3>1
  <2> QED BY <1>3, <2>1, <2>2 DEF Return, Cancel
<1>4. CASE (Return(c) \/ Cancel(c)) /\ call[c].pc = "calling"
  <2>1. semaphores' = [semaphores EXCEPT ![call[c].sem] = @ + 1]
    BY <1>4 DEF Return, Cancel, Release
  <2> QED BY <1>1, <1>3, <1>4, <2>1, PermitMoves
<1>5. CASE (Return(c) \/ Cancel(c)) /\ call[c].pc # "calling"
  <2>1. UNCHANGED semaphores
    BY <1>5 DEF Return, Cancel
  <2> QED BY <1>1, <1>3, <1>5, <2>1, MoveIsQuiet
<1> QED BY <1>2, <1>4, <1>5

\* Every permit of every semaphore stays accounted for.
LEMMA PermitsInvariance ==
  Spec => [](TypeOK /\ PermitsKept)
<1>1. Init => PermitsKept
  <2> SUFFICES ASSUME Init PROVE PermitsKept
    OBVIOUS
  <2>1. \A c \in Calls : call[c].pc = "idle"
    BY DEF Init, NoCall
  <2> QED BY <2>1 DEF Init, PermitsKept, AtSemaphore
<1>2. TypeOK /\ TypeOK' /\ PermitsKept /\ [Next]_vars => PermitsKept'
  <2> SUFFICES ASSUME TypeOK, TypeOK', PermitsKept, [Next]_vars PROVE PermitsKept'
    OBVIOUS
  <2>1. CASE UNCHANGED <<semaphores, sem_limit, call>>
    BY <2>1, QuietKeeps
  <2>2. ASSUME NEW c \in Calls,
               \/ \E tool \in Tools : Call(c, tool)
               \/ Step(c) \/ BackendFails(c) \/ Cancel(c)
        PROVE  PermitsKept'
    BY <2>2, CallsKeepPermits, BeforePermits, PermitSteps DEF Step
  <2> QED BY <2>1, <2>2 DEF Next, vars, RecoveryPasses, CountExpires, WindowMoves,
                            EntryExpires, UpdateServer, InvalidateServer, RotateConnection
<1> QED BY <1>1, <1>2, GatewayTypeCorrect, PTL DEF Spec

\* Each semaphore of McpGateway.call accounts for what it was made for: its free
\* permits and the calls under way through it add up to the limit that its calls
\* have read, through waits, failures, timeouts, cancellations and replacements.
THEOREM PermitsAreKept ==
  Spec => []PermitsKept
BY PermitsInvariance, PTL

-----------------------------------------------------------------------------
(* Concurrency *)

\* Until the first update the calls share one semaphore, made for the limit
\* that is registered.
OneSemaphore ==
  server.version = 1 => /\ Len(semaphores) <= 1
                        /\ Len(semaphores) = 1 => sem_limit = server.limit

\* Calls that read the first version make at most one semaphore.
LEMMA OneSemaphoreStep ==
  ASSUME GatewayInv, OneSemaphore, [Next]_vars
  PROVE  OneSemaphore'
<1>1. semaphores \in Seq(Nat) /\ Len(semaphores) \in Nat
  BY DEF GatewayInv, TypeOK
<1>2. CASE UNCHANGED <<server, semaphores, sem_limit>>
  BY <1>2 DEF OneSemaphore
<1>3. ASSUME UpdateServer PROVE OneSemaphore'
  <2>1. server.version \in Nat \ {0}
    BY DEF GatewayInv, TypeOK, Server
  <2>2. server'.version = server.version + 1
    BY <1>3 DEF UpdateServer
  <2>3. server'.version # 1
    BY <2>1, <2>2
  <2> QED BY <2>3 DEF OneSemaphore
<1>4. ASSUME NEW c \in Calls, Before(c) PROVE OneSemaphore'
  <2> SUFFICES ASSUME server.version = 1
               PROVE  Len(semaphores') <= 1 /\ (Len(semaphores') = 1 => sem_limit' = server.limit)
    BY <1>4 DEF OneSemaphore, Before, config
  <2>1. call[c].server = server
    <3>1. ReadServer(c) /\ call[c].server \in Server
      BY <1>4, CallFields DEF Before, ReadServer, HasServer, GatewayInv
    <3>2. call[c].server.version \in Nat \ {0} /\ call[c].server.version <= 1
      BY <3>1 DEF GatewayInv, VersionsAgree, Server
    <3>3. call[c].server.version = 1
      BY <3>2
    <3> QED BY <3>1, <3>3 DEF GatewayInv, VersionsAgree
  <2>2. server.limit \in Nat
    BY McpGatewayAssumption DEF GatewayInv, TypeOK, Server
  <2>3. CASE SameLimit(c) \/ breaker.opened = "until_later"
    BY <1>4, <2>1, <2>3 DEF Before, SameLimit, OneSemaphore
  <2>4. CASE ~SameLimit(c) /\ breaker.opened # "until_later"
    <3>1. semaphores' = Append(semaphores, server.limit) /\ sem_limit' = server.limit
      BY <1>4, <2>1, <2>4 DEF Before
    <3>2. Len(semaphores) <= 1 /\ Len(semaphores) # 1
      BY <2>1, <2>4 DEF SameLimit, OneSemaphore
    <3>3. Len(semaphores) = 0
      <4> DEFINE n == Len(semaphores)
      <4>1. n \in Nat /\ n <= 1 /\ n # 1
        BY <1>1, <3>2
      <4> HIDE DEF n
      <4>2. n = 0
        BY <4>1
      <4> QED BY <4>2 DEF n
    <3> QED BY <1>1, <2>2, <3>1, <3>3
  <2> QED BY <2>3, <2>4
<1>5. ASSUME NEW c \in Calls, Acquire(c) \/ Return(c) \/ Cancel(c) PROVE OneSemaphore'
  <2>1. UNCHANGED <<server, sem_limit>>
    BY <1>5 DEF Acquire, Return, Cancel, config
  <2>2. Len(semaphores') = Len(semaphores)
    BY <1>1, <1>5 DEF Acquire, Return, Cancel, Release
  <2> QED BY <2>1, <2>2 DEF OneSemaphore
<1> QED BY <1>2, <1>3, <1>4, <1>5
        DEF Next, Step, Call, ReadConnection, Lookup, Discover, CheckRate, BackendFails, Report,
            RecoveryPasses, CountExpires, WindowMoves, EntryExpires, InvalidateServer,
            RotateConnection, config, vars

\* A semaphore that accounts for a limit has no more holders than the limit.
LEMMA HoldersBounded ==
  ASSUME TypeOK, PermitsKept, NEW i \in 1..Len(semaphores)
  PROVE  Cardinality(Holders(i)) <= MadeFor(i)
<1> DEFINE free == semaphores[i]
           held == Cardinality(Holders(i))
<1>1. free \in Nat /\ IsFiniteSet(Holders(i))
  BY DEF PermitsKept, TypeOK
<1>2. held \in Nat
  BY <1>1, FS_CardinalityType
<1>3. MadeFor(i) = free + held
  BY DEF MadeFor
<1> HIDE DEF free, held
<1>4. held <= MadeFor(i)
  BY <1>1, <1>2, <1>3
<1> QED BY <1>4 DEF held

\* However max_concurrency is updated while calls hold or await a semaphore, calls
\* through one semaphore are never more than the limit each of them has read; and
\* until the first update no more calls are at the server than its limit allows.
THEOREM ConcurrencyIsRespected ==
  Spec => []ConcurrencyRespected
<1>1. Init => OneSemaphore
  BY DEF Init, OneSemaphore
<1>2. GatewayInv /\ OneSemaphore /\ [Next]_vars => OneSemaphore'
  BY OneSemaphoreStep
<1>3. GatewayInv /\ PermitsKept /\ OneSemaphore => ConcurrencyRespected
  <2> SUFFICES ASSUME GatewayInv, PermitsKept, OneSemaphore PROVE ConcurrencyRespected
    OBVIOUS
  <2>0. TypeOK /\ semaphores \in Seq(Nat) /\ Len(semaphores) \in Nat
    BY DEF GatewayInv, TypeOK
  <2>1. ASSUME NEW c \in Calling
        PROVE  Cardinality({d \in Calling : call[d].sem = call[c].sem}) <= call[c].server.limit
    <3>1. PICK i : i = call[c].sem
      OBVIOUS
    <3>2. {d \in Calling : call[d].sem = call[c].sem} = Holders(i)
      BY <3>1 DEF Calling, Holders
    <3>3. c \in Calls /\ AtSemaphore(c) /\ i \in 1..Len(semaphores)
      BY <3>1 DEF Calling, AtSemaphore, PermitsKept
    <3>4. MadeFor(i) = call[c].server.limit
      BY <3>1, <3>3 DEF PermitsKept
    <3>5. Cardinality(Holders(i)) <= MadeFor(i)
      BY <2>0, <3>3, HoldersBounded
    <3> QED BY <3>2, <3>4, <3>5
  <2>2. ASSUME server.version = 1 PROVE Cardinality(Calling) <= server.limit
    <3> DEFINE n == Len(semaphores)
    <3>1. \A c \in Calling : call[c].sem \in 1..n
      BY DEF PermitsKept, Calling, AtSemaphore
    <3>2. n \in Nat /\ n <= 1 /\ (n = 1 => sem_limit = server.limit)
      BY <2>0, <2>2 DEF OneSemaphore
    <3>3. CASE n = 0
      <4>1. Calling = {}
        <5> HIDE DEF n
        <5> QED BY <3>1, <3>3
      <4>2. server.limit \in Nat
        BY McpGatewayAssumption DEF GatewayInv, TypeOK, Server
      <4>3. Cardinality(Calling) = 0
        BY <4>1, FS_EmptySet
      <4> QED BY <4>2, <4>3
    <3>4. CASE n = 1
      <4>1. Calling = Holders(1)
        <5>1. \A c \in Calling : call[c].sem = 1
          <6> HIDE DEF n
          <6> QED BY <3>1, <3>4
        <5> QED BY <5>1 DEF Calling, Holders
      <4>2. MadeFor(1) = server.limit
        BY <3>2, <3>4 DEF PermitsKept
      <4>3. Cardinality(Holders(1)) <= MadeFor(1)
        BY <2>0, <3>4, HoldersBounded
      <4> QED BY <4>1, <4>2, <4>3
    <3>5. n = 0 \/ n = 1
      <4> HIDE DEF n
      <4> QED BY <3>2
    <3> QED BY <3>3, <3>4, <3>5
  <2> QED BY <2>1, <2>2 DEF ConcurrencyRespected
<1> QED BY <1>1, <1>2, <1>3, GatewayInvariance, PermitsInvariance, PTL DEF Spec
=============================================================================
