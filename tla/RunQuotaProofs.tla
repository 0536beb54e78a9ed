--------------------------- MODULE RunQuotaProofs ---------------------------
(***************************************************************************)
(* Machine-checked proofs about RunQuota, for every finite set of runs,    *)
(* every set of users and clients, all limits, reservations and usages.    *)
(***************************************************************************)
EXTENDS RunQuota, FiniteSetTheorems, TLAPS

RunRecord == [state : RunState, day : Days, started : {"no", "yes"}]
ClientRecord == [pc : ClientPC, run : Runs, day : Days, end : {"no", "yes"}]

\* The phases of a task that has not called the model, and those in which it
\* relies on the slot of its run.
BeforeModel == {"reserve", "slot", "claim", "start"}
InSlot == {"claim", "start", "model"}
InRollback == {"check", "undo", "delete"}

-----------------------------------------------------------------------------
(* With every fault: a run starts once *)

\* A run that started and that nobody leases has ended, and one whose row does
\* not exist yet is leased and started by nobody.
RowOK(r) ==
  /\ run[r].started = "yes" /\ holder[r] = NoClient => run[r].state = "ended"
  /\ run[r].state \in {"none", "asked"} => run[r].started = "no" /\ holder[r] = NoClient
  /\ spent[r] >= 0 => run[r].started = "yes"

\* A task with a lease that has not called the model works on a run that has not
\* started; one at the model is the first whose usage will be known.
PhaseOK(c) ==
  LET r == client[c].run
  IN  /\ client[c].pc \in BeforeModel /\ holder[r] = c => run[r].started = "no"
      /\ client[c].pc = "model" => run[r].started = "yes" /\ spent[r] = -1
      /\ client[c].pc = "drop" => run[r].started = "yes" /\ spent[r] >= 0
      /\ client[c].pc = "create" => run[r].state = "asked"

\* One request creates a run and one task calls the model for it.
OnePerRun ==
  \A c, d \in Clients :
    /\ c # d
    /\ client[c].pc = client[d].pc
    /\ client[c].pc \in {"create", "model"}
    => client[c].run # client[d].run

PhasesOK ==
  /\ \A r \in Runs : RowOK(r)
  /\ \A c \in Clients : PhaseOK(c)
  /\ OnePerRun

SlotCount == \A s \in Scopes : Cardinality(InScope(slots, s)) <= Slots[s]

-----------------------------------------------------------------------------
(* Without "stall": one client works on a run *)

\* A client works on its run under the lease or, rolling back, on a run that
\* nobody can lease any more.
LeaseOK(c) ==
  LET r == client[c].run
  IN  /\ client[c].pc \in BeforeModel \cup {"model", "drop"} => holder[r] = c
      /\ client[c].pc \in InRollback =>
           \/ holder[r] = c
           \/ holder[r] = NoClient /\ run[r].state \in {"asked", "ended"}
      /\ client[c].pc \in BeforeModel \cup InRollback => run[r].started = "no"
      /\ client[c].pc \in InSlot => r \in slots

\* No two clients work on one run.
Alone ==
  \A c, d \in Clients :
    c # d /\ client[c].pc # "idle" /\ client[d].pc # "idle" => client[c].run # client[d].run

LeasesOK ==
  /\ \A r \in Runs : holder[r] # NoClient => run[r].state \in {"queued", "running"}
  /\ \A c \in Clients : LeaseOK(c)
  /\ Alone

-----------------------------------------------------------------------------
(* Without faults: a client knows the day and the key of its run *)

KeyOK(c) ==
  LET r == client[c].run
  IN  /\ client[c].pc # "idle" => client[c].day = run[r].day
      /\ client[c].pc = "create" => client[c].day = today
      /\ client[c].pc \in {"slot", "claim", "start", "model", "undo", "delete"} => r \in keys

KeysOK ==
  /\ \A r \in Runs : run[r].state = "none" => r \notin keys
  /\ \A c \in Clients : KeyOK(c)

-----------------------------------------------------------------------------

\* Who works on what: the part of the inductive invariant that needs no sums.
\* Each layer holds under fewer faults and rests on the one before.
OwnersInv ==
  /\ TypeOK
  /\ PhasesOK
  /\ "stall" \notin Faults => LeasesOK
  /\ Faults = {} => KeysOK

-----------------------------------------------------------------------------
(* Sums.  SumFunction folds over the subsets of the domain; the lemmas say   *)
(* that this fold exists and what an update of the summed function does.     *)

Pick(s) == CHOOSE x \in s : TRUE

\* h adds up f over every subset of S.
Adds(h, f, S) ==
  h = [s \in SUBSET S |-> IF s = {} THEN 0 ELSE f[Pick(s)] + h[s \ {Pick(s)}]]

\* A set of numbers with 0 and the successor of each member holds every number.
LEMMA Induction ==
  ASSUME NEW A, 0 \in A, \A n \in Nat : n \in A => n + 1 \in A
  PROVE  Nat \subseteq A
<1> DEFINE R == OpToRel(<, Nat)
<1> DEFINE B == Nat \ A
<1> SUFFICES ASSUME B # {} PROVE FALSE
  OBVIOUS
<1>1. \A x, y \in Nat : <<y, x>> \in R <=> y < x
  BY DEF OpToRel
<1>2. \E x \in B : \A y \in B : ~(<<y, x>> \in R)
  <2>1. IsWellFoundedOn(R, Nat)
    BY NatLessThanWellFounded
  <2>2. B \subseteq Nat
    OBVIOUS
  <2> HIDE DEF R, B
  <2> QED BY <2>1, <2>2, WFMin
<1>3. PICK x \in B : \A y \in B : ~(y < x)
  <2> HIDE DEF R
  <2> QED BY <1>1, <1>2
<1>4. x # 0 /\ x - 1 \in Nat /\ x - 1 < x /\ (x - 1) + 1 = x
  OBVIOUS
<1>5. x - 1 \in A
  BY <1>3, <1>4
<1> QED BY <1>4, <1>5

\* A family of subsets of a finite set that holds the empty set, and every set
\* from which taking its pick leaves a member, holds all of them.
LEMMA SubsetInduction ==
  ASSUME NEW S, IsFiniteSet(S), NEW A, {} \in A,
         \A s \in SUBSET S : s # {} /\ s \ {Pick(s)} \in A => s \in A
  PROVE  SUBSET S \subseteq A
<1> DEFINE G == {n \in Nat : \A s \in SUBSET S : Cardinality(s) = n => s \in A}
<1>1. \A s \in SUBSET S : IsFiniteSet(s)
  BY FS_Subset
<1>2. 0 \in G
  BY <1>1, FS_EmptySet
<1>3. ASSUME NEW n \in Nat, n \in G PROVE n + 1 \in G
  <2> SUFFICES ASSUME NEW s \in SUBSET S, Cardinality(s) = n + 1 PROVE s \in A
    OBVIOUS
  <2>1. s # {}
    BY FS_EmptySet
  <2>2. Pick(s) \in s
    BY <2>1 DEF Pick
  <2>3. Cardinality(s \ {Pick(s)}) = n
    <3>1. Cardinality(s \ {Pick(s)}) = Cardinality(s) - 1
      BY <1>1, <2>2, FS_RemoveElement
    <3> QED BY <3>1
  <2> QED BY <1>3, <2>1, <2>3
<1>4. Nat \subseteq G
  <2> HIDE DEF G
  <2> QED BY <1>2, <1>3, Induction
<1> QED
  BY <1>1, <1>4, FS_CardinalityType

\* The fold of SumFunction exists: it is built up along the size of the subsets.
LEMMA SumExists ==
  ASSUME NEW S, IsFiniteSet(S), NEW f
  PROVE  \E h : Adds(h, f, S)
<1> DEFINE Up(n) == {s \in SUBSET S : Cardinality(s) <= n}
<1> DEFINE Fits(h, n) ==
      h = [s \in Up(n) |-> IF s = {} THEN 0 ELSE f[Pick(s)] + h[s \ {Pick(s)}]]
<1> DEFINE G == {n \in Nat : \E h : Fits(h, n)}
<1>1. \A s \in SUBSET S : /\ IsFiniteSet(s) /\ Cardinality(s) \in Nat
                          /\ Cardinality(s) = 0 <=> s = {}
  BY FS_Subset, FS_CardinalityType, FS_EmptySet
<1>2. \A s \in SUBSET S : s # {} =>
        s \ {Pick(s)} \in SUBSET S /\ Cardinality(s \ {Pick(s)}) = Cardinality(s) - 1
  <2> SUFFICES ASSUME NEW s \in SUBSET S, s # {}
               PROVE  s \ {Pick(s)} \in SUBSET S /\ Cardinality(s \ {Pick(s)}) = Cardinality(s) - 1
    OBVIOUS
  <2>1. Pick(s) \in s
    BY DEF Pick
  <2> QED BY <1>1, <2>1, FS_RemoveElement
<1>3. 0 \in G
  <2>1. Fits([s \in Up(0) |-> 0], 0)
    BY <1>1
  <2> QED BY <2>1
<1>4. ASSUME NEW n \in Nat, n \in G PROVE n + 1 \in G
  <2>1. PICK h : Fits(h, n)
    BY <1>4
  <2> DEFINE g == [s \in Up(n + 1) |-> IF s \in Up(n) THEN h[s]
                                       ELSE f[Pick(s)] + h[s \ {Pick(s)}]]
  <2>2. ASSUME NEW s \in Up(n + 1)
        PROVE  g[s] = IF s = {} THEN 0 ELSE f[Pick(s)] + g[s \ {Pick(s)}]
    <3>1. CASE s = {}
      <4>1. s \in Up(n)
        BY <1>1, <3>1
      <4> QED BY <2>1, <3>1, <4>1
    <3>2. CASE s # {}
      <4>1. s \ {Pick(s)} \in Up(n) /\ s \ {Pick(s)} \in Up(n + 1)
        BY <1>1, <1>2, <3>2
      <4>2. g[s \ {Pick(s)}] = h[s \ {Pick(s)}]
        BY <4>1
      <4>3. s \in Up(n) => h[s] = f[Pick(s)] + h[s \ {Pick(s)}]
        BY <2>1, <3>2
      <4> QED BY <3>2, <4>2, <4>3
    <3> QED BY <3>1, <3>2
  <2>3. g = [s \in Up(n + 1) |-> g[s]]
    OBVIOUS
  <2>4. Fits(g, n + 1)
    <3> HIDE DEF g, Up
    <3> QED BY <2>2, <2>3
  <2> HIDE DEF Fits
  <2> QED BY <2>4
<1>5. Nat \subseteq G
  <2> HIDE DEF G
  <2> QED BY <1>3, <1>4, Induction
<1>6. Cardinality(S) \in Nat /\ Up(Cardinality(S)) = SUBSET S
  <2>1. \A s \in SUBSET S : Cardinality(s) <= Cardinality(S)
    BY FS_Subset
  <2> QED BY <1>1, <2>1
<1>7. PICK h : Fits(h, Cardinality(S))
  BY <1>5, <1>6
<1> QED BY <1>6, <1>7 DEF Adds

\* SumFunction(f) is what such a fold gives the whole domain.
LEMMA SumIsFold ==
  ASSUME NEW S, IsFiniteSet(S), NEW f, DOMAIN f = S
  PROVE  \E h : Adds(h, f, S) /\ SumFunction(f) = h[S]
<1> DEFINE H == CHOOSE h : Adds(h, f, S)
<1>1. Adds(H, f, S)
  BY SumExists
<1>2. SumFunction(f) = H[S]
  BY DEF SumFunction, SumFunctionOnSet, FoldFunctionOnSet, MapThenFoldSet, Adds, Pick
<1> QED BY <1>1, <1>2

\* What a fold gives a set: 0, or the picked value and the rest.
LEMMA AddsStep ==
  ASSUME NEW S, NEW f, NEW h, Adds(h, f, S), NEW s \in SUBSET S
  PROVE  /\ s = {} => h[s] = 0
         /\ s # {} => /\ Pick(s) \in s /\ s \ {Pick(s)} \in SUBSET S
                      /\ h[s] = f[Pick(s)] + h[s \ {Pick(s)}]
<1>1. h[s] = IF s = {} THEN 0 ELSE f[Pick(s)] + h[s \ {Pick(s)}]
  <2> DEFINE b == [t \in SUBSET S |-> IF t = {} THEN 0 ELSE f[Pick(t)] + h[t \ {Pick(t)}]]
  <2>1. h = b
    BY DEF Adds
  <2>2. b[s] = IF s = {} THEN 0 ELSE f[Pick(s)] + h[s \ {Pick(s)}]
    OBVIOUS
  <2> HIDE DEF b
  <2> QED BY <2>1, <2>2
<1>2. s # {} => Pick(s) \in s
  BY DEF Pick
<1> QED BY <1>1, <1>2

\* The empty sum.
LEMMA AddsNothing ==
  ASSUME NEW S, NEW f, NEW h, Adds(h, f, S)
  PROVE  h[{}] = 0
<1> DEFINE e == {}
<1>1. e \in SUBSET S /\ e = {}
  OBVIOUS
<1> HIDE DEF e
<1>2. h[e] = 0
  BY <1>1, AddsStep
<1> QED BY <1>1, <1>2

\* The sum of numbers is a number, of natural numbers a natural one.
LEMMA SumType ==
  ASSUME NEW S, IsFiniteSet(S), NEW f \in [S -> Int]
  PROVE  /\ SumFunction(f) \in Int
         /\ (\A x \in S : f[x] >= 0) => SumFunction(f) >= 0
         /\ (\A x \in S : f[x] = 0) => SumFunction(f) = 0
<1>1. PICK h : Adds(h, f, S) /\ SumFunction(f) = h[S]
  BY SumIsFold
<1> DEFINE A == {s \in SUBSET S : /\ h[s] \in Int
                                  /\ (\A x \in S : f[x] >= 0) => h[s] >= 0
                                  /\ (\A x \in S : f[x] = 0) => h[s] = 0}
<1>2. {} \in A
  <2>1. h[{}] = 0
    BY <1>1, AddsNothing
  <2> QED BY <2>1
<1>3. ASSUME NEW s \in SUBSET S, s # {}, s \ {Pick(s)} \in A PROVE s \in A
  <2>1. /\ Pick(s) \in s /\ s \ {Pick(s)} \in SUBSET S
        /\ h[s] = f[Pick(s)] + h[s \ {Pick(s)}]
    BY <1>1, <1>3, AddsStep
  <2>2. f[Pick(s)] \in Int /\ Pick(s) \in S
    BY <2>1
  <2>3. h[s \ {Pick(s)}] \in Int
    BY <1>3
  <2> QED BY <1>3, <2>1, <2>2, <2>3
<1>4. SUBSET S \subseteq A
  <2> HIDE DEF A
  <2> QED BY <1>2, <1>3, SubsetInduction
<1>5. S \in A
  <2>1. S \in SUBSET S
    OBVIOUS
  <2> HIDE DEF A
  <2> QED BY <1>4, <2>1
<1> QED BY <1>1, <1>5

\* Changing one value changes the sum by the difference.
LEMMA SumUpdate ==
  ASSUME NEW S, IsFiniteSet(S), NEW f \in [S -> Int], NEW g \in [S -> Int], NEW x \in S,
         \A y \in S : y # x => g[y] = f[y]
  PROVE  SumFunction(g) = SumFunction(f) + (g[x] - f[x])
<1>1. PICK h : Adds(h, f, S) /\ SumFunction(f) = h[S]
  BY SumIsFold
<1>2. PICK k : Adds(k, g, S) /\ SumFunction(g) = k[S]
  BY SumIsFold
<1> DEFINE A == {s \in SUBSET S : /\ h[s] \in Int /\ k[s] \in Int
                                  /\ k[s] = h[s] + (IF x \in s THEN g[x] - f[x] ELSE 0)}
<1>3. {} \in A
  <2>1. h[{}] = 0 /\ k[{}] = 0
    BY <1>1, <1>2, AddsNothing
  <2> QED BY <2>1
<1>4. ASSUME NEW s \in SUBSET S, s # {}, s \ {Pick(s)} \in A PROVE s \in A
  <2> DEFINE y == Pick(s)
  <2>1. /\ y \in s /\ s \ {y} \in SUBSET S
        /\ h[s] = f[y] + h[s \ {y}] /\ k[s] = g[y] + k[s \ {y}]
    <3>1. y \in s /\ s \ {y} \in SUBSET S /\ h[s] = f[y] + h[s \ {y}]
      BY <1>1, <1>4, AddsStep
    <3>2. k[s] = g[y] + k[s \ {y}]
      BY <1>2, <1>4, AddsStep
    <3> QED BY <3>1, <3>2
  <2>2. f[y] \in Int /\ g[y] \in Int /\ f[x] \in Int /\ g[x] \in Int
    BY <2>1
  <2>3. /\ h[s \ {y}] \in Int /\ k[s \ {y}] \in Int
        /\ k[s \ {y}] = h[s \ {y}] + (IF x \in s \ {y} THEN g[x] - f[x] ELSE 0)
    BY <1>4
  <2> HIDE DEF y
  <2>4. CASE y = x
    BY <2>1, <2>2, <2>3, <2>4
  <2>5. CASE y # x
    <3>1. g[y] = f[y]
      BY <2>1, <2>5
    <3> QED BY <2>1, <2>2, <2>3, <2>5, <3>1
  <2> QED BY <2>4, <2>5
<1>5. SUBSET S \subseteq A
  <2> HIDE DEF A
  <2> QED BY <1>3, <1>4, SubsetInduction
<1>6. S \in A
  <2>1. S \in SUBSET S
    OBVIOUS
  <2> HIDE DEF A
  <2> QED BY <1>5, <2>1
<1> QED BY <1>1, <1>2, <1>6

-----------------------------------------------------------------------------
(* Types *)

\* What the constants promise, as single facts.
LEMMA Constants ==
  /\ IsFiniteSet(Runs) /\ UserOf \in [Runs -> Users] /\ NoClient \notin Clients
  /\ Organization \notin Users
  /\ LastDay \in Nat /\ LastDay >= 1 /\ Reserved \in Nat /\ Usage \subseteq Nat
  /\ DailyLimit \in [Scopes -> Nat] /\ Slots \in [Scopes -> Nat]
  /\ \A r \in Runs : ScopesOf(r) \subseteq Scopes
BY QuotaAssumption DEF Scopes, ScopesOf

\* An idle client is a client.
LEMMA IdleType ==
  Idle \in ClientRecord /\ Idle.pc = "idle"
<1>1. (CHOOSE r \in Runs : TRUE) \in Runs
  BY QuotaAssumption
<1>2. 1 \in Days
  BY Constants DEF Days
<1> QED BY <1>1, <1>2 DEF Idle, ClientRecord, ClientPC

\* TypeOK with the records by name.
LEMMA TypeForm ==
  TypeOK <=>
  /\ used \in [Days -> [Scopes -> Int]]
  /\ slots \subseteq Runs /\ rate \subseteq Runs /\ keys \subseteq Runs
  /\ switch \in {"on", "off"} /\ today \in Days
  /\ run \in [Runs -> RunRecord]
  /\ holder \in [Runs -> Clients \cup {NoClient}]
  /\ client \in [Clients -> ClientRecord]
  /\ spent \in [Runs -> Nat \cup {-1}]
BY DEF TypeOK, RunRecord, ClientRecord

\* Adding a number to the counters of a run keeps them counters.
LEMMA AddType ==
  ASSUME used \in [Days -> [Scopes -> Int]], NEW r \in Runs, NEW d \in Days, NEW n \in Int,
         Add(r, d, n)
  PROVE  /\ used' \in [Days -> [Scopes -> Int]]
         /\ \A e \in Days : e # d => used'[e] = used[e]
         /\ \A s \in Scopes :
              used'[d][s] = IF s \in ScopesOf(r) THEN used[d][s] + n ELSE used[d][s]
<1> DEFINE row == [s \in Scopes |-> IF s \in ScopesOf(r) THEN used[d][s] + n ELSE used[d][s]]
<1>1. row \in [Scopes -> Int]
  <2>1. \A s \in Scopes : used[d][s] \in Int
    OBVIOUS
  <2> QED BY <2>1
<1>2. used' = [used EXCEPT ![d] = row]
  BY DEF Add
<1>3. \A s \in Scopes : row[s] = IF s \in ScopesOf(r) THEN used[d][s] + n ELSE used[d][s]
  OBVIOUS
<1> HIDE DEF row
<1> QED BY <1>1, <1>2, <1>3

\* What Goto, Leave and Rollback do to the clients.
LEMMA ClientMoves ==
  ASSUME client \in [Clients -> ClientRecord], NEW c \in Clients
  PROVE  /\ \A pc \in ClientPC : Goto(c, pc) =>
              /\ client' \in [Clients -> ClientRecord]
              /\ \A d \in Clients : d # c => client'[d] = client[d]
              /\ client'[c].pc = pc /\ client'[c].run = client[c].run
              /\ client'[c].day = client[c].day /\ client'[c].end = client[c].end
         /\ Leave(c) =>
              /\ client' \in [Clients -> ClientRecord]
              /\ \A d \in Clients : d # c => client'[d] = client[d]
              /\ client'[c].pc = "idle"
         /\ \A r \in Runs, day \in Days, end \in {"no", "yes"} : Rollback(c, r, day, end) =>
              /\ client' \in [Clients -> ClientRecord]
              /\ \A d \in Clients : d # c => client'[d] = client[d]
              /\ client'[c].pc = "check" /\ client'[c].run = r
              /\ client'[c].day = day
<1>1. ASSUME NEW pc \in ClientPC, Goto(c, pc)
      PROVE  /\ client' \in [Clients -> ClientRecord]
             /\ \A d \in Clients : d # c => client'[d] = client[d]
             /\ client'[c].pc = pc /\ client'[c].run = client[c].run
             /\ client'[c].day = client[c].day /\ client'[c].end = client[c].end
  BY <1>1 DEF Goto, ClientRecord
<1>2. ASSUME Leave(c)
      PROVE  /\ client' \in [Clients -> ClientRecord]
             /\ \A d \in Clients : d # c => client'[d] = client[d]
             /\ client'[c].pc = "idle"
  BY <1>2, IdleType DEF Leave
<1>3. ASSUME NEW r \in Runs, NEW day \in Days, NEW end \in {"no", "yes"},
             Rollback(c, r, day, end)
      PROVE  /\ client' \in [Clients -> ClientRecord]
             /\ \A d \in Clients : d # c => client'[d] = client[d]
             /\ client'[c].pc = "check" /\ client'[c].run = r
             /\ client'[c].day = day
  BY <1>3 DEF Rollback, ClientRecord, ClientPC
<1> QED BY <1>1, <1>2, <1>3

\* What an update of one field of a run does.
LEMMA RunMoves ==
  ASSUME run \in [Runs -> RunRecord], NEW r \in Runs
  PROVE  /\ \A st \in RunState : run' = [run EXCEPT ![r].state = st] =>
              /\ run' \in [Runs -> RunRecord]
              /\ \A q \in Runs : q # r => run'[q] = run[q]
              /\ run'[r].state = st /\ run'[r].day = run[r].day
              /\ run'[r].started = run[r].started
         /\ \A st \in RunState, d \in Days :
              run' = [run EXCEPT ![r].state = st, ![r].day = d] =>
                /\ run' \in [Runs -> RunRecord]
                /\ \A q \in Runs : q # r => run'[q] = run[q]
                /\ run'[r].state = st /\ run'[r].day = d /\ run'[r].started = run[r].started
         /\ run' = [run EXCEPT ![r].started = "yes"] =>
              /\ run' \in [Runs -> RunRecord]
              /\ \A q \in Runs : q # r => run'[q] = run[q]
              /\ run'[r].state = run[r].state /\ run'[r].day = run[r].day
              /\ run'[r].started = "yes"
BY DEF RunRecord

\* The request writes the state and the day of its run.
LEMMA RunAsked ==
  ASSUME run \in [Runs -> RunRecord], NEW r \in Runs, NEW d \in Days,
         run' = [run EXCEPT ![r].state = "asked", ![r].day = d]
  PROVE  /\ \A q \in Runs : q # r => run'[q] = run[q]
         /\ run'[r].state = "asked" /\ run'[r].day = d /\ run'[r].started = run[r].started
BY DEF RunRecord

\* The transaction that ends a run ends the run of its own lease or nothing.
LEMMA EndRunMoves ==
  ASSUME run \in [Runs -> RunRecord], holder \in [Runs -> Clients \cup {NoClient}],
         NEW c \in Clients, NEW r \in Runs, EndRun(c, r)
  PROVE  /\ run' \in [Runs -> RunRecord] /\ holder' \in [Runs -> Clients \cup {NoClient}]
         /\ \A q \in Runs : q # r => run'[q] = run[q] /\ holder'[q] = holder[q]
         /\ run'[r].day = run[r].day /\ run'[r].started = run[r].started
         /\ \/ holder[r] = c /\ holder'[r] = NoClient /\ run'[r].state = "ended"
            \/ holder[r] # c /\ run'[r] = run[r] /\ holder'[r] = holder[r]
<1>1. CASE holder[r] = c
  <2> DEFINE e == [run[r] EXCEPT !.state = "ended"]
  <2>1. e \in RunRecord /\ e.state = "ended" /\ e.day = run[r].day
        /\ e.started = run[r].started
    BY DEF RunRecord, RunState
  <2>2. run' = [run EXCEPT ![r] = e] /\ holder' = [holder EXCEPT ![r] = NoClient]
    BY <1>1 DEF EndRun
  <2> HIDE DEF e
  <2> QED BY <1>1, <2>1, <2>2
<1>2. CASE holder[r] # c
  BY <1>2 DEF EndRun
<1> QED BY <1>1, <1>2

\* The initial state has the types.
LEMMA InitType ==
  ASSUME Init PROVE TypeOK
<1>1. 1 \in Days
  BY Constants DEF Days
<1>2. client \in [Clients -> ClientRecord]
  BY IdleType DEF Init
<1> QED BY <1>1, <1>2, TypeForm DEF Init, RunRecord, RunState

\* ReserveEffect adds the reservation to the counters or leaves them alone.
LEMMA ReserveMoves ==
  ASSUME TypeOK, NEW r \in Runs, NEW d \in Days, NEW o \in {"ok", "existing", "refused"},
         ReserveEffect(r, d, o)
  PROVE  /\ used' \in [Days -> [Scopes -> Int]] /\ rate' \subseteq Runs /\ keys' \subseteq Runs
         /\ o = "ok" => /\ keys' = keys \cup {r}
                        /\ \A e \in Days : e # d => used'[e] = used[e]
                        /\ \A s \in Scopes : used'[d][s] =
                             IF s \in ScopesOf(r) THEN used[d][s] + Reserved ELSE used[d][s]
         /\ o # "ok" => keys' = keys /\ used' = used
<1>1. CASE o = "ok"
  <2>1. Add(r, d, Reserved) /\ rate' = rate \cup {r} /\ keys' = keys \cup {r}
    BY <1>1 DEF ReserveEffect
  <2>2. used \in [Days -> [Scopes -> Int]] /\ Reserved \in Int
    BY Constants, TypeForm
  <2>3. /\ used' \in [Days -> [Scopes -> Int]]
        /\ \A e \in Days : e # d => used'[e] = used[e]
        /\ \A s \in Scopes : used'[d][s] =
             IF s \in ScopesOf(r) THEN used[d][s] + Reserved ELSE used[d][s]
    BY <2>1, <2>2, AddType
  <2> QED BY <1>1, <2>1, <2>3, TypeForm
<1>2. CASE o # "ok"
  BY <1>2, TypeForm DEF ReserveEffect
<1> QED BY <1>1, <1>2

\* What the reservation script answers, and when it admits.
LEMMA ReserveAnswers ==
  ASSUME TypeOK, NEW r \in Runs, NEW d \in Days
  PROVE  /\ ReserveOutcome(r, d) \in {"ok", "existing", "refused"}
         /\ ReserveOutcome(r, d) = "existing" => r \in keys
         /\ ReserveOutcome(r, d) = "ok" =>
              r \notin keys /\ \A s \in ScopesOf(r) : used[d][s] + Reserved <= DailyLimit[s]
<1>1. switch \in {"on", "off"}
  BY TypeForm
<1>2. CASE switch = "off"
  BY <1>2 DEF ReserveOutcome
<1>3. CASE switch = "on" /\ r \in keys
  BY <1>3 DEF ReserveOutcome
<1>4. CASE switch = "on" /\ r \notin keys
  BY <1>4 DEF ReserveOutcome
<1> QED BY <1>1, <1>2, <1>3, <1>4

\* Every step of the quota keeps the types.
LEMMA TypeStep ==
  ASSUME TypeOK, [Next]_vars
  PROVE  TypeOK'
<1> USE TypeForm
<1> DEFINE T == /\ used' \in [Days -> [Scopes -> Int]]
                /\ slots' \subseteq Runs /\ rate' \subseteq Runs /\ keys' \subseteq Runs
                /\ switch' \in {"on", "off"} /\ today' \in Days
                /\ run' \in [Runs -> RunRecord]
                /\ holder' \in [Runs -> Clients \cup {NoClient}]
                /\ client' \in [Clients -> ClientRecord]
                /\ spent' \in [Runs -> Nat \cup {-1}]
<1> SUFFICES T
  BY DEF TypeOK, RunRecord, ClientRecord
<1>a. \A c \in Clients : /\ client[c] \in ClientRecord /\ client[c].run \in Runs
                         /\ client[c].day \in Days /\ client[c].pc \in ClientPC
                         /\ client[c].end \in {"no", "yes"}
  BY DEF ClientRecord
<1>b. \A r \in Runs : /\ run[r] \in RunRecord /\ run[r].day \in Days
                      /\ run[r].state \in RunState /\ run[r].started \in {"no", "yes"}
  BY DEF RunRecord
<1>d. {"none", "asked", "queued", "running", "ended"} = RunState
  BY DEF RunState
<1>e. {"idle", "create", "reserve", "slot", "claim", "start", "model", "drop",
       "check", "undo", "delete"} = ClientPC
  BY DEF ClientPC
<1>1. CASE UNCHANGED vars
  BY <1>1 DEF vars
<1>2. ASSUME NEW c \in Clients, ClientNext(c) PROVE T
  <2> DEFINE r == client[c].run
  <2>1. ASSUME NEW q \in Runs, Request(c, q) PROVE T
    <3> DEFINE o == ReserveOutcome(q, today)
    <3>1. o \in {"ok", "existing", "refused"} /\ ReserveEffect(q, today, o)
      BY <2>1, ReserveAnswers DEF Request
    <3>2. used' \in [Days -> [Scopes -> Int]] /\ rate' \subseteq Runs /\ keys' \subseteq Runs
      <4> HIDE DEF o
      <4> QED BY <3>1, ReserveMoves
    <3>3. client' \in [Clients -> ClientRecord]
      BY <2>1, <1>e DEF Request, ClientRecord
    <3>4. run' \in [Runs -> RunRecord]
      BY <2>1, <1>b, <1>d, RunMoves DEF Request
    <3> QED BY <2>1, <3>2, <3>3, <3>4 DEF Request
  <2>2. CASE CreateRun(c)
    <3>1. client' \in [Clients -> ClientRecord]
      BY <2>2, <1>a, ClientMoves DEF CreateRun
    <3>2. run' \in [Runs -> RunRecord]
      BY <2>2, <1>a, <1>d, RunMoves DEF CreateRun
    <3> QED BY <2>2, <3>1, <3>2 DEF CreateRun
  <2>3. ASSUME NEW q \in Runs, CancelQueued(c, q) PROVE T
    <3>1. client' \in [Clients -> ClientRecord]
      BY <2>3, <1>b, ClientMoves DEF CancelQueued
    <3> QED BY <2>3, <3>1, <1>b, <1>d, RunMoves DEF CancelQueued
  <2>4. ASSUME NEW q \in Runs, Lease(c, q) PROVE T
    <3>1. client' \in [Clients -> ClientRecord]
      BY <2>4, <1>b, <1>e DEF Lease, ClientRecord
    <3> QED BY <2>4, <3>1 DEF Lease
  <2>5. CASE Reserve(c)
    <3> DEFINE o == ReserveOutcome(r, client[c].day)
    <3>1. o \in {"ok", "existing", "refused"} /\ ReserveEffect(r, client[c].day, o)
      BY <2>5, <1>a, ReserveAnswers DEF Reserve
    <3>2. used' \in [Days -> [Scopes -> Int]] /\ rate' \subseteq Runs /\ keys' \subseteq Runs
      <4> HIDE DEF o
      <4> QED BY <1>a, <3>1, ReserveMoves
    <3>3. client' \in [Clients -> ClientRecord]
      BY <2>5, <1>e, ClientMoves DEF Reserve
    <3>4. run' \in [Runs -> RunRecord] /\ holder' \in [Runs -> Clients \cup {NoClient}]
      BY <2>5, <1>a, EndRunMoves DEF Reserve
    <3> QED BY <2>5, <3>2, <3>3, <3>4 DEF Reserve
  <2>6. CASE AcquireConcurrency(c)
    <3>1. client' \in [Clients -> ClientRecord]
      BY <2>6, <1>e, ClientMoves DEF AcquireConcurrency
    <3> QED BY <2>6, <1>a, <3>1 DEF AcquireConcurrency
  <2>7. CASE ReleaseAfterError(c)
    <3>1. client' \in [Clients -> ClientRecord]
      BY <2>7, ClientMoves DEF ReleaseAfterError
    <3> QED BY <2>7, <1>a, <3>1 DEF ReleaseAfterError
  <2>8. CASE ClaimRun(c)
    <3>1. client' \in [Clients -> ClientRecord]
      BY <2>8, <1>a, <1>e, ClientMoves DEF ClaimRun
    <3>2. run' \in [Runs -> RunRecord]
      BY <2>8, <1>a, <1>d, RunMoves DEF ClaimRun
    <3> QED BY <2>8, <3>1, <3>2 DEF ClaimRun
  <2>9. CASE Start(c)
    <3>1. client' \in [Clients -> ClientRecord]
      BY <2>9, <1>a, <1>e, ClientMoves DEF Start
    <3>2. run' \in [Runs -> RunRecord]
      BY <2>9, <1>a, RunMoves DEF Start
    <3> QED BY <2>9, <3>1, <3>2 DEF Start
  <2>10. CASE Settle(c)
    <3>1. client' \in [Clients -> ClientRecord]
      BY <2>10, <1>e, ClientMoves DEF Settle
    <3>2. PICK n \in Usage : Add(r, client[c].day, n - Reserved) /\ spent' = [spent EXCEPT ![r] = n]
      BY <2>10 DEF Settle
    <3>3. n \in Nat /\ n - Reserved \in Int
      BY Constants
    <3>4. used' \in [Days -> [Scopes -> Int]]
      BY <1>a, <3>2, <3>3, AddType
    <3>5. spent' \in [Runs -> Nat \cup {-1}]
      BY <1>a, <3>2, <3>3
    <3> QED BY <2>10, <3>1, <3>4, <3>5 DEF Settle
  <2>11. CASE DropKey(c)
    <3>1. client' \in [Clients -> ClientRecord]
      BY <2>11, ClientMoves DEF DropKey
    <3>2. run' \in [Runs -> RunRecord] /\ holder' \in [Runs -> Clients \cup {NoClient}]
      BY <2>11, <1>a, EndRunMoves DEF DropKey
    <3> QED BY <2>11, <3>1, <3>2 DEF DropKey
  <2>12. CASE Abandon(c)
    <3>1. client' \in [Clients -> ClientRecord]
      BY <2>12, ClientMoves DEF Abandon
    <3>2. run' \in [Runs -> RunRecord] /\ holder' \in [Runs -> Clients \cup {NoClient}]
      BY <2>12, <1>a, EndRunMoves DEF Abandon
    <3> QED BY <2>12, <3>1, <3>2 DEF Abandon
  <2>13. CASE CheckKey(c)
    <3>1. client' \in [Clients -> ClientRecord]
      BY <2>13, <1>e, ClientMoves DEF CheckKey
    <3>2. run' \in [Runs -> RunRecord] /\ holder' \in [Runs -> Clients \cup {NoClient}]
      BY <2>13, <1>a, EndRunMoves DEF CheckKey
    <3> QED BY <2>13, <3>1, <3>2 DEF CheckKey
  <2>14. CASE UndoReservation(c)
    <3>1. client' \in [Clients -> ClientRecord]
      BY <2>14, <1>e, ClientMoves DEF UndoReservation
    <3>2. -Reserved \in Int
      BY Constants
    <3>3. used' \in [Days -> [Scopes -> Int]]
      BY <2>14, <1>a, <3>2, AddType DEF UndoReservation
    <3> QED BY <2>14, <3>1, <3>3 DEF UndoReservation
  <2>15. CASE DeleteKey(c)
    <3>1. client' \in [Clients -> ClientRecord]
      BY <2>15, ClientMoves DEF DeleteKey
    <3>2. run' \in [Runs -> RunRecord] /\ holder' \in [Runs -> Clients \cup {NoClient}]
      BY <2>15, <1>a, EndRunMoves DEF DeleteKey
    <3> QED BY <2>15, <3>1, <3>2 DEF DeleteKey
  <2>16. CASE Crash(c)
    <3>1. client' \in [Clients -> ClientRecord]
      BY <2>16, ClientMoves DEF Crash
    <3> QED BY <2>16, <3>1 DEF Crash
  <2> HIDE DEF T
  <2> QED BY <1>2, <2>1, <2>2, <2>3, <2>4, <2>5, <2>6, <2>7, <2>8, <2>9, <2>10, <2>11,
             <2>12, <2>13, <2>14, <2>15, <2>16 DEF ClientNext
<1>3. ASSUME NEW r \in Runs, LeaseExpires(r) \/ SlotExpires(r) \/ RateExpires(r) PROVE T
  <2>1. CASE LeaseExpires(r)
    BY <2>1, <1>b, <1>d, RunMoves DEF LeaseExpires
  <2>2. CASE SlotExpires(r)
    BY <2>2 DEF SlotExpires
  <2>3. CASE RateExpires(r)
    BY <2>3 DEF RateExpires
  <2> QED BY <1>3, <2>1, <2>2, <2>3
<1>4. CASE NewDay
  <2>1. today' \in Days
    BY <1>4, Constants DEF NewDay, Days
  <2> QED BY <1>4, <2>1 DEF NewDay
<1>5. CASE Toggle
  BY <1>5 DEF Toggle
<1> HIDE DEF T
<1> QED BY <1>1, <1>2, <1>3, <1>4, <1>5 DEF Next

-----------------------------------------------------------------------------
(* Who works on what *)

\* Nobody works in the initial state.
LEMMA InitOwners ==
  ASSUME Init PROVE OwnersInv
<1>1. TypeOK
  BY InitType
<1>2. \A c \in Clients : client[c].pc = "idle"
  BY IdleType DEF Init
<1>3. PhasesOK
  BY <1>2 DEF Init, PhasesOK, RowOK, PhaseOK, OnePerRun, BeforeModel
<1>4. LeasesOK
  BY <1>2 DEF Init, LeasesOK, LeaseOK, Alone, BeforeModel, InRollback, InSlot
<1>5. KeysOK
  BY <1>2 DEF Init, KeysOK, KeyOK
<1> QED BY <1>1, <1>3, <1>4, <1>5 DEF OwnersInv

\* While every task keeps its lease, nobody works on a run that is not asked for
\* yet or that can be leased.
LEMMA NobodyWorks ==
  ASSUME TypeOK, PhasesOK, LeasesOK, NEW r \in Runs,
         \/ run[r].state = "none"
         \/ run[r].state \in {"queued", "running"} /\ holder[r] = NoClient,
         NEW d \in Clients, client[d].run = r
  PROVE  client[d].pc = "idle"
<1>1. client[d].pc \in ClientPC /\ d # NoClient /\ holder[r] \in Clients \cup {NoClient}
  BY TypeForm, Constants DEF ClientRecord
<1>2. client[d].pc # "create"
  BY DEF PhasesOK, PhaseOK, RowOK
<1>3. client[d].pc \notin BeforeModel \cup {"model", "drop"}
  BY <1>1 DEF LeasesOK, LeaseOK
<1>4. client[d].pc \notin InRollback
  BY <1>1 DEF LeasesOK, LeaseOK
<1> QED BY <1>1, <1>2, <1>3, <1>4 DEF ClientPC, BeforeModel, InRollback

\* Every step of a client keeps the layers.
LEMMA ClientOwners ==
  ASSUME OwnersInv, TypeOK', NEW c \in Clients, ClientNext(c)
  PROVE  OwnersInv'
<1> DEFINE P == PhasesOK'
           L == "stall" \notin Faults => LeasesOK'
           K == Faults = {} => KeysOK'
           Others == \A d \in Clients : d # c => client'[d] = client[d]
<1> SUFFICES P /\ L /\ K
  BY DEF OwnersInv
<1> DEFINE r == client[c].run
<1>a. /\ client \in [Clients -> ClientRecord] /\ run \in [Runs -> RunRecord]
      /\ holder \in [Runs -> Clients \cup {NoClient}] /\ spent \in [Runs -> Nat \cup {-1}]
      /\ today \in Days /\ NoClient \notin Clients
  BY TypeForm, Constants DEF OwnersInv
<1>b. \A d \in Clients : /\ client[d].run \in Runs /\ client[d].day \in Days
                         /\ client[d].pc \in ClientPC /\ client[d].end \in {"no", "yes"}
  BY <1>a DEF ClientRecord
<1>c. \A q \in Runs : run[q].day \in Days /\ run[q].started \in {"no", "yes"}
  BY <1>a DEF RunRecord
<1>d. {"none", "asked", "queued", "running", "ended"} = RunState
  BY DEF RunState
<1>e. {"idle", "create", "reserve", "slot", "claim", "start", "model", "drop",
       "check", "undo", "delete"} = ClientPC
  BY DEF ClientPC
<1>f. PhasesOK /\ ("stall" \notin Faults => LeasesOK) /\ (Faults = {} => KeysOK)
      /\ (Faults = {} => "stall" \notin Faults)
  BY DEF OwnersInv
<1>g. r \in Runs /\ r = client[c].run
  BY <1>b
<1> HIDE DEF r
<1>1. ASSUME NEW q \in Runs, Request(c, q) PROVE P /\ L /\ K
  <2> DEFINE o == ReserveOutcome(q, today)
  <2>1. /\ o \in {"ok", "existing", "refused"} /\ ReserveEffect(q, today, o)
        /\ o = "existing" => q \in keys
        /\ client[c].pc = "idle" /\ run[q].state = "none"
        /\ UNCHANGED <<slots, today, holder, spent>>
    BY <1>1, <1>a, ReserveAnswers DEF Request, OwnersInv
  <2>2. /\ o = "refused" => client' = client
        /\ o # "refused" =>
             /\ Others /\ client'[c].pc = "create" /\ client'[c].run = q
             /\ client'[c].day = today
    BY <1>1, <1>a DEF Request
  <2>3. /\ \A p \in Runs : p # q => run'[p] = run[p]
        /\ run'[q].state = "asked" /\ run'[q].day = today /\ run'[q].started = run[q].started
    <3>1. run' = [run EXCEPT ![q].state = "asked", ![q].day = today]
      BY <1>1 DEF Request
    <3> HIDE DEF o
    <3> QED BY <1>a, <3>1, RunAsked
  <2>4. keys \subseteq keys' /\ keys' \subseteq keys \cup {q}
    <3> HIDE DEF o
    <3> QED BY <1>a, <2>1, ReserveMoves DEF OwnersInv
  <2> HIDE DEF o
  <2>5. P
    BY <1>a, <1>b, <1>f, <1>g, <2>1, <2>2, <2>3 DEF PhasesOK, RowOK, PhaseOK, OnePerRun, BeforeModel
  <2>a. "stall" \notin Faults => \A d \in Clients : client[d].run = q => client[d].pc = "idle"
    BY <1>f, <2>1, NobodyWorks DEF OwnersInv
  <2>6. L
    BY <1>a, <1>b, <1>f, <1>g, <2>1, <2>2, <2>3, <2>a
       DEF LeasesOK, LeaseOK, Alone, PhasesOK, RowOK, BeforeModel, InRollback, InSlot
  <2>7. K
    BY <1>a, <1>b, <1>f, <1>g, <2>1, <2>2, <2>3, <2>4, <2>a DEF KeysOK, KeyOK
  <2> QED BY <2>5, <2>6, <2>7
<1>2. CASE CreateRun(c)
  <2>1. client[c].pc = "create" /\ UNCHANGED <<slots, keys, today, holder, spent>>
    BY <1>2 DEF CreateRun
  <2>2. CASE run' = [run EXCEPT ![r].state = "queued", ![r].day = today] /\ Leave(c)
    <3>1. Others /\ client'[c].pc = "idle"
      BY <1>a, <2>2, ClientMoves
    <3>2. /\ \A p \in Runs : p # r => run'[p] = run[p]
          /\ run'[r].state = "queued" /\ run'[r].day = today
          /\ run'[r].started = run[r].started
      BY <1>a, <1>g, <2>2 DEF RunRecord
    <3>3. P
      BY <1>a, <1>b, <1>f, <1>g, <2>1, <3>1, <3>2
         DEF PhasesOK, RowOK, PhaseOK, OnePerRun, BeforeModel
    <3>4. L
      BY <1>a, <1>b, <1>f, <1>g, <2>1, <3>1, <3>2
         DEF LeasesOK, LeaseOK, Alone, PhasesOK, RowOK, PhaseOK, BeforeModel, InRollback, InSlot
    <3>5. K
      BY <1>a, <1>b, <1>f, <1>g, <2>1, <3>1, <3>2
         DEF KeysOK, KeyOK, LeasesOK, Alone, PhasesOK, PhaseOK
    <3> QED BY <3>3, <3>4, <3>5
  <2>3. CASE Rollback(c, r, client[c].day, "no") /\ UNCHANGED run
    <3>1. Others /\ client'[c].pc = "check" /\ client'[c].run = r
          /\ client'[c].day = client[c].day
      BY <1>a, <1>b, <1>g, <2>3, ClientMoves
    <3>2. P
      BY <1>a, <1>b, <1>f, <1>g, <2>1, <2>3, <3>1
         DEF PhasesOK, RowOK, PhaseOK, OnePerRun, BeforeModel
    <3>3. L
      BY <1>a, <1>b, <1>f, <1>g, <2>1, <2>3, <3>1
         DEF LeasesOK, LeaseOK, Alone, PhasesOK, RowOK, PhaseOK, BeforeModel, InRollback, InSlot
    <3>4. K
      BY <1>a, <1>b, <1>f, <1>g, <2>1, <2>3, <3>1 DEF KeysOK, KeyOK
    <3> QED BY <3>2, <3>3, <3>4
  <2> QED BY <1>2, <1>g, <2>2, <2>3 DEF CreateRun
<1>3. ASSUME NEW q \in Runs, CancelQueued(c, q) PROVE P /\ L /\ K
  <2>1. /\ client[c].pc = "idle" /\ run[q].state \in {"queued", "running"}
        /\ holder[q] = NoClient /\ UNCHANGED <<slots, keys, today, holder, spent>>
    BY <1>3 DEF CancelQueued
  <2>2. /\ Others /\ client'[c].pc = "check" /\ client'[c].run = q
        /\ client'[c].day = run[q].day
    BY <1>3, <1>a, <1>c, ClientMoves DEF CancelQueued
  <2>3. /\ \A p \in Runs : p # q => run'[p] = run[p]
        /\ run'[q].state = "ended" /\ run'[q].day = run[q].day
        /\ run'[q].started = run[q].started
    BY <1>3, <1>a DEF CancelQueued, RunRecord
  <2>4. run[q].started = "no"
    BY <1>c, <1>f, <2>1 DEF PhasesOK, RowOK
  <2>5. "stall" \notin Faults => \A d \in Clients : client[d].run = q => client[d].pc = "idle"
    BY <1>f, <2>1, NobodyWorks DEF OwnersInv
  <2>6. P
    BY <1>a, <1>b, <1>f, <1>g, <2>1, <2>2, <2>3, <2>4, <2>5
       DEF PhasesOK, RowOK, PhaseOK, OnePerRun, BeforeModel
  <2>7. L
    BY <1>a, <1>b, <1>f, <1>g, <2>1, <2>2, <2>3, <2>4, <2>5
       DEF LeasesOK, LeaseOK, Alone, PhasesOK, RowOK, PhaseOK, BeforeModel, InRollback, InSlot
  <2>8. K
    BY <1>a, <1>b, <1>f, <1>g, <2>1, <2>2, <2>3, <2>4, <2>5
       DEF KeysOK, KeyOK
  <2> QED BY <2>6, <2>7, <2>8
<1>4. ASSUME NEW q \in Runs, Lease(c, q) PROVE P /\ L /\ K
  <2>1. /\ client[c].pc = "idle" /\ run[q].state \in {"queued", "running"}
        /\ holder[q] = NoClient /\ UNCHANGED <<slots, keys, today, run, spent>>
        /\ holder' = [holder EXCEPT ![q] = c]
    BY <1>4 DEF Lease
  <2>2. /\ Others /\ client'[c].pc = "reserve" /\ client'[c].run = q
        /\ client'[c].day = run[q].day
    BY <1>4, <1>a DEF Lease
  <2>3. run[q].started = "no"
    BY <1>c, <1>f, <2>1 DEF PhasesOK, RowOK
  <2>4. "stall" \notin Faults => \A d \in Clients : client[d].run = q => client[d].pc = "idle"
    BY <1>f, <2>1, NobodyWorks DEF OwnersInv
  <2>5. P
    BY <1>a, <1>b, <1>f, <1>g, <2>1, <2>2, <2>3, <2>4
       DEF PhasesOK, RowOK, PhaseOK, OnePerRun, BeforeModel
  <2>6. L
    BY <1>a, <1>b, <1>f, <1>g, <2>1, <2>2, <2>3, <2>4
       DEF LeasesOK, LeaseOK, Alone, PhasesOK, RowOK, PhaseOK, BeforeModel, InRollback, InSlot
  <2>7. K
    BY <1>a, <1>b, <1>f, <1>g, <2>1, <2>2, <2>3, <2>4
       DEF KeysOK, KeyOK
  <2> QED BY <2>5, <2>6, <2>7
<1>5. CASE Reserve(c)
  <2> DEFINE o == ReserveOutcome(r, client[c].day)
  <2>1. /\ o \in {"ok", "existing", "refused"} /\ ReserveEffect(r, client[c].day, o)
        /\ o = "existing" => r \in keys
        /\ client[c].pc = "reserve" /\ UNCHANGED <<slots, today, spent>>
    BY <1>5, <1>b, <1>g, ReserveAnswers DEF Reserve, OwnersInv
  <2>2. /\ keys \subseteq keys' /\ keys' \subseteq keys \cup {r}
        /\ o # "refused" => r \in keys'
    <3> HIDE DEF o
    <3> QED BY <1>b, <1>g, <2>1, ReserveMoves DEF OwnersInv
  <2>a. "stall" \notin Faults => run[r].state # "none"
    BY <1>a, <1>f, <1>g, <2>1 DEF LeasesOK, LeaseOK, PhasesOK, RowOK, BeforeModel
  <2>3. CASE o = "refused"
    <3>1. EndRun(c, r) /\ Leave(c)
      BY <1>5, <1>g, <2>3 DEF Reserve
    <3>2. Others /\ client'[c].pc = "idle"
      BY <1>a, <3>1, ClientMoves
    <3>3. /\ \A q \in Runs : q # r => run'[q] = run[q] /\ holder'[q] = holder[q]
          /\ run'[r].day = run[r].day /\ run'[r].started = run[r].started
          /\ \/ holder[r] = c /\ holder'[r] = NoClient /\ run'[r].state = "ended"
             \/ holder[r] # c /\ run'[r] = run[r] /\ holder'[r] = holder[r]
      BY <1>a, <1>g, <3>1, EndRunMoves
    <3> HIDE DEF o
    <3>4. P
      BY <1>a, <1>b, <1>f, <1>g, <2>1, <2>2, <3>2, <3>3
         DEF PhasesOK, RowOK, PhaseOK, OnePerRun, BeforeModel
    <3>5. L
      BY <1>a, <1>b, <1>f, <1>g, <2>1, <2>2, <3>2, <3>3
         DEF LeasesOK, LeaseOK, Alone, PhasesOK, RowOK, PhaseOK, BeforeModel, InRollback, InSlot
    <3>6. K
      BY <1>a, <1>b, <1>f, <1>g, <2>1, <2>2, <3>2, <3>3, <2>a
         DEF KeysOK, KeyOK
    <3> QED BY <3>4, <3>5, <3>6
  <2>4. CASE o # "refused"
    <3>1. Goto(c, "slot") /\ UNCHANGED <<run, holder>>
      BY <1>5, <1>g, <2>4 DEF Reserve
    <3>2. /\ Others /\ client'[c].pc = "slot" /\ client'[c].run = r
          /\ client'[c].day = client[c].day
      BY <1>a, <1>e, <1>g, <3>1, ClientMoves
    <3> HIDE DEF o
    <3>3. P
      BY <1>a, <1>b, <1>f, <1>g, <2>1, <2>2, <2>4, <3>1, <3>2
         DEF PhasesOK, RowOK, PhaseOK, OnePerRun, BeforeModel
    <3>4. L
      BY <1>a, <1>b, <1>f, <1>g, <2>1, <2>2, <2>4, <3>1, <3>2
         DEF LeasesOK, LeaseOK, Alone, PhasesOK, RowOK, PhaseOK, BeforeModel, InRollback, InSlot
    <3>5. K
      BY <1>a, <1>b, <1>f, <1>g, <2>1, <2>2, <2>4, <3>1, <3>2, <2>a
         DEF KeysOK, KeyOK
    <3> QED BY <3>3, <3>4, <3>5
  <2> QED BY <2>3, <2>4
<1>6. CASE AcquireConcurrency(c)
  <2>1. client[c].pc = "slot" /\ UNCHANGED <<keys, today, run, spent>>
    BY <1>6 DEF AcquireConcurrency
  <2>2. CASE HasSlot(r)
    <3>1. slots' = slots \cup {r} /\ Goto(c, "claim") /\ UNCHANGED holder
      BY <1>6, <1>g, <2>2 DEF AcquireConcurrency
    <3>2. /\ Others /\ client'[c].pc = "claim" /\ client'[c].run = r
          /\ client'[c].day = client[c].day
      BY <1>a, <1>e, <1>g, <3>1, ClientMoves
    <3>3. P
      BY <1>a, <1>b, <1>f, <1>g, <2>1, <3>1, <3>2
         DEF PhasesOK, RowOK, PhaseOK, OnePerRun, BeforeModel
    <3>4. L
      BY <1>a, <1>b, <1>f, <1>g, <2>1, <3>1, <3>2
         DEF LeasesOK, LeaseOK, Alone, PhasesOK, RowOK, PhaseOK, BeforeModel, InRollback, InSlot
    <3>5. K
      BY <1>a, <1>b, <1>f, <1>g, <2>1, <3>1, <3>2
         DEF KeysOK, KeyOK
    <3> QED BY <3>3, <3>4, <3>5
  <2>3. CASE ~HasSlot(r)
    <3>1. /\ holder' = [holder EXCEPT ![r] = IF @ = c THEN NoClient ELSE @]
          /\ Leave(c) /\ UNCHANGED slots
      BY <1>6, <1>g, <2>3 DEF AcquireConcurrency
    <3>2. Others /\ client'[c].pc = "idle"
      BY <1>a, <3>1, ClientMoves
    <3>3. P
      BY <1>a, <1>b, <1>f, <1>g, <2>1, <3>1, <3>2
         DEF PhasesOK, RowOK, PhaseOK, OnePerRun, BeforeModel
    <3>4. L
      BY <1>a, <1>b, <1>f, <1>g, <2>1, <3>1, <3>2
         DEF LeasesOK, LeaseOK, Alone, PhasesOK, RowOK, PhaseOK, BeforeModel, InRollback, InSlot
    <3>5. K
      BY <1>a, <1>b, <1>f, <1>g, <2>1, <3>1, <3>2
         DEF KeysOK, KeyOK
    <3> QED BY <3>3, <3>4, <3>5
  <2> QED BY <2>2, <2>3
<1>7. CASE ReleaseAfterError(c)
  <2>1. /\ client[c].pc = "slot" /\ UNCHANGED <<keys, today, run, spent>>
        /\ holder' = [holder EXCEPT ![r] = IF @ = c THEN NoClient ELSE @]
        /\ slots' = slots \ {r}
    BY <1>7, <1>g DEF ReleaseAfterError
  <2>2. Others /\ client'[c].pc = "idle"
    BY <1>7, <1>a, ClientMoves DEF ReleaseAfterError
  <2>3. P
    BY <1>a, <1>b, <1>f, <1>g, <2>1, <2>2
       DEF PhasesOK, RowOK, PhaseOK, OnePerRun, BeforeModel
  <2>4. L
    BY <1>a, <1>b, <1>f, <1>g, <2>1, <2>2
       DEF LeasesOK, LeaseOK, Alone, PhasesOK, RowOK, PhaseOK, BeforeModel, InRollback, InSlot
  <2>5. K
    BY <1>a, <1>b, <1>f, <1>g, <2>1, <2>2
       DEF KeysOK, KeyOK
  <2> QED BY <2>3, <2>4, <2>5
<1>8. CASE ClaimRun(c)
  <2>1. client[c].pc = "claim" /\ UNCHANGED <<slots, keys, today, holder, spent>>
    BY <1>8 DEF ClaimRun
  <2>2. CASE /\ run[r].state = "queued"
             /\ run' = [run EXCEPT ![r].state = "running"]
             /\ Goto(c, "start")
    <3>1. /\ Others /\ client'[c].pc = "start" /\ client'[c].run = r
          /\ client'[c].day = client[c].day
      BY <1>a, <1>e, <1>g, <2>2, ClientMoves
    <3>2. /\ \A p \in Runs : p # r => run'[p] = run[p]
          /\ run'[r].state = "running" /\ run'[r].day = run[r].day
          /\ run'[r].started = run[r].started
      BY <1>a, <1>g, <2>2 DEF RunRecord
    <3>3. P
      BY <1>a, <1>b, <1>f, <1>g, <2>1, <2>2, <3>1, <3>2
         DEF PhasesOK, RowOK, PhaseOK, OnePerRun, BeforeModel
    <3>4. L
      BY <1>a, <1>b, <1>f, <1>g, <2>1, <2>2, <3>1, <3>2
         DEF LeasesOK, LeaseOK, Alone, PhasesOK, RowOK, PhaseOK, BeforeModel, InRollback, InSlot
    <3>5. K
      BY <1>a, <1>b, <1>f, <1>g, <2>1, <2>2, <3>1, <3>2
         DEF KeysOK, KeyOK
    <3> QED BY <3>3, <3>4, <3>5
  <2>3. CASE Rollback(c, r, client[c].day, "no") /\ UNCHANGED run
    <3>1. /\ Others /\ client'[c].pc = "check" /\ client'[c].run = r
          /\ client'[c].day = client[c].day
      BY <1>a, <1>b, <1>g, <2>3, ClientMoves
    <3>2. P
      BY <1>a, <1>b, <1>f, <1>g, <2>1, <2>3, <3>1
         DEF PhasesOK, RowOK, PhaseOK, OnePerRun, BeforeModel
    <3>3. L
      BY <1>a, <1>b, <1>f, <1>g, <2>1, <2>3, <3>1
         DEF LeasesOK, LeaseOK, Alone, PhasesOK, RowOK, PhaseOK, BeforeModel, InRollback, InSlot
    <3>4. K
      BY <1>a, <1>b, <1>f, <1>g, <2>1, <2>3, <3>1
         DEF KeysOK, KeyOK
    <3> QED BY <3>2, <3>3, <3>4
  <2> QED BY <1>8, <1>g, <2>2, <2>3 DEF ClaimRun
<1>9. CASE Start(c)
  <2>1. client[c].pc = "start" /\ UNCHANGED <<slots, keys, today, holder, spent>>
    BY <1>9 DEF Start
  <2>2. CASE /\ holder[r] = c
             /\ run' = [run EXCEPT ![r].started = "yes"]
             /\ Goto(c, "model")
    <3>1. /\ Others /\ client'[c].pc = "model" /\ client'[c].run = r
          /\ client'[c].day = client[c].day
      BY <1>a, <1>e, <1>g, <2>2, ClientMoves
    <3>2. /\ \A p \in Runs : p # r => run'[p] = run[p]
          /\ run'[r].state = run[r].state /\ run'[r].day = run[r].day
          /\ run'[r].started = "yes"
      BY <1>a, <1>g, <2>2 DEF RunRecord
    <3>3. run[r].started = "no"
      BY <1>f, <1>g, <2>1, <2>2 DEF PhasesOK, PhaseOK, BeforeModel
    <3>4. spent[r] = -1
      BY <1>a, <1>f, <1>g, <3>3 DEF PhasesOK, RowOK
    <3>5. P
      BY <1>a, <1>b, <1>f, <1>g, <2>1, <2>2, <3>1, <3>2, <3>3, <3>4
         DEF PhasesOK, RowOK, PhaseOK, OnePerRun, BeforeModel
    <3>6. L
      BY <1>a, <1>b, <1>f, <1>g, <2>1, <2>2, <3>1, <3>2, <3>3, <3>4
         DEF LeasesOK, LeaseOK, Alone, PhasesOK, RowOK, PhaseOK, BeforeModel, InRollback, InSlot
    <3>7. K
      BY <1>a, <1>b, <1>f, <1>g, <2>1, <2>2, <3>1, <3>2, <3>3, <3>4
         DEF KeysOK, KeyOK
    <3> QED BY <3>5, <3>6, <3>7
  <2>3. CASE \E end \in {"no", "yes"} : Rollback(c, r, client[c].day, end) /\ UNCHANGED run
    <3>1. /\ Others /\ client'[c].pc = "check" /\ client'[c].run = r
          /\ client'[c].day = client[c].day
      BY <1>a, <1>b, <1>g, <2>3, ClientMoves
    <3>2. P
      BY <1>a, <1>b, <1>f, <1>g, <2>1, <2>3, <3>1
         DEF PhasesOK, RowOK, PhaseOK, OnePerRun, BeforeModel
    <3>3. L
      BY <1>a, <1>b, <1>f, <1>g, <2>1, <2>3, <3>1
         DEF LeasesOK, LeaseOK, Alone, PhasesOK, RowOK, PhaseOK, BeforeModel, InRollback, InSlot
    <3>4. K
      BY <1>a, <1>b, <1>f, <1>g, <2>1, <2>3, <3>1
         DEF KeysOK, KeyOK
    <3> QED BY <3>2, <3>3, <3>4
  <2> QED BY <1>9, <1>g, <2>2, <2>3 DEF Start
<1>10. CASE Settle(c)
  <2>1. /\ client[c].pc = "model" /\ UNCHANGED <<keys, today, run, holder>>
        /\ slots' = slots \ {r}
    BY <1>10, <1>g DEF Settle
  <2>2. PICK n \in Nat : spent' = [spent EXCEPT ![r] = n]
    BY <1>10, <1>g, Constants DEF Settle
  <2>3. /\ Others /\ client'[c].pc = "drop" /\ client'[c].run = r
        /\ client'[c].day = client[c].day
    BY <1>10, <1>a, <1>e, <1>g, ClientMoves DEF Settle
  <2>4. spent'[r] >= 0 /\ \A q \in Runs : q # r => spent'[q] = spent[q]
    BY <1>a, <1>g, <2>2
  <2>5. P
    BY <1>a, <1>b, <1>f, <1>g, <2>1, <2>3, <2>4
       DEF PhasesOK, RowOK, PhaseOK, OnePerRun, BeforeModel
  <2>6. L
    BY <1>a, <1>b, <1>f, <1>g, <2>1, <2>3, <2>4
       DEF LeasesOK, LeaseOK, Alone, PhasesOK, RowOK, PhaseOK, BeforeModel, InRollback, InSlot
  <2>7. K
    BY <1>a, <1>b, <1>f, <1>g, <2>1, <2>3, <2>4
       DEF KeysOK, KeyOK
  <2> QED BY <2>5, <2>6, <2>7
<1>11. CASE DropKey(c)
  <2>1. /\ client[c].pc = "drop" /\ UNCHANGED <<slots, today, spent>>
        /\ keys' = keys \ {r}
    BY <1>11, <1>g DEF DropKey
  <2>2. Others /\ client'[c].pc = "idle"
    BY <1>11, <1>a, ClientMoves DEF DropKey
  <2>3. /\ \A q \in Runs : q # r => run'[q] = run[q] /\ holder'[q] = holder[q]
        /\ run'[r].day = run[r].day /\ run'[r].started = run[r].started
        /\ \/ holder[r] = c /\ holder'[r] = NoClient /\ run'[r].state = "ended"
           \/ holder[r] # c /\ run'[r] = run[r] /\ holder'[r] = holder[r]
    BY <1>11, <1>a, <1>g, EndRunMoves DEF DropKey
  <2>4. P
    BY <1>a, <1>b, <1>f, <1>g, <2>1, <2>2, <2>3
       DEF PhasesOK, RowOK, PhaseOK, OnePerRun, BeforeModel
  <2>5. L
    BY <1>a, <1>b, <1>f, <1>g, <2>1, <2>2, <2>3
       DEF LeasesOK, LeaseOK, Alone, PhasesOK, RowOK, PhaseOK, BeforeModel, InRollback, InSlot
  <2>6. K
    BY <1>a, <1>b, <1>f, <1>g, <2>1, <2>2, <2>3
       DEF KeysOK, KeyOK, LeasesOK, Alone
  <2> QED BY <2>4, <2>5, <2>6
<1>12. CASE Abandon(c)
  <2>1. /\ client[c].pc \in {"start", "model"} /\ UNCHANGED <<keys, today, spent>>
        /\ slots' = slots \ {r}
    BY <1>12, <1>g DEF Abandon
  <2>2. Others /\ client'[c].pc = "idle"
    BY <1>12, <1>a, ClientMoves DEF Abandon
  <2>3. /\ \A q \in Runs : q # r => run'[q] = run[q] /\ holder'[q] = holder[q]
        /\ run'[r].day = run[r].day /\ run'[r].started = run[r].started
        /\ \/ holder[r] = c /\ holder'[r] = NoClient /\ run'[r].state = "ended"
           \/ holder[r] # c /\ run'[r] = run[r] /\ holder'[r] = holder[r]
    BY <1>12, <1>a, <1>g, EndRunMoves DEF Abandon
  <2>4. P
    BY <1>a, <1>b, <1>f, <1>g, <2>1, <2>2, <2>3
       DEF PhasesOK, RowOK, PhaseOK, OnePerRun, BeforeModel
  <2>5. L
    BY <1>a, <1>b, <1>f, <1>g, <2>1, <2>2, <2>3
       DEF LeasesOK, LeaseOK, Alone, PhasesOK, RowOK, PhaseOK, BeforeModel, InRollback, InSlot
  <2>6. K
    BY <1>a, <1>b, <1>f, <1>g, <2>1, <2>2, <2>3
       DEF KeysOK, KeyOK, LeasesOK, Alone
  <2> QED BY <2>4, <2>5, <2>6
<1>13. CASE CheckKey(c)
  <2>1. client[c].pc = "check" /\ UNCHANGED <<slots, keys, today, spent>>
    BY <1>13 DEF CheckKey
  <2>2. CASE r \in keys
    <3>1. Goto(c, "undo") /\ UNCHANGED <<run, holder>>
      BY <1>13, <1>g, <2>2 DEF CheckKey
    <3>2. /\ Others /\ client'[c].pc = "undo" /\ client'[c].run = r
          /\ client'[c].day = client[c].day
      BY <1>a, <1>e, <1>g, <3>1, ClientMoves
    <3>3. P
      BY <1>a, <1>b, <1>f, <1>g, <2>1, <2>2, <3>1, <3>2
         DEF PhasesOK, RowOK, PhaseOK, OnePerRun, BeforeModel
    <3>4. L
      BY <1>a, <1>b, <1>f, <1>g, <2>1, <2>2, <3>1, <3>2
         DEF LeasesOK, LeaseOK, Alone, PhasesOK, RowOK, PhaseOK, BeforeModel, InRollback, InSlot
    <3>5. K
      BY <1>a, <1>b, <1>f, <1>g, <2>1, <2>2, <3>1, <3>2
         DEF KeysOK, KeyOK
    <3> QED BY <3>3, <3>4, <3>5
  <2>3. CASE r \notin keys
    <3>1. Others /\ client'[c].pc = "idle"
      BY <1>13, <1>a, <1>g, <2>3, ClientMoves DEF CheckKey
    <3>2. EndRun(c, r) \/ UNCHANGED <<run, holder>>
      BY <1>13, <1>g, <2>3 DEF CheckKey
    <3>3. /\ \A q \in Runs : q # r => run'[q] = run[q] /\ holder'[q] = holder[q]
          /\ run'[r].day = run[r].day /\ run'[r].started = run[r].started
          /\ \/ holder[r] = c /\ holder'[r] = NoClient /\ run'[r].state = "ended"
             \/ run'[r] = run[r] /\ holder'[r] = holder[r]
      BY <1>a, <1>g, <3>2, EndRunMoves
    <3>4. P
      BY <1>a, <1>b, <1>f, <1>g, <2>1, <3>1, <3>3
         DEF PhasesOK, RowOK, PhaseOK, OnePerRun, BeforeModel
    <3>5. L
      BY <1>a, <1>b, <1>f, <1>g, <2>1, <3>1, <3>3
         DEF LeasesOK, LeaseOK, Alone, PhasesOK, RowOK, PhaseOK, BeforeModel, InRollback, InSlot
    <3>6. K
      BY <1>a, <1>b, <1>f, <1>g, <2>1, <3>1, <3>3
         DEF KeysOK, KeyOK
    <3> QED BY <3>4, <3>5, <3>6
  <2> QED BY <2>2, <2>3
<1>14. CASE UndoReservation(c)
  <2>1. /\ client[c].pc = "undo" /\ UNCHANGED <<keys, today, run, holder, spent>>
        /\ slots' = slots \ {r}
    BY <1>14, <1>g DEF UndoReservation
  <2>2. /\ Others /\ client'[c].pc = "delete" /\ client'[c].run = r
        /\ client'[c].day = client[c].day
    BY <1>14, <1>a, <1>e, <1>g, ClientMoves DEF UndoReservation
  <2>3. P
    BY <1>a, <1>b, <1>f, <1>g, <2>1, <2>2
       DEF PhasesOK, RowOK, PhaseOK, OnePerRun, BeforeModel
  <2>4. L
    BY <1>a, <1>b, <1>f, <1>g, <2>1, <2>2
       DEF LeasesOK, LeaseOK, Alone, PhasesOK, RowOK, PhaseOK, BeforeModel, InRollback, InSlot
  <2>5. K
    BY <1>a, <1>b, <1>f, <1>g, <2>1, <2>2
       DEF KeysOK, KeyOK
  <2> QED BY <2>3, <2>4, <2>5
<1>15. CASE DeleteKey(c)
  <2>1. client[c].pc = "delete" /\ UNCHANGED <<slots, today, spent>> /\ keys' = keys \ {r}
    BY <1>15, <1>g DEF DeleteKey
  <2>2. Others /\ client'[c].pc = "idle"
    BY <1>15, <1>a, ClientMoves DEF DeleteKey
  <2>3. EndRun(c, r) \/ UNCHANGED <<run, holder>>
    BY <1>15, <1>g DEF DeleteKey
  <2>4. /\ \A q \in Runs : q # r => run'[q] = run[q] /\ holder'[q] = holder[q]
        /\ run'[r].day = run[r].day /\ run'[r].started = run[r].started
        /\ \/ holder[r] = c /\ holder'[r] = NoClient /\ run'[r].state = "ended"
           \/ run'[r] = run[r] /\ holder'[r] = holder[r]
    BY <1>a, <1>g, <2>3, EndRunMoves
  <2>5. P
    BY <1>a, <1>b, <1>f, <1>g, <2>1, <2>2, <2>4
       DEF PhasesOK, RowOK, PhaseOK, OnePerRun, BeforeModel
  <2>6. L
    BY <1>a, <1>b, <1>f, <1>g, <2>1, <2>2, <2>4
       DEF LeasesOK, LeaseOK, Alone, PhasesOK, RowOK, PhaseOK, BeforeModel, InRollback, InSlot
  <2>7. K
    BY <1>a, <1>b, <1>f, <1>g, <2>1, <2>2, <2>4
       DEF KeysOK, KeyOK, LeasesOK, Alone
  <2> QED BY <2>5, <2>6, <2>7
<1>16. CASE Crash(c)
  <2>1. UNCHANGED <<slots, keys, today, run, holder, spent>>
    BY <1>16 DEF Crash
  <2>2. Others /\ client'[c].pc = "idle"
    BY <1>16, <1>a, ClientMoves DEF Crash
  <2>3. P
    BY <1>a, <1>b, <1>f, <1>g, <2>1, <2>2
       DEF PhasesOK, RowOK, PhaseOK, OnePerRun, BeforeModel
  <2>4. L
    BY <1>a, <1>b, <1>f, <1>g, <2>1, <2>2
       DEF LeasesOK, LeaseOK, Alone, PhasesOK, RowOK, PhaseOK, BeforeModel, InRollback, InSlot
  <2>5. K
    BY <1>a, <1>b, <1>f, <1>g, <2>1, <2>2
       DEF KeysOK, KeyOK
  <2> QED BY <2>3, <2>4, <2>5
<1> HIDE DEF P, L, K
<1> QED BY <1>1, <1>2, <1>3, <1>4, <1>5, <1>6, <1>7, <1>8, <1>9, <1>10, <1>11,
           <1>12, <1>13, <1>14, <1>15, <1>16 DEF ClientNext

\* Every step keeps the layers.
LEMMA OwnersStep ==
  ASSUME OwnersInv, [Next]_vars
  PROVE  OwnersInv'
<1>1. TypeOK'
  BY TypeStep DEF OwnersInv
<1>2. CASE UNCHANGED vars
  BY <1>1, <1>2 DEF vars, OwnersInv, PhasesOK, RowOK, PhaseOK, OnePerRun, LeasesOK, LeaseOK,
                    Alone, KeysOK, KeyOK
<1>3. ASSUME NEW c \in Clients, ClientNext(c) PROVE OwnersInv'
  BY <1>1, <1>3, ClientOwners
<1>a. /\ run \in [Runs -> RunRecord] /\ holder \in [Runs -> Clients \cup {NoClient}]
      /\ today \in Days /\ NoClient \notin Clients
      /\ \A d \in Clients : client[d].run \in Runs /\ client[d].pc \in ClientPC
  BY TypeForm, Constants DEF OwnersInv, ClientRecord
<1>b. PhasesOK /\ ("stall" \notin Faults => LeasesOK) /\ (Faults = {} => KeysOK)
      /\ (Faults = {} => "stall" \notin Faults)
  BY DEF OwnersInv
<1>4. ASSUME NEW r \in Runs, LeaseExpires(r) PROVE OwnersInv'
  <2>1. /\ holder[r] # NoClient /\ holder' = [holder EXCEPT ![r] = NoClient]
        /\ "stall" \in Faults \/ ~Working(holder[r], r)
        /\ UNCHANGED <<slots, keys, today, client, spent>>
    BY <1>4 DEF LeaseExpires
  <2>2. /\ \A q \in Runs : q # r => run'[q] = run[q]
        /\ run'[r].day = run[r].day /\ run'[r].started = run[r].started
        /\ run'[r].state = IF run[r].started = "yes" THEN "ended" ELSE "queued"
    BY <1>4, <1>a DEF LeaseExpires, RunRecord
  <2>3. PhasesOK'
    BY <1>a, <1>b, <2>1, <2>2 DEF PhasesOK, RowOK, PhaseOK, OnePerRun, BeforeModel
  <2>4. "stall" \notin Faults => \A d \in Clients : client[d].run = r => client[d].pc = "idle"
    BY <1>a, <1>b, <2>1 DEF Working, LeasesOK, LeaseOK, PhasesOK, PhaseOK, RowOK,
                            ClientPC, BeforeModel, InRollback
  <2>5. "stall" \notin Faults => LeasesOK'
    BY <1>a, <1>b, <2>1, <2>2, <2>4
       DEF LeasesOK, LeaseOK, Alone, BeforeModel, InRollback, InSlot
  <2>6. Faults = {} => KeysOK'
    BY <1>a, <1>b, <2>1, <2>2 DEF KeysOK, KeyOK
  <2> QED BY <1>1, <2>3, <2>5, <2>6 DEF OwnersInv
<1>5. ASSUME NEW r \in Runs, SlotExpires(r) PROVE OwnersInv'
  <2>1. PhasesOK' /\ (Faults = {} => KeysOK')
    BY <1>5, <1>b DEF SlotExpires, PhasesOK, RowOK, PhaseOK, OnePerRun, KeysOK, KeyOK
  <2>2. "stall" \notin Faults => LeasesOK'
    BY <1>5, <1>b DEF SlotExpires, Working, LeasesOK, LeaseOK, Alone, InSlot
  <2> QED BY <1>1, <2>1, <2>2 DEF OwnersInv
<1>6. CASE (\E r \in Runs : RateExpires(r)) \/ Toggle
  <2>1. UNCHANGED <<slots, keys, today, run, holder, client, spent>>
    BY <1>6 DEF RateExpires, Toggle
  <2> QED BY <1>1, <1>b, <2>1 DEF OwnersInv, PhasesOK, RowOK, PhaseOK, OnePerRun, LeasesOK,
                                  LeaseOK, Alone, KeysOK, KeyOK
<1>7. CASE NewDay
  <2>1. UNCHANGED <<slots, keys, run, holder, client, spent>>
    BY <1>7 DEF NewDay
  <2>2. Faults = {} => KeysOK'
    BY <1>7, <1>b, <2>1 DEF NewDay, KeysOK, KeyOK
  <2> QED BY <1>1, <1>b, <2>1, <2>2 DEF OwnersInv, PhasesOK, RowOK, PhaseOK, OnePerRun,
                                        LeasesOK, LeaseOK, Alone
<1> QED BY <1>2, <1>3, <1>4, <1>5, <1>6, <1>7 DEF Next

\* The ownership invariant holds in every state.
LEMMA Owners == Spec => []OwnersInv
<1>1. Init => OwnersInv
  BY InitOwners
<1>2. OwnersInv /\ [Next]_vars => OwnersInv'
  BY OwnersStep
<1> QED BY <1>1, <1>2, PTL DEF Spec

\* TypeOK: every variable of the quota model keeps its type, the daily counters
\* included, whatever the faults.
THEOREM QuotaTypes == Spec => []TypeOK
<1>1. OwnersInv => TypeOK
  BY DEF OwnersInv
<1> QED BY <1>1, Owners, PTL

-----------------------------------------------------------------------------
(* Concurrency slots *)

\* _ACQUIRE_CONCURRENCY takes a slot only where every scope has a free one;
\* nothing else adds one.
LEMMA SlotCountStep ==
  ASSUME TypeOK, SlotCount, [Next]_vars
  PROVE  SlotCount'
<1>a. /\ IsFiniteSet(slots) /\ slots \subseteq Runs
      /\ \A d \in Clients : client[d].run \in Runs
      /\ \A s \in Scopes : Slots[s] \in Nat
  BY TypeForm, Constants, FS_Subset DEF ClientRecord
<1>b. \A s \in Scopes : IsFiniteSet(InScope(slots, s)) /\ Cardinality(InScope(slots, s)) \in Nat
  <2> SUFFICES ASSUME NEW s \in Scopes
               PROVE  IsFiniteSet(InScope(slots, s)) /\ Cardinality(InScope(slots, s)) \in Nat
    OBVIOUS
  <2>1. InScope(slots, s) \subseteq slots
    BY DEF InScope
  <2> QED BY <1>a, <2>1, FS_Subset, FS_CardinalityType
<1>1. CASE slots' \subseteq slots
  <2> SUFFICES ASSUME NEW s \in Scopes PROVE Cardinality(InScope(slots', s)) <= Slots[s]
    BY DEF SlotCount, InScope, ScopesOf
  <2>1. InScope(slots', s) \subseteq InScope(slots, s)
    BY <1>1 DEF InScope
  <2>2. Cardinality(InScope(slots', s)) <= Cardinality(InScope(slots, s))
        /\ Cardinality(InScope(slots', s)) \in Nat
    BY <1>b, <2>1, FS_Subset, FS_CardinalityType
  <2>3. Cardinality(InScope(slots, s)) <= Slots[s]
    BY DEF SlotCount
  <2> QED BY <1>a, <1>b, <2>2, <2>3
<1>2. ASSUME NEW r \in Runs, r \notin slots, HasSlot(r), slots' = slots \cup {r}
      PROVE  SlotCount'
  <2> SUFFICES ASSUME NEW s \in Scopes PROVE Cardinality(InScope(slots', s)) <= Slots[s]
    BY DEF SlotCount, InScope, ScopesOf
  <2>1. CASE s \in ScopesOf(r)
    <3>1. InScope(slots', s) = InScope(slots, s) \cup {r} /\ r \notin InScope(slots, s)
      BY <1>2, <2>1 DEF InScope
    <3>2. Cardinality(InScope(slots', s)) = Cardinality(InScope(slots, s)) + 1
      BY <1>b, <3>1, FS_AddElement
    <3>3. Cardinality(InScope(slots, s)) < Slots[s]
      BY <1>2, <2>1 DEF HasSlot
    <3> QED BY <1>a, <1>b, <3>2, <3>3
  <2>2. CASE s \notin ScopesOf(r)
    <3>1. InScope(slots', s) = InScope(slots, s)
      BY <1>2, <2>2 DEF InScope
    <3> QED BY <3>1 DEF SlotCount
  <2> QED BY <2>1, <2>2
<1>3. CASE UNCHANGED vars
  BY <1>1, <1>3 DEF vars
<1>4. ASSUME NEW c \in Clients, ClientNext(c) PROVE SlotCount'
  <2>1. CASE AcquireConcurrency(c)
    <3>1. \/ HasSlot(client[c].run) /\ slots' = slots \cup {client[c].run}
          \/ slots' = slots
      BY <2>1 DEF AcquireConcurrency
    <3> QED BY <1>a, <1>1, <1>2, <3>1
  <2>2. CASE ~AcquireConcurrency(c)
    <3>1. slots' \subseteq slots
      BY <1>4, <2>2 DEF ClientNext, Request, CancelQueued, Lease, CreateRun, Reserve,
           ReleaseAfterError, ClaimRun, Start, Settle, DropKey, Abandon, CheckKey,
           UndoReservation, DeleteKey, Crash
    <3> QED BY <1>1, <3>1
  <2> QED BY <2>1, <2>2
<1>5. CASE (\E r \in Runs : LeaseExpires(r) \/ SlotExpires(r) \/ RateExpires(r)) \/ NewDay \/ Toggle
  <2>1. slots' \subseteq slots
    BY <1>5 DEF LeaseExpires, SlotExpires, RateExpires, NewDay, Toggle
  <2> QED BY <1>1, <2>1
<1> QED BY <1>3, <1>4, <1>5 DEF Next

\* SlotsRespected, as long as a task keeps its lease while it works: the tasks
\* at the model work on different runs, and each run has its slot until its own
\* task frees it.
THEOREM ConcurrencyIsBounded ==
  ASSUME "stall" \notin Faults
  PROVE  Spec => []SlotsRespected
<1>1. Init => SlotCount
  <2> SUFFICES ASSUME Init PROVE SlotCount
    OBVIOUS
  <2>1. \A s \in Scopes : InScope(slots, s) = {}
    BY DEF Init, InScope
  <2>2. \A s \in Scopes : Slots[s] \in Nat
    BY Constants
  <2> QED BY <2>1, <2>2, FS_EmptySet DEF SlotCount
<1>2. TypeOK /\ SlotCount /\ [Next]_vars => SlotCount'
  BY SlotCountStep
<1>3. OwnersInv /\ SlotCount => SlotsRespected
  <2> SUFFICES ASSUME OwnersInv, SlotCount, NEW s \in Scopes
               PROVE  Cardinality({c \in Clients : client[c].pc = "model"
                                     /\ s \in ScopesOf(client[c].run)}) <= Slots[s]
    BY DEF SlotsRespected
  <2> DEFINE A == {c \in Clients : client[c].pc = "model" /\ s \in ScopesOf(client[c].run)}
             B == InScope(slots, s)
             f == [c \in A |-> client[c].run]
  <2>1. IsFiniteSet(B)
    <3>1. B \subseteq Runs
      BY TypeForm DEF InScope, OwnersInv
    <3> QED BY <3>1, Constants, FS_Subset
  <2>2. \A c \in A : client[c].run \in B
    BY DEF OwnersInv, LeasesOK, LeaseOK, InSlot, InScope
  <2>3. \A c, d \in A : c # d => client[c].run # client[d].run
    BY DEF OwnersInv, PhasesOK, OnePerRun
  <2>4. f \in Injection(A, B)
    BY <2>2, <2>3 DEF Injection, IsInjective
  <2>5. IsFiniteSet(A) /\ Cardinality(A) <= Cardinality(B)
    <3> HIDE DEF A, B, f
    <3> QED BY <2>1, <2>4, FS_Injection
  <2>6. Cardinality(B) <= Slots[s]
    BY DEF SlotCount
  <2>7. Cardinality(A) \in Nat /\ Cardinality(B) \in Nat /\ Slots[s] \in Nat
    <3>1. Slots[s] \in Nat
      BY Constants
    <3> HIDE DEF A, B
    <3> QED BY <2>1, <2>5, <3>1, FS_CardinalityType
  <2> HIDE DEF A, B
  <2>8. Cardinality(A) <= Slots[s]
    BY <2>5, <2>6, <2>7
  <2> QED BY <2>8 DEF A
<1> QED BY <1>1, <1>2, <1>3, Owners, QuotaTypes, PTL DEF Spec

-----------------------------------------------------------------------------
(* Daily budgets *)

\* The excess of the runs of a scope adds up to a natural number.
LEMMA ExcessSum ==
  ASSUME TypeOK, NEW s \in Scopes
  PROVE  /\ [r \in Runs |-> Excess(r, s)] \in [Runs -> Int]
         /\ SumFunction([r \in Runs |-> Excess(r, s)]) \in Int
         /\ SumFunction([r \in Runs |-> Excess(r, s)]) >= 0
<1> DEFINE f == [r \in Runs |-> Excess(r, s)]
<1>1. \A r \in Runs : Excess(r, s) \in Int /\ Excess(r, s) >= 0
  BY Constants, TypeForm DEF Excess
<1>2. f \in [Runs -> Int] /\ \A r \in Runs : f[r] >= 0
  BY <1>1
<1>3. IsFiniteSet(Runs)
  BY Constants
<1> HIDE DEF f
<1>4. SumFunction(f) \in Int /\ SumFunction(f) >= 0
  BY <1>2, <1>3, SumType
<1> QED BY <1>2, <1>4 DEF f

\* Charging run r no more than the room it has, or less than before, leaves the
\* budgets respected.
LEMMA ChargeRespects ==
  ASSUME TypeOK, BudgetRespected, UNCHANGED spent,
         NEW r \in Runs, NEW d \in Days, NEW n \in Int, Add(r, d, n),
         n <= 0 \/ \A s \in ScopesOf(r) : used[d][s] + n <= DailyLimit[s]
  PROVE  BudgetRespected'
<1>1. used \in [Days -> [Scopes -> Int]]
  BY TypeForm
<1>2. /\ \A e \in Days : e # d => used'[e] = used[e]
      /\ \A s \in Scopes :
           used'[d][s] = IF s \in ScopesOf(r) THEN used[d][s] + n ELSE used[d][s]
  BY <1>1, AddType
<1> SUFFICES ASSUME NEW e \in Days, NEW s \in Scopes
             PROVE  used'[e][s] <= DailyLimit[s] + SumFunction([q \in Runs |-> Excess(q, s)])
  BY DEF BudgetRespected, Excess, ScopesOf
<1> DEFINE x == SumFunction([q \in Runs |-> Excess(q, s)])
<1>3. x \in Int /\ x >= 0
  BY ExcessSum
<1>4. used[e][s] <= DailyLimit[s] + x
  BY DEF BudgetRespected
<1>5. used[e][s] \in Int /\ DailyLimit[s] \in Nat /\ used[d][s] \in Int
  BY <1>1, Constants
<1> HIDE DEF x
<1>6. CASE e = d /\ s \in ScopesOf(r)
  <2>1. used'[e][s] = used[e][s] + n
    BY <1>2, <1>6
  <2>2. n <= 0 \/ used[e][s] + n <= DailyLimit[s]
    BY <1>6
  <2>3. used[e][s] + n <= DailyLimit[s] + x
    BY <1>3, <1>4, <1>5, <2>2
  <2> QED BY <2>1, <2>3 DEF x
<1>7. CASE ~(e = d /\ s \in ScopesOf(r))
  <2>1. used'[e][s] = used[e][s]
    BY <1>2, <1>7
  <2> QED BY <1>4, <2>1 DEF x
<1> QED BY <1>6, <1>7

\* A settlement: what it adds beyond the reservation is excess of the run.
LEMMA SettleRespects ==
  ASSUME TypeOK, BudgetRespected,
         NEW r \in Runs, NEW d \in Days, NEW n \in Nat, Add(r, d, n - Reserved),
         spent[r] = -1, spent' = [spent EXCEPT ![r] = n]
  PROVE  BudgetRespected'
<1>1. used \in [Days -> [Scopes -> Int]] /\ Reserved \in Nat /\ n - Reserved \in Int
      /\ spent \in [Runs -> Nat \cup {-1}]
  BY TypeForm, Constants
<1>2. /\ \A e \in Days : e # d => used'[e] = used[e]
      /\ \A s \in Scopes : used'[d][s] =
           IF s \in ScopesOf(r) THEN used[d][s] + (n - Reserved) ELSE used[d][s]
  BY <1>1, AddType
<1> SUFFICES ASSUME NEW e \in Days, NEW s \in Scopes
             PROVE  used'[e][s] <= DailyLimit[s] + SumFunction([q \in Runs |-> Excess(q, s)'])
  BY DEF BudgetRespected
<1> DEFINE f == [q \in Runs |-> Excess(q, s)]
           g == [q \in Runs |-> Excess(q, s)']
           x == SumFunction(f)
           y == SumFunction(g)
           more == IF s \in ScopesOf(r) /\ n > Reserved THEN n - Reserved ELSE 0
<1>3. f \in [Runs -> Int] /\ x \in Int /\ x >= 0
  BY ExcessSum
<1>4. f[r] = 0 /\ g[r] = more
  BY <1>1 DEF Excess, ScopesOf
<1>5. \A q \in Runs : q # r => g[q] = f[q]
  BY <1>1 DEF Excess, ScopesOf
<1>6. more \in Int
  BY <1>1
<1>7. g \in [Runs -> Int]
  <2>1. \A q \in Runs : g[q] \in Int
    <3> HIDE DEF f, g, more
    <3> QED BY <1>3, <1>4, <1>5, <1>6
  <2> QED BY <2>1
<1>8. y = x + more
  <2> HIDE DEF f, g, more
  <2>1. y = x + (g[r] - f[r])
    BY <1>3, <1>5, <1>7, Constants, SumUpdate
  <2> QED BY <1>3, <1>4, <1>6, <2>1
<1>9. used[e][s] <= DailyLimit[s] + x /\ used[e][s] \in Int /\ DailyLimit[s] \in Nat
  BY <1>1, Constants DEF BudgetRespected
<1>10. used'[e][s] = IF e = d /\ s \in ScopesOf(r) THEN used[e][s] + (n - Reserved)
                     ELSE used[e][s]
  BY <1>2
<1>11. used'[e][s] <= DailyLimit[s] + y
  <2> HIDE DEF x, y
  <2> QED BY <1>1, <1>3, <1>8, <1>9, <1>10
<1> QED BY <1>11

\* Every step keeps the budgets respected.
LEMMA RespectStep ==
  ASSUME OwnersInv, BudgetRespected, [Next]_vars
  PROVE  BudgetRespected'
<1>a. TypeOK /\ PhasesOK /\ today \in Days /\ Reserved \in Int /\ -Reserved \in Int
      /\ -Reserved <= 0 /\ Usage \subseteq Nat
      /\ \A c \in Clients : client[c].run \in Runs /\ client[c].day \in Days
  BY TypeForm, Constants DEF OwnersInv, ClientRecord
<1>1. ASSUME UNCHANGED <<used, spent>> PROVE BudgetRespected'
  BY <1>1 DEF BudgetRespected, Excess, ScopesOf
<1>2. ASSUME UNCHANGED spent, NEW r \in Runs, NEW d \in Days,
             ReserveEffect(r, d, ReserveOutcome(r, d))
      PROVE  BudgetRespected'
  <2>1. CASE ReserveOutcome(r, d) = "ok"
    <3>1. Add(r, d, Reserved)
      BY <1>2, <2>1 DEF ReserveEffect
    <3>2. \A s \in ScopesOf(r) : used[d][s] + Reserved <= DailyLimit[s]
      BY <1>a, <2>1, ReserveAnswers
    <3> QED BY <1>a, <1>2, <3>1, <3>2, ChargeRespects
  <2>2. CASE ReserveOutcome(r, d) # "ok"
    BY <1>1, <1>2, <2>2 DEF ReserveEffect
  <2> QED BY <2>1, <2>2
<1>3. ASSUME NEW c \in Clients, ClientNext(c) PROVE BudgetRespected'
  <2>1. ASSUME NEW r \in Runs, Request(c, r) PROVE BudgetRespected'
    BY <1>a, <1>2, <2>1 DEF Request
  <2>2. CASE Reserve(c)
    BY <1>a, <1>2, <2>2 DEF Reserve
  <2>3. CASE Settle(c)
    <3>1. PICK n \in Usage : /\ Add(client[c].run, client[c].day, n - Reserved)
                             /\ spent' = [spent EXCEPT ![client[c].run] = n]
      BY <2>3 DEF Settle
    <3>2. spent[client[c].run] = -1
      BY <1>a, <2>3 DEF Settle, PhasesOK, PhaseOK
    <3> QED BY <1>a, <3>1, <3>2, SettleRespects
  <2>4. CASE UndoReservation(c)
    <3>1. Add(client[c].run, client[c].day, -Reserved) /\ UNCHANGED spent
      BY <2>4 DEF UndoReservation
    <3> QED BY <1>a, <3>1, ChargeRespects
  <2>5. CASE ~(Reserve(c) \/ Settle(c) \/ UndoReservation(c) \/ \E r \in Runs : Request(c, r))
    <3>1. UNCHANGED <<used, spent>>
      BY <1>3, <2>5 DEF ClientNext, CancelQueued, Lease, CreateRun, AcquireConcurrency,
           ReleaseAfterError, ClaimRun, Start, DropKey, Abandon, CheckKey, DeleteKey, Crash
    <3> QED BY <1>1, <3>1
  <2> QED BY <2>1, <2>2, <2>3, <2>4, <2>5
<1>4. CASE UNCHANGED vars
  BY <1>1, <1>4 DEF vars
<1>5. CASE (\E r \in Runs : LeaseExpires(r) \/ SlotExpires(r) \/ RateExpires(r)) \/ NewDay \/ Toggle
  <2>1. UNCHANGED <<used, spent>>
    BY <1>5 DEF LeaseExpires, SlotExpires, RateExpires, NewDay, Toggle
  <2> QED BY <1>1, <2>1
<1> QED BY <1>3, <1>4, <1>5 DEF Next

\* BudgetRespected, under every fault: a run starts at most once, so that what
\* its usage adds beyond the reservation is counted once as excess.
THEOREM BudgetsAreRespected == Spec => []BudgetRespected
<1>1. Init => BudgetRespected
  <2> SUFFICES ASSUME Init, NEW d \in Days, NEW s \in Scopes
               PROVE  used[d][s] <= DailyLimit[s] + SumFunction([r \in Runs |-> Excess(r, s)])
    BY DEF BudgetRespected
  <2>1. TypeOK
    BY InitType
  <2>2. used[d][s] = 0 /\ DailyLimit[s] \in Nat
    BY Constants DEF Init
  <2> QED BY <2>1, <2>2, ExcessSum
<1>2. OwnersInv /\ BudgetRespected /\ [Next]_vars => BudgetRespected'
  BY RespectStep
<1> QED BY <1>1, <1>2, Owners, PTL DEF Spec

-----------------------------------------------------------------------------
(* Exact accounting *)

\* A client is between _ROLLBACK and DEL for run r.
Deleting(r) == \E c \in Clients : client[c].pc = "delete" /\ client[c].run = r

\* The three values that a run may owe.
LEMMA OwesCases ==
  ASSUME TypeOK, NEW r \in Runs
  PROVE  /\ spent[r] >= 0 => Owes(r) = spent[r]
         /\ spent[r] = -1 /\ r \in keys /\ ~Deleting(r) => Owes(r) = Reserved
         /\ spent[r] = -1 /\ (r \notin keys \/ Deleting(r)) => Owes(r) = 0
         /\ Owes(r) \in Int
<1>1. spent[r] \in Nat \cup {-1} /\ Reserved \in Nat
  BY TypeForm, Constants
<1>2. (\A c \in Clients : ~(Working(c, r) /\ client[c].pc = "delete")) <=> ~Deleting(r)
  BY DEF Working, Deleting
<1> QED BY <1>1, <1>2 DEF Owes

\* What a run owes is a number on every day and in every scope.
LEMMA ChargeType ==
  ASSUME TypeOK, NEW d \in Days, NEW s \in Scopes
  PROVE  [q \in Runs |-> Charge(q, d, s)] \in [Runs -> Int]
BY OwesCases DEF Charge

\* The same in the next state.
LEMMA ChargeTypeNext ==
  ASSUME TypeOK', NEW d \in Days, NEW s \in Scopes
  PROVE  [q \in Runs |-> Charge(q, d, s)'] \in [Runs -> Int]
<1> SUFFICES ASSUME NEW q \in Runs PROVE Charge(q, d, s)' \in Int
  OBVIOUS
<1>1. spent'[q] \in Nat \cup {-1} /\ Reserved \in Nat
  BY Constants DEF TypeOK
<1>2. Owes(q)' \in Int
  BY <1>1 DEF Owes
<1> QED BY <1>2 DEF Charge

\* The counters stay exact when they change by what one run owes more or less.
LEMMA ExactChange ==
  ASSUME TypeOK, TypeOK', BudgetExact, NEW r \in Runs,
         \A q \in Runs : q # r => Owes(q)' = Owes(q) /\ run'[q].day = run[q].day,
         \A d \in Days, s \in Scopes :
           used'[d][s] = used[d][s] + (Charge(r, d, s)' - Charge(r, d, s))
  PROVE  BudgetExact'
<1> SUFFICES ASSUME NEW d \in Days, NEW s \in Scopes
             PROVE  used'[d][s] = SumFunction([q \in Runs |-> Charge(q, d, s)'])
  BY DEF BudgetExact
<1> DEFINE f == [q \in Runs |-> Charge(q, d, s)]
           g == [q \in Runs |-> Charge(q, d, s)']
<1>1. f \in [Runs -> Int] /\ g \in [Runs -> Int]
  BY ChargeType, ChargeTypeNext
<1>2. \A q \in Runs : q # r => g[q] = f[q]
  BY DEF Charge, ScopesOf
<1>3. used'[d][s] = used[d][s] + (g[r] - f[r])
  OBVIOUS
<1>4. used[d][s] = SumFunction(f)
  BY DEF BudgetExact
<1> HIDE DEF f, g
<1>5. SumFunction(g) = SumFunction(f) + (g[r] - f[r])
  BY <1>1, <1>2, Constants, SumUpdate
<1>6. used'[d][s] = SumFunction(g)
  BY <1>3, <1>4, <1>5
<1> QED BY <1>6 DEF g

\* They stay exact when nobody owes more or less.
LEMMA ExactSame ==
  ASSUME TypeOK, TypeOK', BudgetExact, UNCHANGED used,
         \A q \in Runs : Owes(q)' = Owes(q) /\ run'[q].day = run[q].day
  PROVE  BudgetExact'
<1>1. \A d \in Days, s \in Scopes :
        [q \in Runs |-> Charge(q, d, s)'] = [q \in Runs |-> Charge(q, d, s)]
  BY DEF Charge, ScopesOf
<1> QED BY <1>1 DEF BudgetExact

\* A charge or a refund of n for run r on its day, matched by what r owes.
LEMMA ExactCharge ==
  ASSUME TypeOK, TypeOK', BudgetExact, NEW r \in Runs, NEW d \in Days, NEW n \in Int,
         Add(r, d, n), run'[r].day = d, Owes(r)' = Owes(r) + n,
         run[r].day = d \/ Owes(r) = 0,
         \A q \in Runs : q # r => Owes(q)' = Owes(q) /\ run'[q].day = run[q].day
  PROVE  BudgetExact'
<1>1. used \in [Days -> [Scopes -> Int]] /\ Owes(r) \in Int
  BY TypeForm, OwesCases
<1>2. /\ \A e \in Days : e # d => used'[e] = used[e]
      /\ \A s \in Scopes :
           used'[d][s] = IF s \in ScopesOf(r) THEN used[d][s] + n ELSE used[d][s]
  BY <1>1, AddType
<1>3. ASSUME NEW e \in Days, NEW s \in Scopes
      PROVE  used'[e][s] = used[e][s] + (Charge(r, e, s)' - Charge(r, e, s))
  <2>1. used[e][s] \in Int
    BY <1>1
  <2>2. Charge(r, e, s)' = IF d = e /\ s \in ScopesOf(r) THEN Owes(r) + n ELSE 0
    BY DEF Charge, ScopesOf
  <2>3. Charge(r, e, s) = IF d = e /\ s \in ScopesOf(r) THEN Owes(r) ELSE 0
    BY DEF Charge
  <2>4. used'[e][s] = IF d = e /\ s \in ScopesOf(r) THEN used[e][s] + n ELSE used[e][s]
    BY <1>2
  <2> QED BY <1>1, <2>1, <2>2, <2>3, <2>4
<1> QED BY <1>3, ExactChange

\* What a run owes depends on its usage, its key and a deletion under way.
LEMMA OwesKept ==
  ASSUME NEW r \in Runs, spent'[r] = spent[r], r \in keys' <=> r \in keys,
         Deleting(r)' <=> Deleting(r)
  PROVE  Owes(r)' = Owes(r)
<1>1. (\A c \in Clients : ~(Working(c, r) /\ client[c].pc = "delete")) <=> ~Deleting(r)
  BY DEF Working, Deleting
<1>2. (\A c \in Clients : ~(Working(c, r) /\ client[c].pc = "delete"))' <=> ~Deleting(r)'
  BY DEF Working, Deleting
<1> QED BY <1>1, <1>2 DEF Owes

\* OwesCases in the next state.
LEMMA OwesNext ==
  ASSUME TypeOK', NEW r \in Runs
  PROVE  /\ spent'[r] >= 0 => Owes(r)' = spent'[r]
         /\ spent'[r] = -1 /\ r \in keys' /\ ~Deleting(r)' => Owes(r)' = Reserved
         /\ spent'[r] = -1 /\ (r \notin keys' \/ Deleting(r)') => Owes(r)' = 0
<1>1. spent'[r] \in Nat \cup {-1} /\ Reserved \in Nat
  BY Constants DEF TypeOK
<1>2. (\A c \in Clients : ~(Working(c, r) /\ client[c].pc = "delete"))' <=> ~Deleting(r)'
  BY DEF Working, Deleting
<1> QED BY <1>1, <1>2 DEF Owes

\* Every step of a system without faults keeps the counters exact.
LEMMA ExactStep ==
  ASSUME Faults = {}, OwnersInv, OwnersInv', BudgetExact, [Next]_vars
  PROVE  BudgetExact'
<1>a. /\ TypeOK /\ TypeOK' /\ PhasesOK /\ LeasesOK /\ KeysOK
      /\ client \in [Clients -> ClientRecord] /\ run \in [Runs -> RunRecord]
      /\ holder \in [Runs -> Clients \cup {NoClient}] /\ spent \in [Runs -> Nat \cup {-1}]
      /\ today \in Days /\ Reserved \in Nat
      /\ \A d \in Clients : client[d].run \in Runs /\ client[d].day \in Days
  BY TypeForm, Constants DEF OwnersInv, ClientRecord
<1>e. {"idle", "create", "reserve", "slot", "claim", "start", "model", "drop",
       "check", "undo", "delete"} = ClientPC
  BY DEF ClientPC
\* Steps that move a client outside the deletion and touch no counter.
<1>1. ASSUME UNCHANGED <<used, keys, spent>>, \A q \in Runs : run'[q].day = run[q].day,
             \A d \in Clients : \/ client'[d] = client[d]
                                \/ client[d].pc # "delete" /\ client'[d].pc # "delete"
      PROVE  BudgetExact'
  <2>1. \A q \in Runs : Deleting(q)' <=> Deleting(q)
    BY <1>1 DEF Deleting
  <2>2. \A q \in Runs : Owes(q)' = Owes(q)
    BY <1>1, <2>1, OwesKept
  <2> QED BY <1>a, <1>1, <2>2, ExactSame
<1>2. CASE UNCHANGED vars
  BY <1>1, <1>2 DEF vars
<1>3. ASSUME NEW c \in Clients, ClientNext(c) PROVE BudgetExact'
  <2> DEFINE Others == \A d \in Clients : d # c => client'[d] = client[d]
  <2>a. PICK r \in Runs, day \in Days : r = client[c].run /\ day = client[c].day
    BY <1>a
  <2>b. client[c].pc # "idle" =>
          /\ day = run[r].day
          /\ \A d \in Clients : d # c /\ client[d].pc # "idle" => client[d].run # r
    BY <1>a, <2>a DEF KeysOK, KeyOK, LeasesOK, Alone
  \* Only c works on r, so that the others' runs owe what they did.
  <2>c. ASSUME Others,
               \A q \in Runs : q # r => (q \in keys' <=> q \in keys) /\ spent'[q] = spent[q],
               client'[c].pc = "idle" \/ client'[c].run = r
        PROVE  \A q \in Runs : q # r => Owes(q)' = Owes(q)
    <3>1. \A q \in Runs : q # r => (Deleting(q)' <=> Deleting(q))
      BY <2>a, <2>c DEF Deleting
    <3> QED BY <2>c, <3>1, OwesKept
  <2>1. ASSUME NEW q \in Runs, Request(c, q) PROVE BudgetExact'
    <3> DEFINE o == ReserveOutcome(q, today)
    <3>1. /\ o \in {"ok", "existing", "refused"} /\ ReserveEffect(q, today, o)
          /\ o = "existing" => q \in keys
          /\ client[c].pc = "idle" /\ run[q].state = "none" /\ UNCHANGED spent
      BY <2>1, <1>a, ReserveAnswers DEF Request
    <3>2. /\ Others /\ client'[c].pc # "delete"
      BY <2>1, <1>a DEF Request
    <3>3. /\ \A p \in Runs : p # q => run'[p].day = run[p].day
          /\ run'[q].day = today
      BY <2>1, <1>a DEF Request, RunRecord
    <3>4. q \notin keys /\ spent[q] = -1
      BY <1>a, <3>1 DEF KeysOK, PhasesOK, RowOK
    <3>5. \A d \in Clients : client[d].run = q => client[d].pc = "idle"
      BY <1>a, <3>1, NobodyWorks
    <3>6. \A p \in Runs : Deleting(p)' <=> Deleting(p)
      BY <3>1, <3>2 DEF Deleting
    <3>7. ~Deleting(q)
      BY <3>5 DEF Deleting
    <3>8. CASE o = "ok"
      <4>1. Add(q, today, Reserved) /\ keys' = keys \cup {q}
        BY <3>1, <3>8 DEF ReserveEffect
      <4>2. \A p \in Runs : p # q => Owes(p)' = Owes(p)
        BY <3>1, <3>6, <4>1, OwesKept
      <4>3. Owes(q) = 0
        BY <1>a, <3>4, OwesCases
      <4>4. Owes(q)' = Reserved
        BY <1>a, <3>1, <3>4, <3>6, <3>7, <4>1, OwesNext
      <4> QED BY <1>a, <3>3, <4>1, <4>2, <4>3, <4>4, ExactCharge
    <3>9. CASE o # "ok"
      <4>1. UNCHANGED <<used, keys>>
        BY <3>1, <3>9 DEF ReserveEffect
      <4>2. \A p \in Runs : Owes(p)' = Owes(p)
        BY <3>1, <3>6, <4>1, OwesKept
      <4>3. Owes(q) = 0 /\ Owes(q)' = 0
        BY <1>a, <3>4, <4>2, OwesCases
      <4>4. \A d \in Days, s \in Scopes : Charge(q, d, s) = 0 /\ Charge(q, d, s)' = 0
                                          /\ used[d][s] \in Int /\ used'[d][s] = used[d][s]
        BY <1>a, <4>1, <4>3, TypeForm DEF Charge
      <4>5. \A d \in Days, s \in Scopes :
              used'[d][s] = used[d][s] + (Charge(q, d, s)' - Charge(q, d, s))
        BY <4>4
      <4> QED BY <1>a, <3>3, <4>2, <4>5, ExactChange
    <3> QED BY <3>8, <3>9
  <2>2. CASE Reserve(c)
    <3> DEFINE o == ReserveOutcome(r, day)
    <3>1. /\ o \in {"ok", "existing", "refused"} /\ ReserveEffect(r, day, o)
          /\ o = "ok" => r \notin keys
          /\ client[c].pc = "reserve" /\ UNCHANGED spent
      BY <2>2, <2>a, <1>a, ReserveAnswers DEF Reserve
    <3>2. /\ Others /\ client'[c].pc # "delete"
          /\ client'[c].pc = "idle" \/ client'[c].run = r
      BY <2>2, <2>a, <1>a, <1>e, ClientMoves DEF Reserve
    <3>3. \A q \in Runs : run'[q].day = run[q].day
      BY <2>2, <2>a, <1>a, EndRunMoves DEF Reserve
    <3>4. CASE o = "ok"
      <4>1. Add(r, day, Reserved) /\ keys' = keys \cup {r}
        BY <3>1, <3>4 DEF ReserveEffect
      <4>2. \A q \in Runs : q # r => Owes(q)' = Owes(q)
        BY <2>c, <3>1, <3>2, <4>1
      <4>3. spent[r] = -1 /\ r \notin keys
        BY <1>a, <2>a, <3>1, <3>4 DEF LeasesOK, LeaseOK, PhasesOK, RowOK, BeforeModel
      <4>4. ~Deleting(r)'
        BY <2>a, <2>b, <3>1, <3>2 DEF Deleting
      <4>5. Owes(r) = 0 /\ Owes(r)' = Reserved
        <5>1. Owes(r) = 0
          BY <1>a, <2>a, <4>3, OwesCases
        <5>2. Owes(r)' = Reserved
          BY <1>a, <2>a, <3>1, <4>1, <4>3, <4>4, OwesNext
        <5> QED BY <5>1, <5>2
      <4>6. day = run[r].day
        BY <2>b, <3>1
      <4> QED BY <1>a, <2>a, <3>3, <4>1, <4>2, <4>5, <4>6, ExactCharge
    <3>5. CASE o # "ok"
      <4>1. UNCHANGED <<used, keys>>
        BY <3>1, <3>5 DEF ReserveEffect
      <4> HIDE DEF o
      <4> QED BY <1>1, <3>1, <3>2, <3>3, <4>1
    <3> QED BY <3>4, <3>5
  <2>3. CASE Settle(c)
    <3>1. client[c].pc = "model" /\ UNCHANGED <<keys, run>>
      BY <2>3 DEF Settle
    <3>2. PICK n \in Nat : Add(r, day, n - Reserved) /\ spent' = [spent EXCEPT ![r] = n]
      BY <2>3, <2>a, Constants DEF Settle
    <3>3. Others /\ client'[c].pc = "drop" /\ client'[c].run = r
      BY <2>3, <2>a, <1>a, <1>e, ClientMoves DEF Settle
    <3>4. spent[r] = -1 /\ r \in keys /\ ~Deleting(r)
      BY <1>a, <2>a, <2>b, <3>1 DEF PhasesOK, PhaseOK, KeysOK, KeyOK, Deleting
    <3>5. Owes(r) = Reserved
      BY <1>a, <2>a, <3>4, OwesCases
    <3>6. Owes(r)' = n
      <4>1. spent'[r] = n /\ n >= 0
        BY <1>a, <2>a, <3>2
      <4> QED BY <1>a, <2>a, <4>1, OwesNext
    <3>7. \A q \in Runs : q # r => Owes(q)' = Owes(q)
      <4>1. \A q \in Runs : q # r => spent'[q] = spent[q]
        BY <1>a, <2>a, <3>2
      <4> QED BY <2>c, <3>1, <3>3, <4>1
    <3>8. day = run[r].day /\ run'[r].day = run[r].day
          /\ n - Reserved \in Int /\ n = Reserved + (n - Reserved)
      BY <1>a, <2>b, <3>1
    <3> QED BY <1>a, <2>a, <3>1, <3>2, <3>5, <3>6, <3>7, <3>8, ExactCharge
  <2>4. CASE DropKey(c)
    <3>1. client[c].pc = "drop" /\ UNCHANGED <<used, spent>> /\ keys' = keys \ {r}
      BY <2>4, <2>a DEF DropKey
    <3>2. Others /\ client'[c].pc = "idle"
      BY <2>4, <1>a, ClientMoves DEF DropKey
    <3>3. \A q \in Runs : run'[q].day = run[q].day
      BY <2>4, <2>a, <1>a, EndRunMoves DEF DropKey
    <3>4. spent[r] >= 0 /\ spent'[r] >= 0
      BY <1>a, <2>a, <3>1 DEF PhasesOK, PhaseOK
    <3>5. Owes(r)' = Owes(r)
      BY <1>a, <2>a, <3>1, <3>4, OwesCases, OwesNext
    <3>6. \A q \in Runs : q # r => Owes(q)' = Owes(q)
      BY <2>c, <3>1, <3>2
    <3> QED BY <1>a, <3>1, <3>3, <3>5, <3>6, ExactSame
  <2>5. CASE UndoReservation(c)
    <3>1. /\ client[c].pc = "undo" /\ UNCHANGED <<keys, run, spent>>
          /\ Add(r, day, -Reserved)
      BY <2>5, <2>a DEF UndoReservation
    <3>2. Others /\ client'[c].pc = "delete" /\ client'[c].run = r
      BY <2>5, <2>a, <1>a, <1>e, ClientMoves DEF UndoReservation
    <3>3. spent[r] = -1 /\ r \in keys
      BY <1>a, <2>a, <3>1
         DEF LeasesOK, LeaseOK, PhasesOK, RowOK, InRollback, KeysOK, KeyOK
    <3>4. ~Deleting(r) /\ Deleting(r)'
      BY <2>a, <2>b, <3>1, <3>2 DEF Deleting
    <3>5. Owes(r) = Reserved
      BY <1>a, <2>a, <3>3, <3>4, OwesCases
    <3>6. Owes(r)' = 0
      BY <1>a, <2>a, <3>1, <3>3, <3>4, OwesNext
    <3>7. \A q \in Runs : q # r => Owes(q)' = Owes(q)
      BY <2>c, <3>1, <3>2
    <3>8. day = run[r].day /\ run'[r].day = run[r].day
          /\ -Reserved \in Int /\ 0 = Reserved + (-Reserved)
      BY <1>a, <2>b, <3>1
    <3> QED BY <1>a, <2>a, <3>1, <3>5, <3>6, <3>7, <3>8, ExactCharge
  <2>6. CASE DeleteKey(c)
    <3>1. client[c].pc = "delete" /\ UNCHANGED <<used, spent>> /\ keys' = keys \ {r}
      BY <2>6, <2>a DEF DeleteKey
    <3>2. Others /\ client'[c].pc = "idle"
      BY <2>6, <1>a, ClientMoves DEF DeleteKey
    <3>3. \A q \in Runs : run'[q].day = run[q].day
      BY <2>6, <2>a, <1>a, EndRunMoves DEF DeleteKey
    <3>4. spent[r] = -1 /\ Deleting(r)
      BY <1>a, <2>a, <3>1 DEF LeasesOK, LeaseOK, PhasesOK, RowOK, InRollback, Deleting
    <3>5. Owes(r) = 0
      BY <1>a, <2>a, <3>4, OwesCases
    <3>6. Owes(r)' = 0
      BY <1>a, <2>a, <3>1, <3>4, OwesNext
    <3>7. \A q \in Runs : q # r => Owes(q)' = Owes(q)
      BY <2>c, <3>1, <3>2
    <3> QED BY <1>a, <3>1, <3>3, <3>5, <3>6, <3>7, ExactSame
  <2>7. CASE CreateRun(c)
    <3>1. client[c].pc = "create" /\ UNCHANGED <<used, keys, spent>>
      BY <2>7 DEF CreateRun
    <3>2. Others /\ client'[c].pc # "delete"
      BY <2>7, <2>a, <1>a, ClientMoves DEF CreateRun
    <3>3. run[r].day = today
      BY <1>a, <2>a, <2>b, <3>1 DEF KeysOK, KeyOK
    <3>4. \A q \in Runs : run'[q].day = run[q].day
      BY <2>7, <2>a, <1>a, <3>3 DEF CreateRun, RunRecord
    <3> QED BY <1>1, <3>1, <3>2, <3>4
  <2>8. ASSUME NEW q \in Runs, CancelQueued(c, q) \/ Lease(c, q) PROVE BudgetExact'
    <3>1. client[c].pc = "idle" /\ UNCHANGED <<used, keys, spent>>
      BY <2>8 DEF CancelQueued, Lease
    <3>2. Others /\ client'[c].pc # "delete"
      BY <2>8, <1>a DEF CancelQueued, Lease, Rollback
    <3>3. \A p \in Runs : run'[p].day = run[p].day
      BY <2>8, <1>a DEF CancelQueued, Lease, RunRecord
    <3> QED BY <1>1, <3>1, <3>2, <3>3
  <2>9. CASE AcquireConcurrency(c) \/ ReleaseAfterError(c) \/ ClaimRun(c) \/ Start(c)
             \/ CheckKey(c) \/ Crash(c) \/ Abandon(c)
    <3>1. client[c].pc # "delete" /\ UNCHANGED <<used, keys, spent>>
      BY <2>9 DEF AcquireConcurrency, ReleaseAfterError, ClaimRun, Start, CheckKey, Crash,
                           Abandon
    <3>2. \/ \E pc \in {"claim", "start", "model", "undo"} : Goto(c, pc)
          \/ Leave(c)
          \/ \E end \in {"no", "yes"} : Rollback(c, r, day, end)
      BY <2>9, <2>a DEF AcquireConcurrency, ReleaseAfterError, ClaimRun, Start, CheckKey, Crash,
                           Abandon
    <3>3. Others /\ client'[c].pc # "delete"
      BY <1>a, <1>e, <2>a, <3>2, ClientMoves
    <3>4. \/ UNCHANGED run
          \/ EndRun(c, r)
          \/ run' = [run EXCEPT ![r].state = "running"]
          \/ run' = [run EXCEPT ![r].started = "yes"]
      BY <2>9, <2>a DEF AcquireConcurrency, ReleaseAfterError, ClaimRun, Start, CheckKey, Crash,
                           Abandon
    <3>5. \A q \in Runs : run'[q].day = run[q].day
      BY <1>a, <2>a, <3>4 DEF EndRun, RunRecord
    <3> QED BY <1>1, <3>1, <3>3, <3>5
  <2> QED BY <1>3, <2>1, <2>2, <2>3, <2>4, <2>5, <2>6, <2>7, <2>8, <2>9 DEF ClientNext
<1>4. ASSUME NEW r \in Runs, LeaseExpires(r) \/ SlotExpires(r) \/ RateExpires(r)
      PROVE  BudgetExact'
  <2>1. UNCHANGED <<used, keys, spent, client>>
    BY <1>4 DEF LeaseExpires, SlotExpires, RateExpires
  <2>2. \A q \in Runs : run'[q].day = run[q].day
    BY <1>4, <1>a DEF LeaseExpires, SlotExpires, RateExpires, RunRecord
  <2> QED BY <1>1, <2>1, <2>2
<1>5. CASE NewDay \/ Toggle
  BY <1>1, <1>5 DEF NewDay, Toggle
<1> QED BY <1>2, <1>3, <1>4, <1>5 DEF Next

\* BudgetExact, in a system without faults: each daily counter is what the runs
\* of that day owe, through retries, crashes, cancellations and rollbacks.
THEOREM AccountingIsExact ==
  ASSUME Faults = {}
  PROVE  Spec => []BudgetExact
<1>1. Init => BudgetExact
  <2> SUFFICES ASSUME Init, NEW d \in Days, NEW s \in Scopes
               PROVE  used[d][s] = SumFunction([r \in Runs |-> Charge(r, d, s)])
    BY DEF BudgetExact
  <2>1. TypeOK
    BY InitType
  <2> DEFINE f == [r \in Runs |-> Charge(r, d, s)]
  <2>2. \A r \in Runs : Owes(r) = 0
    <3> SUFFICES ASSUME NEW r \in Runs PROVE Owes(r) = 0
      OBVIOUS
    <3>1. spent[r] = -1 /\ r \notin keys
      BY DEF Init
    <3> QED BY <2>1, <3>1, OwesCases
  <2>3. f \in [Runs -> Int] /\ \A r \in Runs : f[r] = 0
    BY <2>2 DEF Charge
  <2> HIDE DEF f
  <2>4. SumFunction(f) = 0
    BY <2>3, Constants, SumType
  <2>5. used[d][s] = 0
    BY DEF Init
  <2> QED BY <2>4, <2>5 DEF f
<1>2. OwnersInv /\ OwnersInv' /\ BudgetExact /\ [Next]_vars => BudgetExact'
  BY ExactStep
<1> QED BY <1>1, <1>2, Owners, PTL DEF Spec
=============================================================================
