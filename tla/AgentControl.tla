---------------------------- MODULE AgentControl ----------------------------
(***************************************************************************)
(* The managed Agents of one organization in one environment: drafts,      *)
(* immutable versions, the default Agent, releases and the deployment      *)
(* pointer, composed with EvaluationRuns, whose policies and verdicts the  *)
(* release gate reads.                                                     *)
(*                                                                         *)
(* One action is one transaction, except where a transaction reads what    *)
(* its locks do not protect: create_agent reads whether there are Agents   *)
(* before it inserts, and release reads evaluations and idempotency keys   *)
(* of other Agents under the lock of its own Agent only.  A request that   *)
(* is refused, or answered from its idempotency key, changes nothing.      *)
(***************************************************************************)
EXTENDS EvaluationRuns

CONSTANTS
  Configs,       \* AgentVersionConfig values; a config stands for its digest
  Requests,      \* concurrent API requests
  Keys,          \* idempotency keys, scoped to the organization
  NoKey, NoEvaluation, NoRequest,
  GateMode,      \* evaluation_gate_mode: "off", "advisory" or "required"
  Production,    \* environment == PRODUCTION
  MaxDrafts,     \* bound on draft revisions
  MaxReleases    \* bound on releases

ASSUME ControlAssumption ==
  /\ Configs # {}
  /\ GateMode \in {"off", "advisory", "required"}
  /\ Production \in BOOLEAN
  /\ NoKey \notin Keys
  /\ NoEvaluation \notin EvalRuns
  /\ NoRequest \notin Requests
  /\ MaxDrafts \in Nat \ {0}
  /\ MaxReleases \in Nat

VARIABLES
  agents,    \* AgentDefinition rows
  default,   \* the ones with is_default
  draft,     \* AgentDraft: revision and config
  versions,  \* versions[a]: the configs of versions 1, 2, ...
  deployed,  \* AgentDeployment: version (0 for no row) and generation
  releases,  \* AgentRelease rows in commit order
  lock,      \* lock[a]: the request that holds the row lock of a
  req        \* what each request is doing

controlVars == <<agents, default, draft, versions, deployed, releases, lock,
                 req>>

vars == <<evalVars, controlVars>>

Idle == [pc |-> "idle"]

\* Rows of AgentDraft (revision 0 for no row), AgentDeployment and AgentRelease.
DraftRow == [revision : 0..MaxDrafts, config : Configs]
DeploymentRow == [version : Versions \cup {0}, generation : Nat]
ReleaseRow ==
  [agent : Agents, version : Versions, previous : Versions \cup {0},
   action : {"deploy", "rollback"}, key : Keys \cup {NoKey}, bypass : BOOLEAN,
   evaluation : EvalRuns \cup {NoEvaluation}, expected : -1..MaxReleases,
   decision : {"bypassed", "not_required", "not_configured", "missing", "stale",
               "incomplete", "failed", "passed"},
   policy : PolicyRecord]

\* What a release request asks for; expected = -1 when the client gives none.
ReleaseRequest ==
  [agent : Agents, version : Versions, action : {"deploy", "rollback"},
   key : Keys \cup {NoKey}, bypass : BOOLEAN,
   evaluation : EvalRuns \cup {NoEvaluation}, expected : -1..MaxReleases]

Init ==
  /\ InitEvaluations
  /\ agents = {}
  /\ default = {}
  /\ draft = [a \in Agents |-> [revision |-> 0, config |-> CHOOSE c \in Configs : TRUE]]
  /\ versions = [a \in Agents |-> <<>>]
  /\ deployed = [a \in Agents |-> [version |-> 0, generation |-> 0]]
  /\ releases = <<>>
  /\ lock = [a \in Agents |-> NoRequest]
  /\ req = [q \in Requests |-> Idle]

LockFree(a) == lock[a] = NoRequest

-----------------------------------------------------------------------------
(* create_agent, update_draft, create_version, set_default *)

\* The new Agent will be the default one if none is seen.
SeeAgents(q, a) ==
  /\ req[q] = Idle
  /\ req' = [req EXCEPT ![q] = [pc |-> "creating", agent |-> a,
                                default |-> agents = {}]]
  /\ UNCHANGED <<evalVars, agents, default, draft, versions, deployed, releases,
                 lock>>

\* The unique code and the one-default index refuse the second of two inserts.
Conflicts(q) ==
  \/ req[q].agent \in agents
  \/ req[q].default /\ default # {}

CreateAgent(q, c) ==
  /\ req[q].pc = "creating"
  /\ req' = [req EXCEPT ![q] = Idle]
  /\ IF Conflicts(q)
       THEN UNCHANGED <<agents, default, draft>>
       ELSE /\ agents' = agents \cup {req[q].agent}
            /\ default' = default \cup (IF req[q].default THEN {req[q].agent} ELSE {})
            /\ draft' = [draft EXCEPT ![req[q].agent] =
                           [revision |-> 1, config |-> c]]
  /\ UNCHANGED <<evalVars, versions, deployed, releases, lock>>

UpdateDraft(a, c) ==
  /\ a \in agents
  /\ draft[a].revision < MaxDrafts
  /\ draft' = [draft EXCEPT ![a] = [revision |-> @.revision + 1, config |-> c]]
  /\ UNCHANGED <<evalVars, agents, default, versions, deployed, releases, lock,
                 req>>

\* Variant with a bug: an unchanged draft makes a version, too.
CreateVersionAlways(a) ==
  /\ a \in agents
  /\ LockFree(a)
  /\ Len(versions[a]) + 1 \in Versions
  /\ versions' = [versions EXCEPT ![a] = Append(@, draft[a].config)]
  /\ UNCHANGED <<evalVars, agents, default, draft, deployed, releases, lock, req>>

CreateVersion(a) ==
  /\ a \in agents
  /\ LockFree(a)
  /\ Len(versions[a]) + 1 \in Versions
  /\ versions[a] # <<>> => versions[a][Len(versions[a])] # draft[a].config
  /\ versions' = [versions EXCEPT ![a] = Append(@, draft[a].config)]
  /\ UNCHANGED <<evalVars, agents, default, draft, deployed, releases, lock,
                 req>>

SetDefault(a) ==
  /\ a \in agents
  /\ \A b \in agents : LockFree(b)
  /\ default' = {a}
  /\ UNCHANGED <<evalVars, agents, draft, versions, deployed, releases, lock,
                 req>>

-----------------------------------------------------------------------------
(* release *)

KeyUsed(key) ==
  key # NoKey /\ \E i \in DOMAIN releases : releases[i].key = key

\* The checks before the transaction.
WellFormed(ask) ==
  /\ Production => ask.bypass
  /\ ask.bypass => ask.evaluation = NoEvaluation
  /\ ~Production /\ GateMode = "off" => ask.evaluation = NoEvaluation

GateApplies(ask) == ~ask.bypass /\ ~Production /\ GateMode # "off"

Decision(ask) ==
  IF ask.bypass THEN "bypassed"
  ELSE IF GateApplies(ask) THEN AssessRelease(ask.agent, ask.version, ask.evaluation)
  ELSE "not_required"

\* Variant with a bug: any evaluation of the version under the policy will do.
GateAdmitsUnfinished(ask) ==
  GateApplies(ask) =>
    /\ ask.evaluation # NoEvaluation => Decision(ask) \notin {"not_configured", "invalid"}
    /\ GateMode = "required" => Decision(ask) \in {"passed", "incomplete"}

GateAdmits(ask) ==
  GateApplies(ask) =>
    /\ ask.evaluation # NoEvaluation => Decision(ask) \notin {"not_configured", "invalid"}
    /\ GateMode = "required" => Decision(ask) = "passed"

\* gate_policy_digest, with NoPolicy for null.
GatePolicy(ask) ==
  IF GateApplies(ask) /\ policy[ask.agent].enabled
    THEN policy[ask.agent] ELSE NoPolicy

RollbackTarget(ask) ==
  \E i \in DOMAIN releases : releases[i].agent = ask.agent
                               /\ releases[i].version = ask.version

\* Variant with a bug: the expected generation is not compared again.
GenerationUnchecked(ask) == deployed[ask.agent].version # ask.version

GenerationCurrent(ask) ==
  /\ ask.expected \in {-1, deployed[ask.agent].generation}
  /\ deployed[ask.agent].version # ask.version

Admissible(ask) ==
  /\ WellFormed(ask)
  /\ ask.agent \in agents
  /\ ~KeyUsed(ask.key)
  /\ ask.version \in DOMAIN versions[ask.agent]
  /\ GateAdmits(ask)
  /\ ask.action = "rollback" => RollbackTarget(ask)
  /\ GenerationCurrent(ask)

\* The lock of the Agent row, the look at the key under it, and every check
\* that the lock protects until the commit.  The look at the key before the
\* lock refuses nothing that this one would admit.
LockAgent(q) ==
  /\ req[q] = Idle
  /\ \E ask \in ReleaseRequest :
       /\ LockFree(ask.agent)
       /\ Admissible(ask)
       /\ lock' = [lock EXCEPT ![ask.agent] = q]
       /\ req' = [req EXCEPT ![q] =
                    [pc |-> "locked", ask |-> ask, decision |-> Decision(ask),
                     policy |-> GatePolicy(ask)]]
  /\ UNCHANGED <<evalVars, agents, default, draft, versions, deployed, releases>>

\* The unique index on organization and key is what two Agents share.
Insertable(ask) == ~KeyUsed(ask.key)

Commit(q) ==
  LET ask == req[q].ask
      old == deployed[ask.agent]
  IN /\ req[q].pc = "locked"
     /\ Len(releases) < MaxReleases
     /\ lock' = [lock EXCEPT ![ask.agent] = NoRequest]
     /\ req' = [req EXCEPT ![q] = Idle]
     /\ IF Insertable(ask)
          THEN /\ deployed' = [deployed EXCEPT ![ask.agent] =
                    [version |-> ask.version, generation |-> old.generation + 1]]
               /\ releases' = Append(releases,
                    [agent |-> ask.agent, version |-> ask.version,
                     previous |-> old.version, action |-> ask.action,
                     key |-> ask.key, bypass |-> ask.bypass,
                     evaluation |-> ask.evaluation, expected |-> ask.expected,
                     decision |-> req[q].decision, policy |-> req[q].policy])
          ELSE UNCHANGED <<deployed, releases>>
     /\ UNCHANGED <<evalVars, agents, default, draft, versions>>

-----------------------------------------------------------------------------
(* What EvaluationService does with a managed Agent *)

\* Variant with a bug: the policy is written without the lock of the Agent.
WritePolicyUnlocked(a, s, t, enabled) ==
  /\ a \in agents
  /\ UpsertPolicy(a, s, t, enabled)
  /\ UNCHANGED controlVars

\* upsert_policy takes the lock of the Agent row as release does.
WritePolicy(a, s, t, enabled) ==
  /\ a \in agents
  /\ LockFree(a)
  /\ UpsertPolicy(a, s, t, enabled)
  /\ UNCHANGED controlVars

Evaluate(p, r, a, v) ==
  /\ a \in agents
  /\ v \in DOMAIN versions[a]
  /\ CreateRun(p, r, a, v)
  /\ UNCHANGED controlVars

RunEvaluations ==
  /\ \/ EditDataset
     \/ \E r \in EvalRuns : RequestCancel(r)
     \/ \E p \in Processes, r \in EvalRuns : TaskStep(p, r) \/ TaskFails(p, r)
     \/ \E p \in Processes :
          Close(p) \/ Stopped(p) \/ Crash(p) \/ Start(p) \/ StartSkipping(p)
  /\ UNCHANGED controlVars

Next ==
  \/ \E q \in Requests, a \in Agents : SeeAgents(q, a)
  \/ \E q \in Requests, c \in Configs : CreateAgent(q, c)
  \/ \E a \in Agents, c \in Configs : UpdateDraft(a, c)
  \/ \E a \in Agents : CreateVersion(a)
  \/ \E a \in Agents : SetDefault(a)
  \/ \E q \in Requests : LockAgent(q)
  \/ \E q \in Requests : Commit(q)
  \/ \E a \in Agents, s \in DOMAIN dataset.versions, t \in Thresholds, b \in BOOLEAN :
       WritePolicy(a, s, t, b)
  \/ \E p \in Processes, r \in EvalRuns, a \in Agents, v \in Versions :
       Evaluate(p, r, a, v)
  \/ RunEvaluations

Spec == Init /\ [][Next]_vars

-----------------------------------------------------------------------------
(* Properties *)

\* Types of the control-plane state; versions of an Agent differ from the one
\* before, and locks and the requests that hold them agree.
ControlTypeOK ==
  /\ TypeOK
  /\ default \subseteq agents /\ agents \subseteq Agents
  /\ draft \in [Agents -> DraftRow]
  /\ versions \in [Agents -> Seq(Configs)]
  /\ \A a \in Agents : \A i \in 1..(Len(versions[a]) - 1) :
       versions[a][i] # versions[a][i + 1]
  /\ deployed \in [Agents -> DeploymentRow]
  /\ releases \in Seq(ReleaseRow)
  /\ lock \in [Agents -> Requests \cup {NoRequest}]
  /\ \A a \in Agents, q \in Requests :
       lock[a] = q => req[q].pc = "locked" /\ req[q].ask.agent = a

\* The positions of the releases of a, in commit order.
ReleasesOf(a) == {i \in DOMAIN releases : releases[i].agent = a}

Generation(i) == Cardinality({j \in ReleasesOf(releases[i].agent) : j <= i})

\* The releases of an Agent are a history of its deployment: each starts from
\* the version the one before deployed, the last one is deployed, the
\* generation counts them, a client that expected a generation missed none,
\* and a rollback returns to a version that was deployed (release).
ReleasesFormHistory ==
  \A a \in Agents :
    /\ deployed[a].generation = Cardinality(ReleasesOf(a))
    /\ \A i \in ReleasesOf(a) :
         LET before == {j \in ReleasesOf(a) : j < i}
         IN /\ releases[i].expected # -1 =>
                 Generation(i) = releases[i].expected + 1
            /\ releases[i].previous =
                 IF before = {} THEN 0
                 ELSE releases[CHOOSE j \in before : \A k \in before : k <= j].version
            /\ releases[i].previous # releases[i].version
            /\ releases[i].action = "rollback" =>
                 \E j \in before : releases[j].version = releases[i].version
            /\ (\A j \in ReleasesOf(a) : j <= i) =>
                 deployed[a].version = releases[i].version

\* In required mode no version is deployed without a bypass unless a finished
\* evaluation of this very version passed under the policy that the release
\* names (assess_release).
ReleaseHasEvidence ==
  GateMode = "required" /\ ~Production =>
    \A i \in DOMAIN releases :
      LET rel == releases[i]
      IN ~rel.bypass =>
           /\ rel.evaluation \in EvalRuns
           /\ row[rel.evaluation].status = "completed"
           /\ row[rel.evaluation].passed
           /\ row[rel.evaluation].agent = rel.agent
           /\ row[rel.evaluation].version = rel.version
           /\ row[rel.evaluation].policy = rel.policy

\* The policy a gated release is judged by is the one in force when it commits:
\* no policy update slips between the assessment and the commit.
PolicyInForce ==
  [][\A i \in DOMAIN releases' \ DOMAIN releases :
       releases'[i].policy \in {NoPolicy, policy'[releases'[i].agent]}]_vars
=============================================================================
