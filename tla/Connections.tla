----------------------------- MODULE Connections -----------------------------
(***************************************************************************)
(* External connections to one MCP server: the personal connection of one  *)
(* user and the connections of the organization, their credential          *)
(* references in the database and the secrets in the vault.  Requests      *)
(* authorize, refresh, rotate and disconnect; workers renew an expired     *)
(* client-credentials token in place; start-up retries revocations.        *)
(*                                                                         *)
(* One action is one transaction, one call of the vault or one exchange    *)
(* with the authorization server.                                          *)
(***************************************************************************)
EXTENDS Naturals, FiniteSets

CONSTANTS
  Personal,    \* the row of the personal connection
  OrgRows,     \* rows that organization connections may take
  Refs,        \* credential references, one per vault.put
  NoRef,
  States,      \* OAuth states: authorizations the user may begin
  Requests     \* concurrent requests and worker calls

ASSUME ConnectionsAssumption ==
  /\ Personal \notin OrgRows
  /\ NoRef \notin Refs

Rows == {Personal} \cup OrgRows

VARIABLES
  kind,      \* the vault of the deployment: "memory" or "hashicorp_vault"
  conn,      \* conn[c]: ExternalConnection: status and credential_reference
  record,    \* record[f]: status of the CredentialReference row, or "none"
  vault,     \* vault[f]: whether the vault holds the secret
  grant,     \* grant[s]: ExternalAuthorizationGrant and its Redis transaction
  req,       \* what each request is doing
  consented, \* history: the user authorized since the last disconnect
  lost,      \* history: secrets that a restart emptied out of a memory vault, and
             \* references whose commit succeeded but was not heard of
  revived    \* history: secrets that vault.replace wrote again after their deletion

vars == <<kind, conn, record, vault, grant, req, consented, lost, revived>>

Absent == [status |-> "absent", ref |-> NoRef]
Idle == [pc |-> "idle", row |-> Personal, old |-> NoRef, new |-> NoRef]

TypeOK ==
  /\ kind \in {"memory", "hashicorp_vault"}
  /\ conn \in [Rows -> [status : {"absent", "active", "disconnected"},
                        ref : Refs \cup {NoRef}]]
  /\ record \in [Refs -> {"none", "active", "revocation_pending", "revoked"}]
  /\ vault \in [Refs -> {"unused", "live", "gone"}]
  /\ grant \in [States -> {"none", "open", "used"}]
  /\ req \in [Requests ->
       [pc : {"idle", "exchange", "put", "persist", "insert", "refresh",
              "revoke", "mark", "withdraw", "read", "renew"},
        row : Rows, old : Refs \cup {NoRef}, new : Refs \cup {NoRef}]]
  /\ consented \in BOOLEAN
  /\ lost \in SUBSET Refs
  /\ revived \in SUBSET Refs
  /\ \A c \in Rows : conn[c].status = "absent" <=> conn[c].ref = NoRef

Init ==
  /\ kind \in {"memory", "hashicorp_vault"}
  /\ conn = [c \in Rows |-> Absent]
  /\ record = [f \in Refs |-> "none"]
  /\ vault = [f \in Refs |-> "unused"]
  /\ grant = [s \in States |-> "none"]
  /\ req = [q \in Requests |-> Idle]
  /\ consented = FALSE
  /\ lost = {}
  /\ revived = {}

Goto(q, pc) == req' = [req EXCEPT ![q].pc = pc]
End(q) == req' = [req EXCEPT ![q] = Idle]

-----------------------------------------------------------------------------
(* Authorization of a personal connection *)

BeginPersonalAuthorization(s) ==
  /\ grant[s] = "none"
  /\ grant' = [grant EXCEPT ![s] = "open"]
  /\ UNCHANGED <<kind, conn, record, vault, req, consented, lost, revived>>

\* The callback takes the transaction out of Redis and marks the grant used.
ConsumeState(q, s) ==
  /\ req[q] = Idle
  /\ grant[s] = "open"
  /\ grant' = [grant EXCEPT ![s] = "used"]
  /\ req' = [req EXCEPT ![q] = [Idle EXCEPT !.pc = "exchange"]]
  /\ UNCHANGED <<kind, conn, record, vault, consented, lost, revived>>

\* Tokens come from the authorization server; any failure ends the request.
Exchange(q) ==
  /\ req[q].pc \in {"exchange", "refresh"}
  /\ Goto(q, "put") \/ End(q)
  /\ UNCHANGED <<kind, conn, record, vault, grant, consented, lost, revived>>

\* vault.put under a fresh reference.
Put(q) ==
  /\ req[q].pc = "put"
  /\ \/ \E f \in Refs :
          /\ vault[f] = "unused"
          /\ vault' = [vault EXCEPT ![f] = "live"]
          /\ req' = [req EXCEPT ![q].pc = "persist", ![q].new = f]
     \/ End(q) /\ UNCHANGED vault
  /\ UNCHANGED <<kind, conn, record, grant, consented, lost, revived>>

-----------------------------------------------------------------------------
(* Refresh, rotation, disconnect *)

\* refresh_connection does not look at the status of the connection.
RefreshConnection(q) ==
  /\ req[q] = Idle
  /\ conn[Personal].status # "absent"
  /\ vault[conn[Personal].ref] = "live"
  /\ req' = [req EXCEPT ![q] = [Idle EXCEPT !.pc = "refresh",
                                            !.old = conn[Personal].ref]]
  /\ UNCHANGED <<kind, conn, record, vault, grant, consented, lost, revived>>

CreateOrganizationConnection(q) ==
  /\ req[q] = Idle
  /\ \E c \in OrgRows : req' = [req EXCEPT ![q] = [Idle EXCEPT !.pc = "put", !.row = c]]
  /\ UNCHANGED <<kind, conn, record, vault, grant, consented, lost, revived>>

\* Variant with a bug: the row forgets the reference it had.
DisconnectForgetting(q, c) ==
  /\ req[q] = Idle
  /\ conn[c].status # "absent"
  /\ conn' = [conn EXCEPT ![c] = [status |-> "disconnected", ref |-> NoRef]]
  /\ record' = [record EXCEPT ![conn[c].ref] = "revocation_pending"]
  /\ req' = [req EXCEPT ![q] = [Idle EXCEPT !.pc = "revoke", !.old = conn[c].ref]]
  /\ UNCHANGED <<kind, vault, grant, consented, lost, revived>>

Disconnect(q, c) ==
  /\ req[q] = Idle
  /\ conn[c].status # "absent"
  /\ conn' = [conn EXCEPT ![c].status = "disconnected"]
  /\ record' = [record EXCEPT ![conn[c].ref] = "revocation_pending"]
  /\ req' = [req EXCEPT ![q] = [Idle EXCEPT !.pc = "revoke", !.old = conn[c].ref]]
  /\ consented' = (consented /\ c # Personal)
  /\ UNCHANGED <<kind, vault, grant, lost, revived>>

\* The rows of the old and the new reference when a connection changes.
Replace(old, new) ==
  [record EXCEPT ![old] = "revocation_pending", ![new] = "active"]

\* Variant with a bug: the refresh does not compare the reference again.
StillCurrentAlways(q) == TRUE

\* _persist_personal_refresh compares the reference it started from.
StillCurrent(q) == req[q].old = NoRef \/ conn[req[q].row].ref = req[q].old

\* A refresh replaces the reference it started from, the others what they find.
Replaced(q, c) == IF req[q].old = NoRef THEN conn[c].ref ELSE req[q].old

\* A row that the request finds: an organization connection of the server may
\* have any of the rows.
Found(q) ==
  IF req[q].row = Personal THEN {Personal} \cap {c \in Rows : conn[c] # Absent}
                           ELSE {c \in OrgRows : conn[c] # Absent}

\* The request hears of its commit and goes on; or the answer is lost on the way
\* and the handler of the exception withdraws the reference it believes unstored.
Committed(q, next) ==
  \/ req' = [req EXCEPT ![q] = next] /\ UNCHANGED lost
  \/ Goto(q, "withdraw") /\ lost' = lost \cup {req[q].new}

\* The transaction that stores the new reference finds the row and locks it, or
\* fails and the new secret is withdrawn.
Persist(q) ==
  /\ req[q].pc = "persist"
  /\ \/ \E c \in Found(q) :
          /\ StillCurrent(q)
          /\ conn' = [conn EXCEPT ![c] = [status |-> "active", ref |-> req[q].new]]
          /\ record' = Replace(Replaced(q, c), req[q].new)
          /\ consented' = IF c = Personal /\ req[q].old = NoRef
                            THEN TRUE ELSE consented
          /\ Committed(q, [req[q] EXCEPT !.pc = "revoke", !.old = Replaced(q, c)])
     \/ /\ Found(q) = {}
        /\ Goto(q, "insert")
        /\ UNCHANGED <<conn, record, consented, lost>>
     \/ /\ Goto(q, "withdraw")
        /\ UNCHANGED <<conn, record, consented, lost>>
  /\ UNCHANGED <<kind, vault, grant, revived>>

\* It found none and inserts one.  The unique constraint covers the owner, so
\* that it holds back a second personal row but no row whose owner is NULL.
Insert(q) ==
  /\ req[q].pc = "insert"
  /\ \/ \E c \in IF req[q].row = Personal THEN {Personal} ELSE OrgRows :
          /\ conn[c] = Absent
          /\ conn' = [conn EXCEPT ![c] = [status |-> "active", ref |-> req[q].new]]
          /\ record' = [record EXCEPT ![req[q].new] = "active"]
          /\ consented' = (consented \/ c = Personal)
          /\ Committed(q, Idle)
     \/ /\ Goto(q, "withdraw")
        /\ UNCHANGED <<conn, record, consented, lost>>
  /\ UNCHANGED <<kind, vault, grant, revived>>

-----------------------------------------------------------------------------
(* Revocation *)

\* vault.revoke may fail; the row then stays "revocation_pending".
Revoke(q) ==
  /\ req[q].pc = "revoke"
  /\ \/ vault' = [vault EXCEPT ![req[q].old] = "gone"] /\ Goto(q, "mark")
     \/ End(q) /\ UNCHANGED vault
  /\ UNCHANGED <<kind, conn, record, grant, consented, lost, revived>>

\* _mark_reference_revoked
MarkRevoked(q) ==
  /\ req[q].pc = "mark"
  /\ record' = [record EXCEPT ![req[q].old] = "revoked"]
  /\ End(q)
  /\ UNCHANGED <<kind, conn, vault, grant, consented, lost, revived>>

\* _revoke_uncommitted_reference
Withdraw(q) ==
  /\ req[q].pc = "withdraw"
  /\ \/ vault' = [vault EXCEPT ![req[q].new] = "gone"]
     \/ UNCHANGED vault
  /\ End(q)
  /\ UNCHANGED <<kind, conn, record, grant, consented, lost, revived>>

\* Variant with a bug: every reference that is not revoked yet is taken.
RetryUnrevoked(q, f) ==
  /\ req[q] = Idle
  /\ record[f] \in {"active", "revocation_pending"}
  /\ req' = [req EXCEPT ![q] = [Idle EXCEPT !.pc = "revoke", !.old = f]]
  /\ UNCHANGED <<kind, conn, record, vault, grant, consented, lost, revived>>

\* retry_pending_revocations, one reference at a time.
RetryPending(q, f) ==
  /\ req[q] = Idle
  /\ record[f] = "revocation_pending"
  /\ req' = [req EXCEPT ![q] = [Idle EXCEPT !.pc = "revoke", !.old = f]]
  /\ UNCHANGED <<kind, conn, record, vault, grant, consented, lost, revived>>

-----------------------------------------------------------------------------
(* VaultAccessTokenProvider of an organization connection *)

\* A worker takes the reference of an active connection.
TakeReference(q, c) ==
  /\ req[q] = Idle
  /\ conn[c].status = "active"
  /\ req' = [req EXCEPT ![q] = [Idle EXCEPT !.pc = "read", !.old = conn[c].ref]]
  /\ UNCHANGED <<kind, conn, record, vault, grant, consented, lost, revived>>

\* get_access_token: the secret is missing, or its token has expired and a new
\* one is asked for.
ReadExpired(q) ==
  /\ req[q].pc = "read"
  /\ IF vault[req[q].old] = "live" THEN Goto(q, "renew") ELSE End(q)
  /\ UNCHANGED <<kind, conn, record, vault, grant, consented, lost, revived>>

\* vault.replace: the memory vault refuses a reference it does not hold, the
\* HashiCorp client writes it like put does.
Renew(q) ==
  /\ req[q].pc = "renew"
  /\ IF kind = "memory" THEN UNCHANGED <<vault, revived>>
     ELSE /\ vault' = [vault EXCEPT ![req[q].old] = "live"]
          /\ revived' = revived \cup ({req[q].old} \cap {f \in Refs : vault[f] = "gone"})
  /\ End(q)
  /\ UNCHANGED <<kind, conn, record, grant, consented, lost>>

-----------------------------------------------------------------------------
(* Faults *)

\* A request is cancelled, or its process dies: no handler of Exception runs.
Abandon(q) ==
  /\ req[q] # Idle
  /\ End(q)
  /\ UNCHANGED <<kind, conn, record, vault, grant, consented, lost, revived>>

\* The process that keeps the secrets in its memory starts again: every request
\* dies with it, and _values is an empty dictionary.
Restart ==
  /\ kind = "memory"
  /\ req' = [q \in Requests |-> Idle]
  /\ vault' = [f \in Refs |-> IF vault[f] = "live" THEN "gone" ELSE vault[f]]
  /\ lost' = lost \cup {f \in Refs : vault[f] = "live"}
  /\ UNCHANGED <<kind, conn, record, grant, consented, revived>>

Next ==
  \/ \E s \in States : BeginPersonalAuthorization(s)
  \/ \E q \in Requests, s \in States : ConsumeState(q, s)
  \/ \E q \in Requests : Exchange(q)
  \/ \E q \in Requests : Put(q)
  \/ \E q \in Requests : RefreshConnection(q)
  \/ \E q \in Requests : CreateOrganizationConnection(q)
  \/ \E q \in Requests, c \in Rows : Disconnect(q, c)
  \/ \E q \in Requests : Persist(q)
  \/ \E q \in Requests : Insert(q)
  \/ \E q \in Requests : Revoke(q)
  \/ \E q \in Requests : MarkRevoked(q)
  \/ \E q \in Requests : Withdraw(q)
  \/ \E q \in Requests, f \in Refs : RetryPending(q, f)
  \/ \E q \in Requests, c \in OrgRows : TakeReference(q, c)
  \/ \E q \in Requests : ReadExpired(q)
  \/ \E q \in Requests : Renew(q)
  \/ \E q \in Requests : Abandon(q)
  \/ Restart

Spec == Init /\ [][Next]_vars

-----------------------------------------------------------------------------
(* Properties *)

\* An active connection keeps its secret: no revocation by a refresh, rotation,
\* disconnect, clean-up or start-up retry that runs beside it takes the reference
\* that the connection uses.  Two faults do take it: a restart of a process with
\* a memory vault, and the handler of a commit whose answer was lost, which
\* revokes the reference it has stored.
ActiveHasSecret ==
  \A c \in Rows : conn[c].status = "active" =>
    /\ record[conn[c].ref] = "active"
    /\ vault[conn[c].ref] = "live" \/ conn[c].ref \in lost

\* A stored secret that no active connection uses is on the list that start-up
\* retries, until the vault has deleted it; and nothing brings a deleted secret
\* back except a renewal under way that the HashiCorp client does not refuse.
RevocationIsRemembered ==
  \A f \in Refs :
    /\ record[f] # "none"
    /\ vault[f] = "live"
    /\ \A c \in Rows : conn[c].status = "active" => conn[c].ref # f
    => record[f] = "revocation_pending" \/ f \in revived

\* A disconnected personal connection is active again only after the user has
\* authorized it again.
ActiveIsConsented == conn[Personal].status = "active" => consented
=============================================================================
