----------------------------- MODULE Membership -----------------------------
(***************************************************************************)
(* The members of one organization and their roles.  Administrators add    *)
(* and remove members and set roles in concurrent requests.  The database  *)
(* runs at its default isolation (READ COMMITTED): a request reads, then   *)
(* deletes the role rows it can see, then inserts and commits.             *)
(***************************************************************************)
EXTENDS Naturals, FiniteSets

CONSTANTS
  Users,
  MemberIds,  \* primary keys of organization_members, each given out once
  Requests,   \* concurrent requests
  Unused,     \* the owner of a key that was not given out yet
  Gone        \* the owner of the key of a deleted row

ASSUME MembershipAssumption ==
  Unused # Gone /\ Unused \notin Users /\ Gone \notin Users

ADMIN_ROLE == "organization_admin"
MEMBER_ROLE == "member"
RoleCodes == {ADMIN_ROLE, MEMBER_ROLE}

VARIABLES
  owner,   \* owner[m]: the user of the OrganizationMember row m
  roles,   \* roles[m]: the MemberRole rows of m
  active,  \* users whose is_active is set
  req      \* what each request is doing

vars == <<owner, roles, active, req>>

\* The rows that exist, the administrators, and the rows of a user.
Members == {m \in MemberIds : owner[m] \in Users}
Administrators == {m \in Members : ADMIN_ROLE \in roles[m]}
MemberOf(u) == {m \in Members : owner[m] = u}

NoRequest == [pc |-> "idle"]
RequestRecord ==
  [pc : {"add"}, user : Users]
  \cup [pc : {"remove", "delete"}, member : MemberIds]
  \cup [pc : {"roles", "replace"}, member : MemberIds, codes : SUBSET RoleCodes]
  \cup [pc : {"insert"}, member : MemberIds, codes : SUBSET RoleCodes,
        seen : SUBSET RoleCodes]
  \cup {NoRequest}

\* Types of the state; a user has one row, and only rows that exist have roles.
TypeOK ==
  /\ owner \in [MemberIds -> Users \cup {Unused, Gone}]
  /\ roles \in [MemberIds -> SUBSET RoleCodes]
  /\ active \subseteq Users
  /\ req \in [Requests -> RequestRecord]
  /\ \A m, n \in Members : owner[m] = owner[n] => m = n
  /\ \A m \in MemberIds \ Members : roles[m] = {}

Init ==
  /\ owner = [m \in MemberIds |-> Unused]
  /\ roles = [m \in MemberIds |-> {}]
  /\ active = Users
  /\ req = [q \in Requests |-> NoRequest]

End(q) == req' = [req EXCEPT ![q] = NoRequest]

-----------------------------------------------------------------------------
(* Requests *)

\* create_organization_in_session: the creator is its first administrator.
CreateOrganization(u) ==
  /\ \A m \in MemberIds : owner[m] = Unused
  /\ \E m \in MemberIds :
       /\ owner' = [owner EXCEPT ![m] = u]
       /\ roles' = [roles EXCEPT ![m] = {ADMIN_ROLE}]
  /\ UNCHANGED <<active, req>>

\* access(): the actor is an active member with ORGANIZATION_MEMBER_MANAGE,
\* which only the administrator role carries.
MayManage(actor) == actor \in active /\ MemberOf(actor) \cap Administrators # {}

\* set_member_roles refuses an empty set before its transaction.
RoleChanges == (SUBSET RoleCodes) \ {{}}

Access(q, actor) ==
  /\ req[q] = NoRequest
  /\ MayManage(actor)
  /\ \/ \E u \in Users : req' = [req EXCEPT ![q] = [pc |-> "add", user |-> u]]
     \/ \E m \in MemberIds : req' = [req EXCEPT ![q] = [pc |-> "remove", member |-> m]]
     \/ \E m \in MemberIds, codes \in RoleChanges :
          req' = [req EXCEPT ![q] = [pc |-> "roles", member |-> m, codes |-> codes]]
  /\ UNCHANGED <<owner, roles, active>>

\* add_member: the look for an existing row and the unique constraint on
\* organization and user act as one test.
AddMember(q) ==
  /\ req[q].pc = "add"
  /\ \/ /\ req[q].user \in active
        /\ MemberOf(req[q].user) = {}
        /\ \E m \in MemberIds :
             /\ owner[m] = Unused
             /\ owner' = [owner EXCEPT ![m] = req[q].user]
             /\ roles' = [roles EXCEPT ![m] = {MEMBER_ROLE}]
     \/ /\ req[q].user \notin active \/ MemberOf(req[q].user) # {}
        /\ UNCHANGED <<owner, roles>>
  /\ End(q)
  /\ UNCHANGED active

\* The test that remove_member and set_member_roles make before they write.
LastAdministrator(m) == m \in Administrators /\ Cardinality(Administrators) = 1

\* remove_member reads the row and counts the administrators.
CheckRemove(q) ==
  /\ req[q].pc = "remove"
  /\ LET m == req[q].member IN
       IF m \in Members /\ ~LastAdministrator(m)
         THEN req' = [req EXCEPT ![q].pc = "delete"]
         ELSE End(q)
  /\ UNCHANGED <<owner, roles, active>>

\* It deletes the roles and the row, with what the foreign key cascades to.
RemoveMember(q) ==
  /\ req[q].pc = "delete"
  /\ LET m == req[q].member IN
       /\ owner' = [owner EXCEPT ![m] = Gone]
       /\ roles' = [roles EXCEPT ![m] = {}]
  /\ End(q)
  /\ UNCHANGED active

\* set_member_roles reads the row, the user, and counts the administrators when
\* the member would lose that role.
CheckRoles(q) ==
  /\ req[q].pc = "roles"
  /\ LET m == req[q].member IN
       IF /\ m \in Members
          /\ owner[m] \in active
          /\ ~LastAdministrator(m) \/ ADMIN_ROLE \in req[q].codes
         THEN req' = [req EXCEPT ![q].pc = "replace"]
         ELSE End(q)
  /\ UNCHANGED <<owner, roles, active>>

\* DELETE takes the role rows that are committed when it starts; rows that
\* another request commits while it waits for a lock are not among them.
DeleteRoles(q) ==
  /\ req[q].pc = "replace"
  /\ req' = [req EXCEPT ![q] =
       [pc |-> "insert", member |-> req[q].member, codes |-> req[q].codes,
        seen |-> roles[req[q].member]]]
  /\ UNCHANGED <<owner, roles, active>>

\* Variant with a bug: only the difference to the roles it has seen is written.
CommitDifference(q) ==
  /\ req[q].pc = "insert"
  /\ LET m == req[q].member
         seen == req[q].seen
         codes == req[q].codes
     IN IF m \in Members
          THEN roles' = [roles EXCEPT ![m] = (@ \ (seen \ codes)) \cup (codes \ seen)]
          ELSE UNCHANGED roles
  /\ End(q)
  /\ UNCHANGED <<owner, active>>

\* Insert and commit, unless the member is gone (foreign key) or another request
\* has inserted one of the roles (primary key).
CommitRoles(q) ==
  /\ req[q].pc = "insert"
  /\ LET m == req[q].member
         left == roles[m] \ req[q].seen
     IN IF m \in Members /\ left \cap req[q].codes = {}
          THEN roles' = [roles EXCEPT ![m] = left \cup req[q].codes]
          ELSE UNCHANGED roles
  /\ End(q)
  /\ UNCHANGED <<owner, active>>

\* A database error or the death of the process rolls the transaction back.
Abort(q) ==
  /\ req[q] # NoRequest
  /\ End(q)
  /\ UNCHANGED <<owner, roles, active>>

\* An operator deactivates a user in the database.
Deactivate(u) ==
  /\ u \in active
  /\ active' = active \ {u}
  /\ UNCHANGED <<owner, roles, req>>

Next ==
  \/ \E u \in Users : CreateOrganization(u)
  \/ \E q \in Requests, u \in Users : Access(q, u)
  \/ \E q \in Requests : AddMember(q)
  \/ \E q \in Requests : CheckRemove(q)
  \/ \E q \in Requests : RemoveMember(q)
  \/ \E q \in Requests : CheckRoles(q)
  \/ \E q \in Requests : DeleteRoles(q)
  \/ \E q \in Requests : CommitRoles(q)
  \/ \E q \in Requests : Abort(q)
  \/ \E u \in Users : Deactivate(u)

Spec == Init /\ [][Next]_vars

-----------------------------------------------------------------------------
(* Properties *)

\* The organization keeps an administrator from its creation on, through
\* additions, removals and role changes.
AdministratorRemains ==
  (\E m \in MemberIds : owner[m] # Unused) => Administrators # {}

\* Every member has a role, also after role changes, removals and additions that
\* run into each other: a member is never left without any permission.
EveryMemberHasRole == \A m \in Members : roles[m] # {}
=============================================================================
