-------------------------- MODULE MembershipProofs --------------------------
(***************************************************************************)
(* Machine-checked proofs about Membership, for every set of users, keys   *)
(* and concurrent requests.                                                *)
(***************************************************************************)
EXTENDS Membership, TLAPS

\* A role change that passed set_member_roles' first test names a role.
RoleChangesName ==
  \A q \in Requests :
    req[q].pc \in {"roles", "replace", "insert"} => req[q].codes # {}

\* EveryMemberHasRole alone is not inductive: what a commit leaves behind is
\* known only from the codes that the request has carried since its access.
MemberInv == TypeOK /\ EveryMemberHasRole /\ RoleChangesName

\* The end of a request only empties its own record.
LEMMA EndKeeps ==
  ASSUME TypeOK, RoleChangesName, NEW q \in Requests, End(q)
  PROVE  req' \in [Requests -> RequestRecord] /\ RoleChangesName'
<1>1. NoRequest \in RequestRecord /\ NoRequest.pc = "idle"
  BY DEF NoRequest, RequestRecord
<1> QED BY <1>1 DEF End, TypeOK, RoleChangesName

\* A member gets a row of its own: creation and add_member.
LEMMA InsertKeeps ==
  ASSUME TypeOK, EveryMemberHasRole, NEW u \in Users, NEW m \in MemberIds,
         NEW codes \in SUBSET RoleCodes, codes # {},
         owner[m] = Unused, MemberOf(u) = {},
         owner' = [owner EXCEPT ![m] = u], roles' = [roles EXCEPT ![m] = codes]
  PROVE  /\ owner' \in [MemberIds -> Users \cup {Unused, Gone}]
         /\ roles' \in [MemberIds -> SUBSET RoleCodes]
         /\ (\A k, n \in Members : owner[k] = owner[n] => k = n)'
         /\ (\A k \in MemberIds \ Members : roles[k] = {})'
         /\ EveryMemberHasRole'
<1>1. Members' = Members \cup {m}
  BY DEF Members, TypeOK
<1>2. \A k \in Members : owner[k] # u
  BY DEF MemberOf
<1>3. m \notin Members
  BY MembershipAssumption DEF Members
<1> QED BY <1>1, <1>2, <1>3 DEF TypeOK, EveryMemberHasRole, Members

\* The roles of a member that exists are replaced by others.
LEMMA ReplaceKeeps ==
  ASSUME TypeOK, EveryMemberHasRole, NEW m \in Members,
         NEW codes \in SUBSET RoleCodes, codes # {},
         UNCHANGED owner, roles' = [roles EXCEPT ![m] = codes]
  PROVE  /\ roles' \in [MemberIds -> SUBSET RoleCodes]
         /\ (\A k \in MemberIds \ Members : roles[k] = {})'
         /\ EveryMemberHasRole'
BY DEF TypeOK, EveryMemberHasRole, Members

\* A row that is removed takes its roles along.
LEMMA DeleteKeeps ==
  ASSUME TypeOK, EveryMemberHasRole, NEW m \in MemberIds,
         owner' = [owner EXCEPT ![m] = Gone], roles' = [roles EXCEPT ![m] = {}]
  PROVE  /\ owner' \in [MemberIds -> Users \cup {Unused, Gone}]
         /\ roles' \in [MemberIds -> SUBSET RoleCodes]
         /\ (\A k, n \in Members : owner[k] = owner[n] => k = n)'
         /\ (\A k \in MemberIds \ Members : roles[k] = {})'
         /\ EveryMemberHasRole'
<1>1. Members' = Members \ {m}
  BY MembershipAssumption DEF Members, TypeOK
<1> QED BY <1>1 DEF TypeOK, EveryMemberHasRole, Members

\* Every step keeps the inductive invariant.
LEMMA MemberStep ==
  ASSUME MemberInv, [Next]_vars
  PROVE  MemberInv'
<1> USE DEF MemberInv
<1>1. ASSUME NEW u \in Users, CreateOrganization(u) PROVE MemberInv'
  <2>1. PICK m \in MemberIds : /\ owner' = [owner EXCEPT ![m] = u]
                               /\ roles' = [roles EXCEPT ![m] = {ADMIN_ROLE}]
    BY <1>1 DEF CreateOrganization
  <2>2. owner[m] = Unused /\ MemberOf(u) = {}
    BY <1>1, MembershipAssumption DEF CreateOrganization, MemberOf, Members
  <2>3. {ADMIN_ROLE} \in SUBSET RoleCodes /\ {ADMIN_ROLE} # {}
    BY DEF RoleCodes
  <2> QED BY <1>1, <2>1, <2>2, <2>3, InsertKeeps
          DEF CreateOrganization, TypeOK, RoleChangesName
<1>2. ASSUME NEW q \in Requests, NEW u \in Users, Access(q, u) PROVE MemberInv'
  <2>1. \E e \in RequestRecord :
          /\ req' = [req EXCEPT ![q] = e]
          /\ e.pc \in {"roles", "replace", "insert"} => e.codes # {}
    <3>1. CASE \E v \in Users : req' = [req EXCEPT ![q] = [pc |-> "add", user |-> v]]
      <4>1. PICK v \in Users : req' = [req EXCEPT ![q] = [pc |-> "add", user |-> v]]
        BY <3>1
      <4>2. [pc |-> "add", user |-> v] \in RequestRecord
        BY DEF RequestRecord
      <4> QED BY <4>1, <4>2
    <3>2. CASE \E m \in MemberIds : req' = [req EXCEPT ![q] = [pc |-> "remove", member |-> m]]
      <4>1. PICK m \in MemberIds : req' = [req EXCEPT ![q] = [pc |-> "remove", member |-> m]]
        BY <3>2
      <4>2. [pc |-> "remove", member |-> m] \in RequestRecord
        BY DEF RequestRecord
      <4> QED BY <4>1, <4>2
    <3>3. CASE \E m \in MemberIds, codes \in RoleChanges :
                 req' = [req EXCEPT ![q] = [pc |-> "roles", member |-> m, codes |-> codes]]
      <4>1. PICK m \in MemberIds, codes \in RoleChanges :
              req' = [req EXCEPT ![q] = [pc |-> "roles", member |-> m, codes |-> codes]]
        BY <3>3
      <4>2. codes \in SUBSET RoleCodes /\ codes # {}
        BY DEF RoleChanges
      <4>3. [pc |-> "roles", member |-> m, codes |-> codes] \in RequestRecord
        BY <4>2 DEF RequestRecord
      <4> QED BY <4>1, <4>2, <4>3
    <3> QED BY <1>2, <3>1, <3>2, <3>3 DEF Access
  <2> QED BY <1>2, <2>1 DEF Access, TypeOK, RoleChangesName, EveryMemberHasRole, Members
<1>3. ASSUME NEW q \in Requests, AddMember(q) PROVE MemberInv'
  <2>1. req' \in [Requests -> RequestRecord] /\ RoleChangesName'
    BY <1>3, EndKeeps DEF AddMember
  <2>2. CASE UNCHANGED <<owner, roles>>
    BY <1>3, <2>1, <2>2 DEF AddMember, TypeOK, EveryMemberHasRole, Members
  <2>3. CASE /\ MemberOf(req[q].user) = {}
             /\ \E m \in MemberIds :
                  /\ owner[m] = Unused
                  /\ owner' = [owner EXCEPT ![m] = req[q].user]
                  /\ roles' = [roles EXCEPT ![m] = {MEMBER_ROLE}]
    <3>1. req[q].user \in Users
      BY <1>3 DEF AddMember, TypeOK, RequestRecord, NoRequest
    <3>2. {MEMBER_ROLE} \in SUBSET RoleCodes /\ {MEMBER_ROLE} # {}
      BY DEF RoleCodes
    <3> QED BY <1>3, <2>1, <2>3, <3>1, <3>2, InsertKeeps DEF AddMember, TypeOK
  <2> QED BY <1>3, <2>2, <2>3 DEF AddMember
<1>4. ASSUME NEW q \in Requests, CheckRemove(q) PROVE MemberInv'
  <2>1. req' \in [Requests -> RequestRecord] /\ RoleChangesName'
    <3>1. CASE End(q)
      BY <3>1, EndKeeps
    <3>2. CASE req' = [req EXCEPT ![q].pc = "delete"]
      <4>1. req[q] \in [pc : {"remove", "delete"}, member : MemberIds]
        BY <1>4 DEF CheckRemove, TypeOK, RequestRecord, NoRequest
      <4>2. [req[q] EXCEPT !.pc = "delete"] \in RequestRecord
        BY <4>1 DEF RequestRecord
      <4> QED BY <3>2, <4>1, <4>2 DEF TypeOK, RoleChangesName
    <3> QED BY <1>4, <3>1, <3>2 DEF CheckRemove
  <2> QED BY <1>4, <2>1 DEF CheckRemove, TypeOK, EveryMemberHasRole, Members
<1>5. ASSUME NEW q \in Requests, RemoveMember(q) PROVE MemberInv'
  <2>1. req' \in [Requests -> RequestRecord] /\ RoleChangesName'
    BY <1>5, EndKeeps DEF RemoveMember
  <2>2. req[q].member \in MemberIds
    BY <1>5 DEF RemoveMember, TypeOK, RequestRecord, NoRequest
  <2> QED BY <1>5, <2>1, <2>2, DeleteKeeps DEF RemoveMember, TypeOK
<1>6. ASSUME NEW q \in Requests, CheckRoles(q) PROVE MemberInv'
  <2>1. req' \in [Requests -> RequestRecord] /\ RoleChangesName'
    <3>1. CASE End(q)
      BY <3>1, EndKeeps
    <3>2. CASE req' = [req EXCEPT ![q].pc = "replace"]
      <4>1. req[q] \in [pc : {"roles", "replace"}, member : MemberIds,
                        codes : SUBSET RoleCodes]
        BY <1>6 DEF CheckRoles, TypeOK, RequestRecord, NoRequest
      <4>2. [req[q] EXCEPT !.pc = "replace"] \in RequestRecord
        BY <4>1 DEF RequestRecord
      <4>3. req[q].codes # {}
        BY <1>6 DEF CheckRoles, RoleChangesName
      <4> QED BY <3>2, <4>1, <4>2, <4>3 DEF TypeOK, RoleChangesName
    <3> QED BY <1>6, <3>1, <3>2 DEF CheckRoles
  <2> QED BY <1>6, <2>1 DEF CheckRoles, TypeOK, EveryMemberHasRole, Members
<1>7. ASSUME NEW q \in Requests, DeleteRoles(q) PROVE MemberInv'
  <2>1. /\ req[q].member \in MemberIds
        /\ req[q].codes \in SUBSET RoleCodes
        /\ req[q].codes # {}
    BY <1>7 DEF DeleteRoles, TypeOK, RequestRecord, NoRequest, RoleChangesName
  <2>2. [pc |-> "insert", member |-> req[q].member, codes |-> req[q].codes,
         seen |-> roles[req[q].member]] \in RequestRecord
    BY <2>1 DEF RequestRecord, TypeOK
  <2> QED BY <1>7, <2>1, <2>2
          DEF DeleteRoles, TypeOK, RoleChangesName, EveryMemberHasRole, Members
<1>8. ASSUME NEW q \in Requests, CommitRoles(q) PROVE MemberInv'
  <2>1. req' \in [Requests -> RequestRecord] /\ RoleChangesName'
    BY <1>8, EndKeeps DEF CommitRoles
  <2>2. CASE UNCHANGED roles
    BY <1>8, <2>1, <2>2 DEF CommitRoles, TypeOK, EveryMemberHasRole, Members
  <2>3. CASE ~UNCHANGED roles
    <3> DEFINE m == req[q].member
               left == roles[m] \ req[q].seen
    <3>1. /\ m \in Members
          /\ roles' = [roles EXCEPT ![m] = left \cup req[q].codes]
      BY <1>8, <2>3 DEF CommitRoles
    <3>2. /\ left \cup req[q].codes \in SUBSET RoleCodes
          /\ left \cup req[q].codes # {}
      BY <1>8, <3>1 DEF CommitRoles, TypeOK, RequestRecord, NoRequest,
                        RoleChangesName, Members
    <3> HIDE DEF m, left
    <3> QED BY <1>8, <2>1, <3>1, <3>2, ReplaceKeeps DEF CommitRoles, TypeOK, Members
  <2> QED BY <2>2, <2>3
<1>9. ASSUME NEW q \in Requests, Abort(q) PROVE MemberInv'
  BY <1>9, EndKeeps DEF Abort, TypeOK, EveryMemberHasRole, Members
<1>10. ASSUME NEW u \in Users, Deactivate(u) PROVE MemberInv'
  BY <1>10 DEF Deactivate, TypeOK, EveryMemberHasRole, RoleChangesName, Members
<1>11. CASE UNCHANGED vars
  BY <1>11 DEF vars, TypeOK, EveryMemberHasRole, RoleChangesName, Members
<1> QED BY <1>1, <1>2, <1>3, <1>4, <1>5, <1>6, <1>7, <1>8, <1>9, <1>10, <1>11 DEF Next

\* The inductive invariant holds in every reachable state.
LEMMA MemberInvariance ==
  Spec => []MemberInv
<1>1. Init => MemberInv
  <2>1. NoRequest \in RequestRecord /\ NoRequest.pc = "idle"
    BY DEF NoRequest, RequestRecord
  <2> QED BY <2>1, MembershipAssumption
          DEF Init, MemberInv, TypeOK, EveryMemberHasRole, RoleChangesName, Members
<1> QED BY <1>1, MemberStep, PTL DEF Spec

\* Every state of the organization is well typed: a user never has two rows of
\* organization_members, and a row that is gone keeps no member_roles
\* (add_member, remove_member).
THEOREM MembershipTypeCorrect ==
  Spec => []TypeOK
BY MemberInvariance, PTL DEF MemberInv

\* However set_member_roles, remove_member and add_member interleave under READ
\* COMMITTED, no member is left without a role.
THEOREM MembersKeepARole ==
  Spec => []EveryMemberHasRole
BY MemberInvariance, PTL DEF MemberInv
=============================================================================
