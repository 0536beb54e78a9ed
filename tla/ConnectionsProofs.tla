-------------------------- MODULE ConnectionsProofs --------------------------
(***************************************************************************)
(* Machine-checked proofs about Connections, for every set of rows,        *)
(* references, authorizations and concurrent requests.                     *)
(***************************************************************************)
EXTENDS Connections, TLAPS

RequestRecord ==
  [pc : {"idle", "exchange", "put", "persist", "insert", "refresh",
         "revoke", "mark", "withdraw", "read", "renew"},
   row : Rows, old : Refs \cup {NoRef}, new : Refs \cup {NoRef}]

\* Between vault.put and its commit or its withdrawal a request owns a secret; it
\* withdraws one that is stored if it did not hear of the commit.
Owning(e) == e.pc \in {"persist", "insert", "withdraw"}

\* What a request may rely on: the secret it is about to store is in the vault and
\* in no row of the database; what it withdraws is in no row either, unless the
\* answer to its commit was lost; what it revokes has been given up for good; what
\* it renews was committed; and only a refresh of the personal connection has an
\* old reference before it stores the new one.
EntryOK(e) ==
  /\ e.pc \in {"persist", "insert"} =>
       e.new \in Refs /\ vault[e.new] = "live" /\ record[e.new] = "none"
  /\ e.pc = "withdraw" =>
       /\ e.new \in Refs /\ vault[e.new] # "unused"
       /\ record[e.new] = "none" \/ e.new \in lost
  /\ e.pc \in {"revoke", "mark"} =>
       e.old \in Refs /\ record[e.old] \in {"revocation_pending", "revoked"}
  /\ e.pc = "mark" => vault[e.old] = "gone" \/ e.old \in revived
  /\ e.pc \in {"read", "renew"} => e.old \in Refs /\ record[e.old] # "none"
  /\ e.pc \in {"exchange", "refresh", "put", "persist", "insert"} /\ e.old # NoRef
       => e.row = Personal

EntriesOK == \A q \in Requests : EntryOK(req[q])

\* No two requests own the same secret.
OwnersDistinct ==
  \A p, q \in Requests :
    Owning(req[p]) /\ Owning(req[q]) /\ req[p].new = req[q].new => p = q

\* A reference belongs to one row, is active with the row and given up with it.
RowsOwnReferences ==
  /\ \A c, d \in Rows : conn[c].ref # NoRef /\ conn[c].ref = conn[d].ref => c = d
  /\ \A c \in Rows : conn[c].status = "disconnected" =>
       record[conn[c].ref] \in {"revocation_pending", "revoked"}
  /\ \A f \in Refs : record[f] = "active" =>
       \E c \in Rows : conn[c].status = "active" /\ conn[c].ref = f

\* The database knows no reference that the vault never had, and the vault has
\* deleted what the database calls revoked, unless a renewal wrote it again.
RecordsMatchVault ==
  \A f \in Refs :
    /\ vault[f] = "unused" => record[f] = "none"
    /\ record[f] = "revoked" => vault[f] = "gone" \/ f \in revived

\* ActiveHasSecret alone is not inductive: that a revocation spares the secret of
\* an active connection is known only from what the request took out of the
\* database before, and from the ownership of references.
ConnInv ==
  /\ TypeOK
  /\ ActiveHasSecret
  /\ EntriesOK
  /\ OwnersDistinct
  /\ RowsOwnReferences
  /\ RecordsMatchVault

\* An idle request relies on nothing.
LEMMA IdleOK ==
  /\ Idle \in RequestRecord
  /\ ~Owning(Idle)
  /\ EntryOK(Idle)
BY DEF Idle, RequestRecord, Rows, Owning, EntryOK

\* A step that changes one request only keeps the invariant if the request may
\* rely on what it needs, and owns nothing that it did not own before.
LEMMA RequestStep ==
  ASSUME ConnInv, NEW q \in Requests, NEW e \in RequestRecord,
         req' = [req EXCEPT ![q] = e], EntryOK(e),
         Owning(e) => Owning(req[q]) /\ e.new = req[q].new,
         grant' \in [States -> {"none", "open", "used"}],
         UNCHANGED <<kind, conn, record, vault, consented, lost, revived>>
  PROVE  ConnInv'
<1> USE DEF ConnInv
<1>1. TypeOK'
  BY DEF TypeOK, RequestRecord
<1>2. \A p \in Requests : req'[p] = IF p = q THEN e ELSE req[p]
  BY DEF TypeOK
<1>3. EntriesOK'
  BY <1>2 DEF EntriesOK, EntryOK, Owning
<1>4. OwnersDistinct'
  BY <1>2 DEF OwnersDistinct, Owning
<1> QED BY <1>1, <1>3, <1>4 DEF ActiveHasSecret, RowsOwnReferences, RecordsMatchVault

\* The end of a request, by its last step, an early return or a crash.
LEMMA EndStep ==
  ASSUME ConnInv, NEW q \in Requests, End(q),
         UNCHANGED <<kind, conn, record, vault, grant, consented, lost, revived>>
  PROVE  ConnInv'
BY IdleOK, RequestStep DEF End, ConnInv, TypeOK

\* A new reference enters the row of a connection and the one that it replaces,
\* if any, is given up: the commits of _persist_personal_connection,
\* _persist_personal_refresh and _persist_organization_connection.
LEMMA StoreStep ==
  ASSUME ConnInv, NEW q \in Requests, NEW c \in Rows, NEW e \in RequestRecord,
         req[q].pc \in {"persist", "insert"},
         conn' = [conn EXCEPT ![c] = [status |-> "active", ref |-> req[q].new]],
         record' = [f \in Refs |-> IF f = req[q].new THEN "active"
                                   ELSE IF f = conn[c].ref THEN "revocation_pending"
                                   ELSE record[f]],
         req' = [req EXCEPT ![q] = e],
         e.pc \in {"idle", "revoke", "withdraw"},
         e.pc = "revoke" => e.old = conn[c].ref /\ e.old # NoRef,
         e.pc = "withdraw" => e.new = req[q].new /\ e.new \in lost',
         lost \subseteq lost', lost' \subseteq Refs,
         consented' \in BOOLEAN,
         UNCHANGED <<kind, vault, grant, revived>>
  PROVE  ConnInv'
<1> USE DEF ConnInv
<1> DEFINE n == req[q].new
<1>1. n \in Refs /\ vault[n] = "live" /\ record[n] = "none"
  BY DEF EntriesOK, EntryOK
<1>2. \A d \in Rows : conn'[d] = IF d = c THEN [status |-> "active", ref |-> n] ELSE conn[d]
  BY DEF TypeOK
<1>3. \A p \in Requests : req'[p] = IF p = q THEN e ELSE req[p]
  BY DEF TypeOK
<1>4. \A f \in Refs : record'[f] = IF f = n THEN "active"
                                   ELSE IF f = conn[c].ref THEN "revocation_pending"
                                   ELSE record[f]
  OBVIOUS
<1>5. \A d \in Rows : /\ conn[d] \in [status : {"absent", "active", "disconnected"},
                                      ref : Refs \cup {NoRef}]
                      /\ conn[d].status = "absent" <=> conn[d].ref = NoRef
  BY DEF TypeOK
<1>6. \A d \in Rows : conn[d].ref # n
  BY <1>1, <1>5, ConnectionsAssumption DEF ActiveHasSecret, RowsOwnReferences
<1>7. TypeOK'
  <2>1. [status |-> "active", ref |-> n] \in
          [status : {"absent", "active", "disconnected"}, ref : Refs \cup {NoRef}]
    BY <1>1
  <2>2. conn' \in [Rows -> [status : {"absent", "active", "disconnected"},
                            ref : Refs \cup {NoRef}]]
    BY <2>1 DEF TypeOK
  <2>3. record' \in [Refs -> {"none", "active", "revocation_pending", "revoked"}]
    BY DEF TypeOK
  <2>4. req' \in [Requests -> RequestRecord]
    BY DEF TypeOK, RequestRecord
  <2>5. \A d \in Rows : conn'[d].status = "absent" <=> conn'[d].ref = NoRef
    BY <1>1, <1>2, <1>5, ConnectionsAssumption
  <2> QED BY <2>2, <2>3, <2>4, <2>5 DEF TypeOK, RequestRecord
<1>8. ActiveHasSecret'
  <2> SUFFICES ASSUME NEW d \in Rows, conn'[d].status = "active"
               PROVE  /\ record'[conn'[d].ref] = "active"
                      /\ vault[conn'[d].ref] = "live" \/ conn'[d].ref \in lost'
    BY DEF ActiveHasSecret
  <2>1. CASE d = c
    BY <1>1, <1>2, <1>4, <2>1
  <2>2. CASE d # c
    BY <1>2, <1>4, <1>5, <1>6, <2>2 DEF ActiveHasSecret, RowsOwnReferences
  <2> QED BY <2>1, <2>2
<1>9. EntriesOK'
  <2> SUFFICES ASSUME NEW p \in Requests PROVE EntryOK(req[p])'
    BY DEF EntriesOK
  <2>1. CASE p = q
    BY <1>1, <1>3, <1>4, <1>5, <1>6, <2>1 DEF EntryOK, Owning, RequestRecord
  <2>2. CASE p # q
    <3>1. EntryOK(req[p])
      BY DEF EntriesOK
    <3>2. req'[p] = req[p]
      BY <1>3, <2>2
    <3>3. Owning(req[p]) => req[p].new # n
      BY <2>2 DEF OwnersDistinct, Owning
    <3>4. \A g \in Refs : record[g] = "none" => g # conn[c].ref
      BY <1>5, ConnectionsAssumption DEF ActiveHasSecret, RowsOwnReferences
    <3>5. \A f \in Refs : record[f] # "none" => f # n
      BY <1>1
    <3> QED BY <1>4, <3>1, <3>2, <3>3, <3>4, <3>5 DEF EntryOK, Owning
  <2> QED BY <2>1, <2>2
<1>10. OwnersDistinct'
  BY <1>3 DEF OwnersDistinct, Owning
<1>11. RowsOwnReferences'
  <2>1. \A d, b \in Rows : conn'[d].ref # NoRef /\ conn'[d].ref = conn'[b].ref => d = b
    BY <1>2, <1>6 DEF RowsOwnReferences
  <2>2. \A d \in Rows : conn'[d].status = "disconnected" =>
          record'[conn'[d].ref] \in {"revocation_pending", "revoked"}
    BY <1>2, <1>4, <1>5, <1>6 DEF RowsOwnReferences
  <2>3. ASSUME NEW f \in Refs, record'[f] = "active"
        PROVE  \E d \in Rows : conn'[d].status = "active" /\ conn'[d].ref = f
    <3>1. CASE f = n
      BY <1>2, <3>1
    <3>2. CASE f # n
      <4>1. record[f] = "active" /\ f # conn[c].ref
        BY <1>4, <2>3, <3>2
      <4>2. PICK d \in Rows : conn[d].status = "active" /\ conn[d].ref = f
        BY <4>1 DEF RowsOwnReferences
      <4> QED BY <1>2, <4>1, <4>2
    <3> QED BY <3>1, <3>2
  <2> QED BY <2>1, <2>2, <2>3 DEF RowsOwnReferences
<1>12. RecordsMatchVault'
  <2>1. vault[conn[c].ref] # "unused" \/ conn[c].ref \notin Refs
    BY <1>5, ConnectionsAssumption DEF ActiveHasSecret, RowsOwnReferences, RecordsMatchVault
  <2> QED BY <1>1, <1>4, <2>1 DEF RecordsMatchVault
<1> QED BY <1>7, <1>8, <1>9, <1>10, <1>11, <1>12

\* The same whether the request hears of the commit or not.
LEMMA CommittedStep ==
  ASSUME ConnInv, NEW q \in Requests, NEW c \in Rows, NEW e \in RequestRecord,
         req[q].pc \in {"persist", "insert"},
         conn' = [conn EXCEPT ![c] = [status |-> "active", ref |-> req[q].new]],
         record' = [f \in Refs |-> IF f = req[q].new THEN "active"
                                   ELSE IF f = conn[c].ref THEN "revocation_pending"
                                   ELSE record[f]],
         Committed(q, e), e.pc \in {"idle", "revoke"},
         e.pc = "revoke" => e.old = conn[c].ref /\ e.old # NoRef,
         consented' \in BOOLEAN,
         UNCHANGED <<kind, vault, grant, revived>>
  PROVE  ConnInv'
<1>1. lost \subseteq Refs /\ req[q] \in RequestRecord /\ req[q].new \in Refs
  BY DEF ConnInv, TypeOK, RequestRecord, EntriesOK, EntryOK
<1>2. CASE req' = [req EXCEPT ![q] = e] /\ UNCHANGED lost
  BY <1>1, <1>2, StoreStep
<1>3. CASE Goto(q, "withdraw") /\ lost' = lost \cup {req[q].new}
  <2> DEFINE w == [req[q] EXCEPT !.pc = "withdraw"]
  <2>1. w \in RequestRecord /\ w.pc = "withdraw" /\ w.new = req[q].new
    BY <1>1 DEF RequestRecord
  <2>2. req' = [req EXCEPT ![q] = w]
    BY <1>3 DEF Goto
  <2>3. lost \subseteq lost' /\ lost' \subseteq Refs /\ req[q].new \in lost'
    BY <1>1, <1>3
  <2> HIDE DEF w
  <2> QED BY <2>1, <2>2, <2>3, StoreStep
<1> QED BY <1>2, <1>3 DEF Committed

\* The reference of a row that is not absent.
LEMMA RowReference ==
  ASSUME ConnInv, NEW c \in Rows, conn[c].status # "absent" \/ conn[c] # Absent
  PROVE  /\ conn[c].ref \in Refs
         /\ record[conn[c].ref] # "none"
         /\ conn[c].status \in {"active", "disconnected"}
<1> USE DEF ConnInv
<1>1. /\ conn[c] \in [status : {"absent", "active", "disconnected"},
                      ref : Refs \cup {NoRef}]
      /\ conn[c].status = "absent" <=> conn[c].ref = NoRef
  BY DEF TypeOK
<1>2. conn[c].status # "absent"
  BY <1>1 DEF Absent
<1> QED BY <1>1, <1>2 DEF ActiveHasSecret, RowsOwnReferences

\* What a request of this component looks like.
LEMMA RequestType ==
  ASSUME ConnInv, NEW q \in Requests
  PROVE  /\ req[q] \in RequestRecord
         /\ EntryOK(req[q])
BY DEF ConnInv, TypeOK, EntriesOK, RequestRecord

\* A request that goes on to pc with the same references.
LEMMA GotoStep ==
  ASSUME ConnInv, NEW q \in Requests, NEW pc,
         pc \in {"put", "insert", "withdraw", "renew"}, Goto(q, pc),
         pc = "put" => req[q].pc \in {"exchange", "refresh"},
         pc \in {"insert", "withdraw"} => req[q].pc \in {"persist", "insert"},
         pc = "renew" => req[q].pc = "read",
         UNCHANGED <<kind, conn, record, vault, grant, consented, lost, revived>>
  PROVE  ConnInv'
<1> DEFINE e == [req[q] EXCEPT !.pc = pc]
<1>1. req[q] \in RequestRecord /\ EntryOK(req[q])
  BY RequestType
<1>2. /\ e \in RequestRecord
      /\ e.pc = pc /\ e.row = req[q].row /\ e.old = req[q].old /\ e.new = req[q].new
  BY <1>1 DEF RequestRecord
<1>3. EntryOK(e) /\ (Owning(e) => Owning(req[q]))
  BY <1>1, <1>2 DEF EntryOK, Owning
<1>4. req' = [req EXCEPT ![q] = e]
  BY DEF Goto
<1>5. grant' \in [States -> {"none", "open", "used"}]
  BY DEF ConnInv, TypeOK
<1> HIDE DEF e
<1> QED BY <1>2, <1>3, <1>4, <1>5, RequestStep

\* vault.put makes the request the owner of a reference that nobody has used.
LEMMA PutStep ==
  ASSUME ConnInv, NEW q \in Requests, Put(q)
  PROVE  ConnInv'
<1> USE DEF ConnInv
<1>1. CASE End(q) /\ UNCHANGED vault
  BY <1>1, EndStep DEF Put
<1>2. CASE \E f \in Refs :
             /\ vault[f] = "unused"
             /\ vault' = [vault EXCEPT ![f] = "live"]
             /\ req' = [req EXCEPT ![q].pc = "persist", ![q].new = f]
  <2>1. PICK f \in Refs :
             /\ vault[f] = "unused"
             /\ vault' = [vault EXCEPT ![f] = "live"]
             /\ req' = [req EXCEPT ![q].pc = "persist", ![q].new = f]
    BY <1>2
  <2>2. req[q] \in RequestRecord /\ EntryOK(req[q]) /\ req[q].pc = "put"
    BY RequestType DEF Put
  <2>3. UNCHANGED <<kind, conn, record, grant, consented, lost, revived>>
    BY DEF Put
  <2> DEFINE e == [req[q] EXCEPT !.pc = "persist", !.new = f]
  <2>4. /\ e \in RequestRecord
        /\ e.pc = "persist" /\ e.row = req[q].row /\ e.old = req[q].old /\ e.new = f
    BY <2>2 DEF RequestRecord
  <2>5. req' = [req EXCEPT ![q] = e]
    BY <2>1
  <2> HIDE DEF e
  <2>5a. \A p \in Requests : req'[p] = IF p = q THEN e ELSE req[p]
    BY <2>5 DEF TypeOK
  <2>6. \A g \in Refs : vault'[g] = IF g = f THEN "live" ELSE vault[g]
    BY <2>1 DEF TypeOK
  <2>7. record[f] = "none"
    BY <2>1 DEF RecordsMatchVault
  <2>8. \A p \in Requests : Owning(req[p]) => req[p].new # f
    BY <2>1 DEF EntriesOK, EntryOK, Owning
  <2>9. TypeOK'
    <3>1. req' \in [Requests -> RequestRecord]
      BY <2>4, <2>5 DEF TypeOK, RequestRecord
    <3> QED BY <2>1, <2>3, <3>1 DEF TypeOK, RequestRecord
  <2>10. ActiveHasSecret'
    BY <2>1, <2>3, <2>6, RowReference DEF ActiveHasSecret
  <2>11. EntriesOK'
    <3> SUFFICES ASSUME NEW p \in Requests PROVE EntryOK(req[p])'
      BY DEF EntriesOK
    <3>1. CASE p = q
      BY <2>2, <2>3, <2>4, <2>5a, <2>6, <2>7, <3>1 DEF EntryOK, Owning
    <3>2. CASE p # q
      <4>1. EntryOK(req[p]) /\ req'[p] = req[p]
        BY <2>5a, <3>2 DEF EntriesOK
      <4>2. Owning(req[p]) => vault'[req[p].new] = vault[req[p].new]
        BY <2>6, <2>8, <4>1 DEF EntryOK, Owning
      <4>3. req[p].pc = "mark" => vault'[req[p].old] = vault[req[p].old]
        BY <2>6, <2>7, <4>1 DEF EntryOK
      <4> QED BY <2>3, <4>1, <4>2, <4>3 DEF EntryOK, Owning
    <3> QED BY <3>1, <3>2
  <2>12. OwnersDistinct'
    BY <2>4, <2>5a, <2>8 DEF OwnersDistinct, Owning
  <2>13. RowsOwnReferences' /\ RecordsMatchVault'
    BY <2>3, <2>6, <2>7 DEF RowsOwnReferences, RecordsMatchVault
  <2> QED BY <2>9, <2>10, <2>11, <2>12, <2>13
<1> QED BY <1>1, <1>2 DEF Put

\* A disconnect gives up the reference of its row.
LEMMA DisconnectStep ==
  ASSUME ConnInv, NEW q \in Requests, NEW c \in Rows, Disconnect(q, c)
  PROVE  ConnInv'
<1> USE DEF ConnInv
<1> DEFINE f == conn[c].ref
<1> DEFINE e == [Idle EXCEPT !.pc = "revoke", !.old = f]
<1>1. f \in Refs /\ record[f] # "none"
  BY RowReference DEF Disconnect
<1>2. /\ e \in RequestRecord /\ ~Owning(e)
      /\ e.pc = "revoke" /\ e.old = f
  BY <1>1 DEF Idle, RequestRecord, Rows, Owning
<1>3. req' = [req EXCEPT ![q] = e]
  BY DEF Disconnect
<1> HIDE DEF e
<1>4. \A p \in Requests : req'[p] = IF p = q THEN e ELSE req[p]
  BY <1>3 DEF TypeOK
<1>5. \A d \in Rows : /\ conn'[d].ref = conn[d].ref
                      /\ conn'[d].status = IF d = c THEN "disconnected" ELSE conn[d].status
  BY DEF Disconnect, TypeOK
<1>6. \A g \in Refs : record'[g] = IF g = f THEN "revocation_pending" ELSE record[g]
  BY DEF Disconnect, TypeOK
<1>7. UNCHANGED <<kind, vault, grant, lost, revived>> /\ consented' \in BOOLEAN
  BY DEF Disconnect, TypeOK
<1>8. TypeOK'
  <2>1. conn' \in [Rows -> [status : {"absent", "active", "disconnected"},
                            ref : Refs \cup {NoRef}]]
    BY DEF Disconnect, TypeOK
  <2>2. record' \in [Refs -> {"none", "active", "revocation_pending", "revoked"}]
    BY DEF Disconnect, TypeOK
  <2>3. req' \in [Requests -> RequestRecord]
    BY <1>2, <1>3 DEF TypeOK, RequestRecord
  <2>4. \A d \in Rows : conn'[d].status = "absent" <=> conn'[d].ref = NoRef
    BY <1>1, <1>5, ConnectionsAssumption DEF TypeOK
  <2> QED BY <1>7, <2>1, <2>2, <2>3, <2>4 DEF TypeOK, RequestRecord
<1>9. ActiveHasSecret'
  <2> SUFFICES ASSUME NEW d \in Rows, conn'[d].status = "active"
               PROVE  /\ record'[conn'[d].ref] = "active"
                      /\ vault'[conn'[d].ref] = "live" \/ conn'[d].ref \in lost'
    BY DEF ActiveHasSecret
  <2>1. d # c /\ conn[d].status = "active"
    BY <1>5
  <2>2. conn[d].ref # f /\ conn[d].ref \in Refs
    BY <1>1, <2>1, RowReference, ConnectionsAssumption DEF RowsOwnReferences
  <2> QED BY <1>5, <1>6, <1>7, <2>1, <2>2 DEF ActiveHasSecret
<1>10. EntriesOK'
  <2> SUFFICES ASSUME NEW p \in Requests PROVE EntryOK(req[p])'
    BY DEF EntriesOK
  <2>1. CASE p = q
    BY <1>1, <1>2, <1>4, <1>6, <2>1 DEF EntryOK, Owning
  <2>2. CASE p # q
    <3>1. EntryOK(req[p]) /\ req'[p] = req[p]
      BY <1>4, <2>2 DEF EntriesOK
    <3> QED BY <1>1, <1>6, <1>7, <3>1 DEF EntryOK, Owning
  <2> QED BY <2>1, <2>2
<1>11. OwnersDistinct'
  BY <1>2, <1>4 DEF OwnersDistinct, Owning
<1>12. RowsOwnReferences'
  <2>1. \A d \in Rows : conn'[d].status = "disconnected" =>
          record'[conn'[d].ref] \in {"revocation_pending", "revoked"}
    BY <1>1, <1>5, <1>6, RowReference DEF RowsOwnReferences
  <2>2. ASSUME NEW g \in Refs, record'[g] = "active"
        PROVE  \E d \in Rows : conn'[d].status = "active" /\ conn'[d].ref = g
    <3>1. record[g] = "active" /\ g # f
      BY <1>6, <2>2
    <3>2. PICK d \in Rows : conn[d].status = "active" /\ conn[d].ref = g
      BY <3>1 DEF RowsOwnReferences
    <3> QED BY <1>5, <3>1, <3>2
  <2> QED BY <1>5, <2>1, <2>2 DEF RowsOwnReferences
<1>13. RecordsMatchVault'
  BY <1>1, <1>6, <1>7 DEF RecordsMatchVault
<1> QED BY <1>8, <1>9, <1>10, <1>11, <1>12, <1>13

\* Persist stores the new reference in a row that it found, or leaves all as it is.
LEMMA PersistStep ==
  ASSUME ConnInv, NEW q \in Requests, Persist(q)
  PROVE  ConnInv'
<1>1. req[q] \in RequestRecord /\ EntryOK(req[q]) /\ req[q].pc = "persist"
  BY RequestType DEF Persist
<1>2. CASE Goto(q, "insert") /\ UNCHANGED <<conn, record, consented, lost>>
  BY <1>1, <1>2, GotoStep DEF Persist
<1>3. CASE Goto(q, "withdraw") /\ UNCHANGED <<conn, record, consented, lost>>
  BY <1>1, <1>3, GotoStep DEF Persist
<1>4. ASSUME NEW c \in Found(q), StillCurrent(q),
             conn' = [conn EXCEPT ![c] = [status |-> "active", ref |-> req[q].new]],
             record' = Replace(Replaced(q, c), req[q].new),
             consented' = (IF c = Personal /\ req[q].old = NoRef THEN TRUE ELSE consented),
             Committed(q, [req[q] EXCEPT !.pc = "revoke", !.old = Replaced(q, c)])
      PROVE  ConnInv'
  <2>1. c \in Rows /\ conn[c] # Absent /\ (req[q].row = Personal => c = Personal)
    BY DEF Found, Rows
  <2>2. conn[c].ref \in Refs /\ record[conn[c].ref] # "none"
    BY <2>1, RowReference
  <2>3. Replaced(q, c) = conn[c].ref
    BY <1>1, <1>4, <2>1 DEF Replaced, StillCurrent, EntryOK
  <2> DEFINE e == [req[q] EXCEPT !.pc = "revoke", !.old = conn[c].ref]
  <2>4. e \in RequestRecord /\ e.pc = "revoke" /\ e.old = conn[c].ref
    BY <1>1, <2>2 DEF RequestRecord
  <2>5. Committed(q, e)
    BY <1>4, <2>3
  <2>6. req[q].new \in Refs /\ record[req[q].new] = "none"
    BY <1>1 DEF EntryOK
  <2>7. record' = [f \in Refs |-> IF f = req[q].new THEN "active"
                                  ELSE IF f = conn[c].ref THEN "revocation_pending"
                                  ELSE record[f]]
    BY <1>4, <2>2, <2>3, <2>6 DEF Replace, ConnInv, TypeOK
  <2>8. consented' \in BOOLEAN /\ UNCHANGED <<kind, vault, grant, revived>>
    BY <1>4 DEF ConnInv, TypeOK, Persist
  <2>9. e.old # NoRef
    BY <2>2, <2>4, ConnectionsAssumption
  <2> HIDE DEF e
  <2> QED BY <1>1, <1>4, <2>1, <2>4, <2>5, <2>7, <2>8, <2>9, CommittedStep
<1> QED BY <1>2, <1>3, <1>4 DEF Persist

\* Insert stores the new reference in a row of its own.
LEMMA InsertStep ==
  ASSUME ConnInv, NEW q \in Requests, Insert(q)
  PROVE  ConnInv'
<1>1. req[q] \in RequestRecord /\ EntryOK(req[q]) /\ req[q].pc = "insert"
  BY RequestType DEF Insert
<1>2. CASE Goto(q, "withdraw") /\ UNCHANGED <<conn, record, consented, lost>>
  BY <1>1, <1>2, GotoStep DEF Insert
<1>3. ASSUME NEW c \in Rows, conn[c] = Absent,
             conn' = [conn EXCEPT ![c] = [status |-> "active", ref |-> req[q].new]],
             record' = [record EXCEPT ![req[q].new] = "active"],
             consented' = (consented \/ c = Personal),
             Committed(q, Idle)
      PROVE  ConnInv'
  <2>1. conn[c].ref = NoRef
    BY <1>3 DEF Absent
  <2>2. req[q].new \in Refs
    BY <1>1 DEF EntryOK
  <2>3. record' = [f \in Refs |-> IF f = req[q].new THEN "active"
                                  ELSE IF f = conn[c].ref THEN "revocation_pending"
                                  ELSE record[f]]
    BY <1>3, <2>1, <2>2, ConnectionsAssumption DEF ConnInv, TypeOK
  <2>4. Idle \in RequestRecord /\ Idle.pc = "idle"
    BY IdleOK DEF Idle
  <2>5. consented' \in BOOLEAN /\ UNCHANGED <<kind, vault, grant, revived>>
    BY <1>3 DEF Insert
  <2> QED BY <1>1, <1>3, <2>3, <2>4, <2>5, CommittedStep
<1>4. \A c \in IF req[q].row = Personal THEN {Personal} ELSE OrgRows : c \in Rows
  BY DEF Rows
<1> QED BY <1>2, <1>3, <1>4 DEF Insert

\* A change of the vault that touches one reference f, and takes a secret away
\* only if f was given up or q, which withdraws, owns it.
LEMMA VaultStep ==
  ASSUME ConnInv, NEW q \in Requests, NEW f \in Refs, NEW v \in {"live", "gone"},
         NEW e \in RequestRecord,
         vault' = [vault EXCEPT ![f] = v],
         req' = [req EXCEPT ![q] = e],
         \/ e.pc = "idle"
         \/ e.pc = "mark" /\ e.old = f /\ v = "gone",
         \/ v = "gone" /\ record[f] \in {"revocation_pending", "revoked"}
         \/ v = "gone" /\ req[q].pc = "withdraw" /\ f = req[q].new
         \/ v = "live" /\ record[f] # "none" /\ (vault[f] = "gone" => f \in revived'),
         e.pc = "mark" => record[f] \in {"revocation_pending", "revoked"},
         revived \subseteq revived', revived' \subseteq Refs,
         UNCHANGED <<kind, conn, record, grant, consented, lost>>
  PROVE  ConnInv'
<1> USE DEF ConnInv
<1>1. \A p \in Requests : req'[p] = IF p = q THEN e ELSE req[p]
  BY DEF TypeOK
<1>2. \A g \in Refs : vault'[g] = IF g = f THEN v ELSE vault[g]
  BY DEF TypeOK
<1>3. TypeOK'
  BY DEF TypeOK, RequestRecord
<1>4. req[q].pc = "withdraw" => record[req[q].new] = "none" \/ req[q].new \in lost
  BY DEF EntriesOK, EntryOK
<1>10. \A g \in Refs : vault'[g] = "gone" \/ g \in revived' \/ vault[g] \in {"unused", "live"}
  <2>1. \A g \in Refs : vault[g] \in {"unused", "live", "gone"}
    BY DEF TypeOK
  <2>2. v = "live" => (vault[f] = "gone" => f \in revived')
    OBVIOUS
  <2> QED BY <1>2, <2>1, <2>2
<1>5. ActiveHasSecret'
  <2> SUFFICES ASSUME NEW c \in Rows, conn[c].status = "active"
               PROVE  /\ record[conn[c].ref] = "active"
                      /\ vault'[conn[c].ref] = "live" \/ conn[c].ref \in lost
    BY DEF ActiveHasSecret
  <2>1. /\ conn[c].ref \in Refs /\ record[conn[c].ref] = "active"
        /\ vault[conn[c].ref] = "live" \/ conn[c].ref \in lost
    BY RowReference DEF ActiveHasSecret
  <2> QED BY <1>2, <1>4, <2>1
<1>6. EntriesOK'
  <2> SUFFICES ASSUME NEW p \in Requests PROVE EntryOK(req[p])'
    BY DEF EntriesOK
  <2>1. CASE p = q
    BY <1>1, <1>2, <2>1 DEF EntryOK, Owning
  <2>2. CASE p # q
    <3>1. EntryOK(req[p]) /\ req'[p] = req[p]
      BY <1>1, <2>2 DEF EntriesOK
    <3>2. req[p].pc \in {"persist", "insert"} => req[p].new # f
      BY <2>2, <3>1 DEF OwnersDistinct, EntryOK, Owning
    <3> QED BY <1>2, <1>10, <3>1, <3>2 DEF EntryOK, Owning
  <2> QED BY <2>1, <2>2
<1>7. OwnersDistinct'
  BY <1>1 DEF OwnersDistinct, Owning
<1>8. RowsOwnReferences'
  BY DEF RowsOwnReferences
<1>9. RecordsMatchVault'
  BY <1>2, <1>10 DEF RecordsMatchVault
<1> QED BY <1>3, <1>5, <1>6, <1>7, <1>8, <1>9

\* Revocation takes only what was given up.
LEMMA RevokeStep ==
  ASSUME ConnInv, NEW q \in Requests, Revoke(q)
  PROVE  ConnInv'
<1>1. req[q] \in RequestRecord /\ EntryOK(req[q]) /\ req[q].pc = "revoke"
  BY RequestType DEF Revoke
<1>2. UNCHANGED <<kind, conn, record, grant, consented, lost, revived>>
  BY DEF Revoke
<1>3. CASE End(q) /\ UNCHANGED vault
  BY <1>2, <1>3, EndStep
<1>4. CASE vault' = [vault EXCEPT ![req[q].old] = "gone"] /\ Goto(q, "mark")
  <2> DEFINE e == [req[q] EXCEPT !.pc = "mark"]
  <2> DEFINE f == req[q].old
  <2>1. e \in RequestRecord /\ e.pc = "mark" /\ e.old = f
    BY <1>1 DEF RequestRecord
  <2>2. f \in Refs /\ record[f] \in {"revocation_pending", "revoked"}
    BY <1>1 DEF EntryOK
  <2>3. req' = [req EXCEPT ![q] = e] /\ vault' = [vault EXCEPT ![f] = "gone"]
    BY <1>4 DEF Goto
  <2> HIDE DEF e, f
  <2>4. revived \subseteq revived' /\ revived' \subseteq Refs
    BY <1>2 DEF ConnInv, TypeOK
  <2> QED BY <1>2, <2>1, <2>2, <2>3, <2>4, VaultStep
<1> QED BY <1>3, <1>4 DEF Revoke

\* The database hears of a deletion after the vault.
LEMMA MarkRevokedStep ==
  ASSUME ConnInv, NEW q \in Requests, MarkRevoked(q)
  PROVE  ConnInv'
<1> USE DEF ConnInv
<1> DEFINE f == req[q].old
<1>1. /\ f \in Refs /\ record[f] \in {"revocation_pending", "revoked"}
      /\ vault[f] = "gone" \/ f \in revived
  BY RequestType DEF MarkRevoked, EntryOK
<1>2. \A p \in Requests : req'[p] = IF p = q THEN Idle ELSE req[p]
  BY DEF MarkRevoked, End, TypeOK
<1>3. \A g \in Refs : record'[g] = IF g = f THEN "revoked" ELSE record[g]
  BY DEF MarkRevoked, TypeOK
<1>4. UNCHANGED <<kind, conn, vault, grant, consented, lost, revived>>
  BY DEF MarkRevoked
<1>5. TypeOK'
  <2>1. req' \in [Requests -> RequestRecord]
    BY IdleOK DEF MarkRevoked, End, TypeOK, RequestRecord
  <2> QED BY <1>4, <2>1 DEF MarkRevoked, TypeOK, RequestRecord
<1>6. ActiveHasSecret'
  BY <1>1, <1>3, <1>4, RowReference DEF ActiveHasSecret
<1>7. EntriesOK'
  <2> SUFFICES ASSUME NEW p \in Requests PROVE EntryOK(req[p])'
    BY DEF EntriesOK
  <2>1. CASE p = q
    BY <1>2, <2>1 DEF EntryOK, Owning, Idle
  <2>2. CASE p # q
    <3>1. EntryOK(req[p]) /\ req'[p] = req[p]
      BY <1>2, <2>2 DEF EntriesOK
    <3> QED BY <1>1, <1>3, <1>4, <3>1 DEF EntryOK, Owning
  <2> QED BY <2>1, <2>2
<1>8. OwnersDistinct'
  BY <1>2, IdleOK DEF OwnersDistinct, Owning
<1>9. RowsOwnReferences'
  BY <1>1, <1>3, <1>4, RowReference DEF RowsOwnReferences
<1>10. RecordsMatchVault'
  BY <1>1, <1>3, <1>4 DEF RecordsMatchVault
<1> QED BY <1>5, <1>6, <1>7, <1>8, <1>9, <1>10

\* A withdrawal takes only the secret that the request owns, stored or not.
LEMMA WithdrawStep ==
  ASSUME ConnInv, NEW q \in Requests, Withdraw(q)
  PROVE  ConnInv'
<1>1. req[q] \in RequestRecord /\ EntryOK(req[q]) /\ req[q].pc = "withdraw"
  BY RequestType DEF Withdraw
<1>2. UNCHANGED <<kind, conn, record, grant, consented, lost, revived>> /\ End(q)
  BY DEF Withdraw
<1>3. CASE UNCHANGED vault
  BY <1>2, <1>3, EndStep
<1>4. CASE vault' = [vault EXCEPT ![req[q].new] = "gone"]
  <2>1. req[q].new \in Refs /\ revived \subseteq revived' /\ revived' \subseteq Refs
    BY <1>1, <1>2 DEF EntryOK, ConnInv, TypeOK
  <2>2. Idle \in RequestRecord /\ Idle.pc = "idle" /\ req' = [req EXCEPT ![q] = Idle]
    BY <1>2, IdleOK DEF End, Idle
  <2> QED BY <1>1, <1>2, <1>4, <2>1, <2>2, VaultStep
<1> QED BY <1>3, <1>4 DEF Withdraw

\* A renewal writes a reference that was committed before.
LEMMA RenewStep ==
  ASSUME ConnInv, NEW q \in Requests, Renew(q)
  PROVE  ConnInv'
<1>1. req[q] \in RequestRecord /\ EntryOK(req[q]) /\ req[q].pc = "renew"
  BY RequestType DEF Renew
<1>2. UNCHANGED <<kind, conn, record, grant, consented, lost>> /\ End(q)
  BY DEF Renew
<1>3. CASE kind = "memory"
  BY <1>2, <1>3, EndStep DEF Renew
<1>4. CASE kind # "memory"
  <2>1. req[q].old \in Refs /\ record[req[q].old] # "none"
    BY <1>1 DEF EntryOK
  <2>2. Idle \in RequestRecord /\ Idle.pc = "idle" /\ req' = [req EXCEPT ![q] = Idle]
    BY <1>2, IdleOK DEF End, Idle
  <2>3. vault' = [vault EXCEPT ![req[q].old] = "live"]
    BY <1>4 DEF Renew
  <2>4. /\ revived \subseteq revived' /\ revived' \subseteq Refs
        /\ vault[req[q].old] = "gone" => req[q].old \in revived'
    BY <1>4, <2>1 DEF Renew, ConnInv, TypeOK
  <2> QED BY <1>2, <2>1, <2>2, <2>3, <2>4, VaultStep
<1> QED BY <1>3, <1>4

\* A restart with the memory vault ends every request and empties the vault; the
\* secrets it takes are the lost ones.
LEMMA RestartStep ==
  ASSUME ConnInv, Restart
  PROVE  ConnInv'
<1> USE DEF ConnInv
<1>1. /\ \A p \in Requests : req'[p] = Idle
      /\ req' \in [Requests -> RequestRecord]
  BY IdleOK DEF Restart
<1>2. UNCHANGED <<kind, conn, record, grant, consented, revived>>
  BY DEF Restart
<1>3. \A f \in Refs : /\ vault'[f] = IF vault[f] = "live" THEN "gone" ELSE vault[f]
                      /\ vault[f] = "live" => f \in lost'
                      /\ f \in lost => f \in lost'
  BY DEF Restart
<1>4. TypeOK'
  BY <1>1, <1>2 DEF Restart, TypeOK, RequestRecord
<1>5. ActiveHasSecret'
  BY <1>2, <1>3, RowReference DEF ActiveHasSecret
<1>6. EntriesOK' /\ OwnersDistinct'
  BY <1>1 DEF EntriesOK, EntryOK, OwnersDistinct, Owning, Idle
<1>7. RowsOwnReferences'
  BY <1>2 DEF RowsOwnReferences
<1>8. RecordsMatchVault'
  BY <1>2, <1>3 DEF RecordsMatchVault
<1> QED BY <1>4, <1>5, <1>6, <1>7, <1>8

\* Every step keeps the inductive invariant.
LEMMA ConnStep ==
  ASSUME ConnInv, [Next]_vars
  PROVE  ConnInv'
<1>1. ASSUME NEW s \in States, BeginPersonalAuthorization(s) PROVE ConnInv'
  BY <1>1 DEF BeginPersonalAuthorization, ConnInv, TypeOK, ActiveHasSecret, EntriesOK,
              EntryOK, Owning, OwnersDistinct, RowsOwnReferences, RecordsMatchVault
<1>2. ASSUME NEW q \in Requests, NEW s \in States, ConsumeState(q, s) PROVE ConnInv'
  <2> DEFINE e == [Idle EXCEPT !.pc = "exchange"]
  <2>1. e \in RequestRecord /\ ~Owning(e) /\ EntryOK(e)
    BY DEF Idle, RequestRecord, Rows, Owning, EntryOK
  <2>2. /\ req' = [req EXCEPT ![q] = e]
        /\ UNCHANGED <<kind, conn, record, vault, consented, lost, revived>>
    BY <1>2 DEF ConsumeState
  <2>3. grant' \in [States -> {"none", "open", "used"}]
    BY <1>2 DEF ConsumeState, ConnInv, TypeOK
  <2> HIDE DEF e
  <2> QED BY <2>1, <2>2, <2>3, RequestStep
<1>3. ASSUME NEW q \in Requests, Exchange(q) PROVE ConnInv'
  <2>1. CASE End(q)
    BY <1>3, <2>1, EndStep DEF Exchange
  <2>2. CASE Goto(q, "put")
    BY <1>3, <2>2, GotoStep DEF Exchange
  <2> QED BY <1>3, <2>1, <2>2 DEF Exchange
<1>4. ASSUME NEW q \in Requests, RefreshConnection(q) PROVE ConnInv'
  <2> DEFINE e == [Idle EXCEPT !.pc = "refresh", !.old = conn[Personal].ref]
  <2>1. conn[Personal].ref \in Refs
    BY <1>4, RowReference DEF RefreshConnection, Rows
  <2>2. e \in RequestRecord /\ ~Owning(e) /\ EntryOK(e)
    BY <2>1 DEF Idle, RequestRecord, Rows, Owning, EntryOK
  <2>3. /\ req' = [req EXCEPT ![q] = e]
        /\ UNCHANGED <<kind, conn, record, vault, grant, consented, lost, revived>>
    BY <1>4 DEF RefreshConnection
  <2> HIDE DEF e
  <2> QED BY <2>2, <2>3, RequestStep DEF ConnInv, TypeOK
<1>5. ASSUME NEW q \in Requests, CreateOrganizationConnection(q) PROVE ConnInv'
  <2>1. PICK c \in OrgRows : req' = [req EXCEPT ![q] = [Idle EXCEPT !.pc = "put", !.row = c]]
    BY <1>5 DEF CreateOrganizationConnection
  <2> DEFINE e == [Idle EXCEPT !.pc = "put", !.row = c]
  <2>2. e \in RequestRecord /\ ~Owning(e) /\ EntryOK(e)
    BY DEF Idle, RequestRecord, Rows, Owning, EntryOK
  <2>3. /\ req' = [req EXCEPT ![q] = e]
        /\ UNCHANGED <<kind, conn, record, vault, grant, consented, lost, revived>>
    BY <1>5, <2>1 DEF CreateOrganizationConnection
  <2> HIDE DEF e
  <2> QED BY <2>2, <2>3, RequestStep DEF ConnInv, TypeOK
<1>6. ASSUME NEW q \in Requests, NEW f \in Refs, RetryPending(q, f) PROVE ConnInv'
  <2> DEFINE e == [Idle EXCEPT !.pc = "revoke", !.old = f]
  <2>1. e \in RequestRecord /\ ~Owning(e) /\ EntryOK(e)
    BY <1>6 DEF RetryPending, Idle, RequestRecord, Rows, Owning, EntryOK
  <2>2. /\ req' = [req EXCEPT ![q] = e]
        /\ UNCHANGED <<kind, conn, record, vault, grant, consented, lost, revived>>
    BY <1>6 DEF RetryPending
  <2> HIDE DEF e
  <2> QED BY <2>1, <2>2, RequestStep DEF ConnInv, TypeOK
<1>7. ASSUME NEW q \in Requests, NEW c \in OrgRows, TakeReference(q, c) PROVE ConnInv'
  <2> DEFINE e == [Idle EXCEPT !.pc = "read", !.old = conn[c].ref]
  <2>1. conn[c].ref \in Refs /\ record[conn[c].ref] # "none"
    BY <1>7, RowReference DEF TakeReference, Rows
  <2>2. e \in RequestRecord /\ ~Owning(e) /\ EntryOK(e)
    BY <2>1 DEF Idle, RequestRecord, Rows, Owning, EntryOK
  <2>3. /\ req' = [req EXCEPT ![q] = e]
        /\ UNCHANGED <<kind, conn, record, vault, grant, consented, lost, revived>>
    BY <1>7 DEF TakeReference
  <2> HIDE DEF e
  <2> QED BY <2>2, <2>3, RequestStep DEF ConnInv, TypeOK
<1>8. ASSUME NEW q \in Requests, ReadExpired(q) PROVE ConnInv'
  <2>1. CASE End(q)
    BY <1>8, <2>1, EndStep DEF ReadExpired
  <2>2. CASE Goto(q, "renew")
    BY <1>8, <2>2, GotoStep DEF ReadExpired
  <2> QED BY <1>8, <2>1, <2>2 DEF ReadExpired
<1>9. ASSUME NEW q \in Requests, Abandon(q) PROVE ConnInv'
  BY <1>9, EndStep DEF Abandon
<1>10. CASE UNCHANGED vars
  BY <1>10 DEF vars, ConnInv, TypeOK, ActiveHasSecret, EntriesOK,
              EntryOK, Owning, OwnersDistinct, RowsOwnReferences, RecordsMatchVault
<1> QED BY <1>1, <1>2, <1>3, <1>4, <1>5, <1>6, <1>7, <1>8, <1>9, <1>10, PutStep,
           DisconnectStep, PersistStep, InsertStep, RevokeStep, MarkRevokedStep,
           WithdrawStep, RenewStep, RestartStep DEF Next

\* The initial state satisfies the invariant.
LEMMA ConnInit == Init => ConnInv
<1> SUFFICES ASSUME Init PROVE ConnInv
  OBVIOUS
<1>1. TypeOK
  BY DEF Init, TypeOK, Absent, Idle, Rows
<1>2. \A q \in Requests : req[q] = Idle
  BY DEF Init
<1>3. EntriesOK /\ OwnersDistinct
  BY <1>2, IdleOK DEF EntriesOK, OwnersDistinct
<1> QED BY <1>1, <1>3 DEF Init, ConnInv, ActiveHasSecret, Absent, RowsOwnReferences,
           RecordsMatchVault

\* ConnInv is an invariant of the specification.
LEMMA ConnInvariant == Spec => []ConnInv
BY ConnInit, ConnStep, PTL DEF Spec

\* Rows, references, secrets and requests keep their types, and a row has a
\* credential reference exactly when it exists.
THEOREM ConnectionTypes == Spec => []TypeOK
<1>1. ConnInv => TypeOK
  BY DEF ConnInv
<1> QED BY <1>1, ConnInvariant, PTL

\* However refreshes, rotations, disconnects, withdrawals, renewals, start-up
\* retries and cancelled requests interleave, and with either vault, none of them
\* takes the secret that an active connection uses.  What takes one is a restart
\* with the memory vault or the handler of a commit whose answer was lost.
THEOREM SecretsOfActiveConnections == Spec => []ActiveHasSecret
<1>1. ConnInv => ActiveHasSecret
  BY DEF ConnInv
<1> QED BY <1>1, ConnInvariant, PTL

\* With either vault, a committed secret that no active connection uses stays on
\* the list of retry_pending_revocations until it is deleted: no restart, cancelled
\* request, lost answer or failed revocation loses it.  A deleted secret comes back
\* only by vault.replace of the HashiCorp client, which writes what it does not hold.
THEOREM RevocationsAreRetried == Spec => []RevocationIsRemembered
<1>1. ConnInv => RevocationIsRemembered
  <2> SUFFICES ASSUME ConnInv, NEW f \in Refs, record[f] # "none", vault[f] = "live",
                      \A c \in Rows : conn[c].status = "active" => conn[c].ref # f
               PROVE  record[f] = "revocation_pending" \/ f \in revived
    BY DEF RevocationIsRemembered
  <2>1. record[f] \in {"none", "active", "revocation_pending", "revoked"}
    BY DEF ConnInv, TypeOK
  <2>2. record[f] # "active"
    BY DEF ConnInv, RowsOwnReferences
  <2>3. record[f] = "revoked" => f \in revived
    BY DEF ConnInv, RecordsMatchVault
  <2> QED BY <2>1, <2>2, <2>3
<1> QED BY <1>1, ConnInvariant, PTL
=============================================================================
