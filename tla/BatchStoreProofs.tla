-------------------------- MODULE BatchStoreProofs --------------------------
(***************************************************************************)
(* Proofs about BatchStore for any sets of files, rows, batches, names and  *)
(* requests.                                                               *)
(***************************************************************************)
EXTENDS BatchStore, TLAPS

\* A free slot is a request record.
LEMMA IdleType == Idle \in RequestType
  BY DEF Idle, RequestType

\* A slot that takes a new request record leaves the others as they are.
LEMMA SlotType ==
  ASSUME TypeOK, NEW q \in Requests, NEW v \in RequestType, req' = [req EXCEPT ![q] = v]
  PROVE  /\ req' \in [Requests -> RequestType]
         /\ req'[q] = v /\ \A p \in Requests : p # q => req'[p] = req[p]
  BY DEF TypeOK

\* The keys of a table that gains or loses a row.
LEMMA IdsGain == ASSUME NEW S, NEW x PROVE Ids(S \cup {x}) = Ids(S) \cup {x.id}
  BY DEF Ids

\* The key of a row that goes, goes.
LEMMA IdsLose == ASSUME NEW S, NEW b PROVE Ids({x \in S : x.id # b}) = Ids(S) \ {b}
  BY DEF Ids

\* What a request that gives up leaves behind.
LEMMA AbortEffect ==
  ASSUME TypeOK, NEW q \in Requests, Abort(q)
  PROVE  /\ req' \in [Requests -> RequestType]
         /\ req'[q] = Idle /\ \A p \in Requests : p # q => req'[p] = req[p]
         /\ lost' = lost \cup Cleared(q) /\ Cleared(q) \subseteq Files
         /\ UNCHANGED <<validated, rows, batches, links, syncs, flaky>>
<1>1. req[q] \in RequestType
  BY DEF TypeOK
<1>2. Cleared(q) \subseteq Files
  BY <1>1 DEF Cleared, NamesOf, RequestType, RowType
<1> QED
  BY <1>2, IdleType, SlotType DEF Abort

\* Deleting one blob of a deletion changes only what that deletion has left.
LEMMA DeleteBlobEffect ==
  ASSUME TypeOK, NEW q \in Requests, NEW f \in Files, DeleteBlob(q, f)
  PROVE  /\ req' \in [Requests -> RequestType]
         /\ \A p \in Requests : p # q => req'[p] = req[p]
         /\ req'[q].left = req[q].left \ {f}
         /\ req'[q].pc = req[q].pc /\ req'[q].batch = req[q].batch
         /\ req'[q].name = req[q].name /\ req'[q].rows = req[q].rows
         /\ req'[q].links = req[q].links
<1> DEFINE v == [req[q] EXCEPT !.left = req[q].left \ {f}]
           w == [req[q] EXCEPT !.left = req[q].left \ {f}, !.error = TRUE]
<1>1. v \in RequestType /\ w \in RequestType
  BY DEF TypeOK, RequestType
<1>2. req' = [req EXCEPT ![q] = v] \/ req' = [req EXCEPT ![q] = w]
  BY DEF DeleteBlob, TypeOK
<1>3. req' \in [Requests -> RequestType] /\ (req'[q] = v \/ req'[q] = w)
      /\ \A p \in Requests : p # q => req'[p] = req[p]
  <2> HIDE DEF v, w
  <2> QED
    BY <1>1, <1>2, SlotType
<1>4. req[q] \in RequestType
  BY DEF TypeOK
<1> QED
  BY <1>3, <1>4 DEF RequestType

\* Every step keeps every variable in its type and the foreign keys in place.
LEMMA TypeStep ==
  ASSUME TypeOK, RequestsWellFormed, [Next]_vars
  PROVE  TypeOK'
<1>0. late' \subseteq Files
  BY DEF Next, NoteLate, vars, state, TypeOK, NamesOf, RowType
<1> USE <1>0
<1>1. ASSUME NEW f \in Files, Store(f) PROVE TypeOK'
  BY <1>1 DEF Store, TypeOK
<1>2. ASSUME NEW f \in Files, List(f) PROVE TypeOK'
  BY <1>2 DEF List, TypeOK, RowType, FreshRowIds, Ids
<1>3. ASSUME NEW q \in Requests, NEW n \in Names, NEW want \in SUBSET Files,
             StartCreate(q, n, want)
      PROVE  TypeOK'
  <2> DEFINE v == [Idle EXCEPT !.pc = "creating", !.name = n,
                               !.rows = {x \in rows : x.name \in want}]
  <2>1. v \in RequestType
    BY DEF Idle, RequestType, TypeOK
  <2>2. req' = [req EXCEPT ![q] = v]
    BY <1>3 DEF StartCreate
  <2> HIDE DEF v
  <2> QED
    BY <1>3, <2>1, <2>2, SlotType DEF StartCreate, TypeOK
<1>4. ASSUME NEW q \in Requests, NEW n \in Names, NEW b \in batches, NEW R \in SUBSET rows,
             StartUpdate(q, b, n, R)
      PROVE  TypeOK'
  <2> DEFINE v == [Idle EXCEPT !.pc = "updating", !.batch = b.id, !.name = n,
                               !.rows = R, !.links = LinksOf(b.id)]
  <2>1. links \subseteq RowIds \X BatchIds
    BY DEF TypeOK, Ids, RowType
  <2>2. v \in RequestType
    BY <2>1 DEF Idle, RequestType, TypeOK, LinksOf
  <2>3. req' = [req EXCEPT ![q] = v]
    BY <1>4 DEF StartUpdate
  <2> HIDE DEF v
  <2> QED
    BY <1>4, <2>2, <2>3, SlotType DEF StartUpdate, TypeOK
<1>5. ASSUME NEW q \in Requests, NEW b \in batches, StartDelete(q, b) PROVE TypeOK'
  <2> DEFINE doomed == RowsOf(b.id)
             v == [Idle EXCEPT !.pc = "deleting", !.batch = b.id, !.rows = doomed,
                               !.links = {l \in links : l[1] \in Ids(doomed)},
                               !.left = NamesOf(doomed)]
  <2>1. links \subseteq RowIds \X BatchIds
    BY DEF TypeOK, Ids, RowType
  <2>2. doomed \subseteq RowType /\ NamesOf(doomed) \subseteq Files
    BY DEF TypeOK, RowsOf, RowType, NamesOf
  <2>3. v \in RequestType
    BY <2>1, <2>2 DEF Idle, RequestType, TypeOK
  <2>4. req' = [req EXCEPT ![q] = v]
    BY <1>5 DEF StartDelete
  <2> HIDE DEF v
  <2> QED
    BY <1>5, <2>3, <2>4, SlotType DEF StartDelete, TypeOK
<1>6. ASSUME NEW q \in Requests, Abort(q) PROVE TypeOK'
  BY <1>6, AbortEffect DEF TypeOK
<1>7. ASSUME NEW q \in Requests, CommitCreate(q) PROVE TypeOK'
  <2>1. CASE Abort(q)
    BY <1>6, <2>1
  <2>2. CASE ~Abort(q)
    <3>1. PICK b \in FreshBatchIds :
            /\ batches' = batches \cup {[name |-> req[q].name, id |-> b]}
            /\ links' = links \cup LinksTo(req[q].rows, b)
            /\ req[q].rows \subseteq rows
            /\ req' = [req EXCEPT ![q].pc = "created"]
            /\ UNCHANGED <<validated, rows, syncs, flaky, lost>>
      BY <1>7, <2>2 DEF CommitCreate
    <3>2. b \in BatchIds /\ req[q].name \in Names
      BY <1>7 DEF FreshBatchIds, CommitCreate, RequestsWellFormed
    <3>3. batches' \subseteq [name: Names, id: BatchIds]
      BY <3>1, <3>2 DEF TypeOK
    <3>6. Ids(batches') = Ids(batches) \cup {b}
      BY <3>1, IdsGain
    <3>4. links' \subseteq Ids(rows') \X Ids(batches')
      BY <3>1, <3>6 DEF TypeOK, LinksTo, Ids
    <3>5. req' \in [Requests -> RequestType]
      BY <3>1 DEF TypeOK, RequestType
    <3> QED
      BY <3>1, <3>3, <3>4, <3>5 DEF TypeOK
  <2> QED
    BY <2>1, <2>2
<1>8. ASSUME NEW q \in Requests, ReadCreated(q) PROVE TypeOK'
  <2>1. req'[q] \in RequestType /\ req' = [req EXCEPT ![q] = req'[q]]
    BY <1>8, IdleType DEF ReadCreated, TypeOK, RequestType, RowsOf
  <2>2. req' \in [Requests -> RequestType]
    BY <2>1, SlotType
  <2> QED
    BY <1>8, <2>2 DEF ReadCreated, TypeOK
<1>15. ASSUME NEW q \in Requests, StartSync(q) PROVE TypeOK'
  <2>1. NamesOf(req[q].rows) \subseteq Files
    BY DEF TypeOK, NamesOf, RequestType, RowType
  <2>2. syncs' \subseteq Files
    BY <1>15, <2>1 DEF StartSync, TypeOK
  <2>3. req' \in [Requests -> RequestType]
    BY <1>15, IdleType, SlotType DEF StartSync
  <2> QED
    BY <1>15, <2>2, <2>3 DEF StartSync, TypeOK
<1>9. ASSUME NEW q \in Requests, CommitUpdate(q) PROVE TypeOK'
  <2>1. CASE Abort(q)
    BY <1>6, <2>1
  <2>2. CASE ~Abort(q)
    <3> DEFINE b == req[q].batch
               new == LinksTo(req[q].rows, b)
    <3>1. /\ links' = (links \ (req[q].links \ new)) \cup (new \ req[q].links)
          /\ batches' = {x \in batches : x.id # b} \cup {[name |-> req[q].name, id |-> b]}
          /\ req' = [req EXCEPT ![q] = Idle]
          /\ UNCHANGED <<validated, rows, syncs, flaky, lost>>
          /\ b \in Ids(batches)
          /\ \A l \in new \ req[q].links : l[1] \in Ids(rows)
          /\ req[q].pc = "updating"
      BY <1>9, <2>2 DEF CommitUpdate
    <3>2. b \in BatchIds /\ req[q].name \in Names
      BY <3>1 DEF TypeOK, Ids, RequestsWellFormed
    <3>3. batches' \subseteq [name: Names, id: BatchIds]
      BY <3>1, <3>2 DEF TypeOK
    <3>7. Ids(batches') = Ids(batches)
      <4>1. Ids(batches') = (Ids(batches) \ {b}) \cup {b}
        <5> DEFINE kept == {x \in batches : x.id # b}
                   row == [name |-> req[q].name, id |-> b]
        <5>1. Ids(kept) = Ids(batches) \ {b} /\ row.id = b
          BY IdsLose
        <5>2. batches' = kept \cup {row}
          BY <3>1
        <5> HIDE DEF kept, row
        <5> QED
          BY <5>1, <5>2, IdsGain
      <4> QED
        BY <3>1, <4>1
    <3>4. \A l \in new : l \in {l[1]} \X {b}
      BY DEF LinksTo
    <3>5. links' \subseteq Ids(rows') \X Ids(batches')
      <4> HIDE DEF b, new
      <4> QED
        BY <3>1, <3>4, <3>7 DEF TypeOK
    <3>6. req' \in [Requests -> RequestType]
      BY <3>1, IdleType, SlotType
    <3> QED
      BY <3>1, <3>3, <3>5, <3>6 DEF TypeOK
  <2> QED
    BY <2>1, <2>2
<1>10. ASSUME NEW q \in Requests, NEW f \in Files, DeleteBlob(q, f) PROVE TypeOK'
  BY <1>10, DeleteBlobEffect DEF DeleteBlob, TypeOK
<1>11. ASSUME NEW q \in Requests, CommitDelete(q) PROVE TypeOK'
  <2>1. CASE Abort(q)
    BY <1>6, <2>1
  <2>2. CASE ~Abort(q)
    <3>1. /\ rows' = rows \ req[q].rows
          /\ batches' = {x \in batches : x.id # req[q].batch}
          /\ links' = {l \in links : l[1] \in Ids(rows') /\ l[2] # req[q].batch}
          /\ req' = [req EXCEPT ![q] = Idle]
          /\ UNCHANGED <<validated, syncs, flaky, lost>>
      BY <1>11, <2>2 DEF CommitDelete
    <3>2. Ids(batches') = Ids(batches) \ {req[q].batch}
      BY <3>1 DEF Ids
    <3>3. links' \subseteq Ids(rows') \X Ids(batches')
      BY <3>1, <3>2 DEF TypeOK
    <3>4. req' \in [Requests -> RequestType]
      BY <3>1, IdleType, SlotType
    <3> QED
      BY <3>1, <3>3, <3>4 DEF TypeOK
  <2> QED
    BY <2>1, <2>2
<1>12. ASSUME NEW q \in Requests, Fail(q) PROVE TypeOK'
  BY <1>6, <1>12 DEF Fail
<1>13. CASE Heal
  BY <1>13 DEF Heal, TypeOK
<1>14. CASE UNCHANGED vars
  BY <1>14 DEF vars, state, TypeOK
<1> QED
  BY <1>1, <1>2, <1>3, <1>4, <1>5, <1>7, <1>8, <1>9, <1>10, <1>11, <1>12, <1>13, <1>14,
     <1>15 DEF Next, Step, Advance, DeleteBatch

\* What one step does to a request slot.
LEMMA SlotStep ==
  ASSUME TypeOK, RequestsWellFormed, [Next]_vars, NEW p \in Requests
  PROVE  \/ req'[p] = req[p]
         \/ req'[p] = Idle
         \/ \E f \in Files : DeleteBlob(p, f)
         \/ \E b \in batches : StartDelete(p, b)
         \/ /\ req'[p].pc \in {"creating", "updating"} /\ req'[p].name \in Names
            /\ req'[p].rows \subseteq rows /\ req'[p].left = {}
         \/ req[p].pc = "creating" /\ req'[p] = [req[p] EXCEPT !.pc = "created"]
         \/ req'[p].pc = "syncing" /\ req'[p].rows \subseteq rows /\ req'[p].left = {}
<1>1. ASSUME NEW q \in Requests, NEW v \in RequestType, req' = [req EXCEPT ![q] = v], p # q
      PROVE  req'[p] = req[p]
  BY <1>1, SlotType
<1>2. ASSUME NEW q \in Requests, NEW n \in Names, NEW want \in SUBSET Files,
             StartCreate(q, n, want), req'[p] # req[p]
      PROVE  /\ req'[p].pc \in {"creating", "updating"} /\ req'[p].name \in Names
             /\ req'[p].rows \subseteq rows /\ req'[p].left = {}
  BY <1>2 DEF StartCreate, Idle, TypeOK
<1>3. ASSUME NEW q \in Requests, NEW n \in Names, NEW b \in batches, NEW R \in SUBSET rows,
             StartUpdate(q, b, n, R), req'[p] # req[p]
      PROVE  /\ req'[p].pc \in {"creating", "updating"} /\ req'[p].name \in Names
             /\ req'[p].rows \subseteq rows /\ req'[p].left = {}
  BY <1>3 DEF StartUpdate, Idle, TypeOK
<1>4. ASSUME NEW q \in Requests, NEW b \in batches, StartDelete(q, b), req'[p] # req[p]
      PROVE  \E c \in batches : StartDelete(p, c)
  BY <1>4 DEF StartDelete, TypeOK
<1>5. ASSUME NEW q \in Requests, Abort(q), req'[p] # req[p] PROVE req'[p] = Idle
  BY <1>5, AbortEffect
<1>6. ASSUME NEW q \in Requests, CommitCreate(q), req'[p] # req[p]
      PROVE  \/ req'[p] = Idle
             \/ req[p].pc = "creating" /\ req'[p] = [req[p] EXCEPT !.pc = "created"]
  BY <1>5, <1>6 DEF CommitCreate, TypeOK
<1>7. ASSUME NEW q \in Requests, StartSync(q) \/ CommitUpdate(q) \/ CommitDelete(q),
             req'[p] # req[p]
      PROVE  req'[p] = Idle
  <2>1. req' = [req EXCEPT ![q] = Idle]
    BY <1>7 DEF StartSync, CommitUpdate, CommitDelete, Abort
  <2> QED
    BY <1>7, <2>1, IdleType, SlotType
<1>8. ASSUME NEW q \in Requests, NEW f \in Files, DeleteBlob(q, f), req'[p] # req[p]
      PROVE  DeleteBlob(p, f)
  BY <1>8, DeleteBlobEffect
<1>9. ASSUME UNCHANGED req PROVE req'[p] = req[p]
  BY <1>9
<1>10. ASSUME NEW q \in Requests, ReadCreated(q), req'[p] # req[p]
       PROVE  \/ req'[p] = Idle
              \/ req'[p].pc = "syncing" /\ req'[p].rows \subseteq rows /\ req'[p].left = {}
  <2>1. req[p].pc = "created" /\ q = p
    BY <1>10 DEF ReadCreated, TypeOK
  <2>2. CASE req' = [req EXCEPT ![q] = Idle]
    BY <2>1, <2>2 DEF TypeOK
  <2>3. ASSUME NEW b \in batches,
               req' = [req EXCEPT ![q].pc = "syncing", ![q].rows = RowsOf(b.id)]
        PROVE  req'[p].pc = "syncing" /\ req'[p].rows \subseteq rows /\ req'[p].left = {}
    <3>1. req[p] \in RequestType /\ req[p].left = {} /\ RowsOf(b.id) \subseteq rows
      BY <2>1 DEF TypeOK, RequestsWellFormed, RowsOf
    <3>2. req'[p] = [req[p] EXCEPT !.pc = "syncing", !.rows = RowsOf(b.id)]
      BY <2>1, <2>3 DEF TypeOK
    <3> QED
      BY <3>1, <3>2 DEF RequestType
  <2> QED
    BY <1>10, <2>2, <2>3 DEF ReadCreated
<1> QED
  BY <1>2, <1>3, <1>4, <1>5, <1>6, <1>7, <1>8, <1>9, <1>10
     DEF Next, Step, Advance, DeleteBatch, Fail, Heal, Store, List, vars, state

\* What one step does to the file table.
LEMMA RowStep ==
  ASSUME [Next]_vars
  PROVE  \/ UNCHANGED rows
         \/ \E f \in Files : List(f)
         \/ \E q \in Requests : CommitDelete(q) /\ ~Abort(q)
  BY DEF Next, Step, Advance, DeleteBatch, Fail, Heal, Store, vars, state, Abort, CommitCreate,
         ReadCreated, StartSync, CommitUpdate, DeleteBlob, CommitDelete, StartCreate, StartUpdate,
         StartDelete

\* The two keys of the file table hold, and held rows keep their ids: a new row
\* takes an id that no row and no request has.
LEMMA RowKeysStep ==
  ASSUME TypeOK, RequestsWellFormed, RowKeys, [Next]_vars
  PROVE  RowKeys'
<1>1. ASSUME NEW p \in Requests
      PROVE  req'[p].rows \subseteq req[p].rows \/ req'[p].rows \subseteq rows
  <2>1. ASSUME NEW b \in batches, StartDelete(p, b) PROVE req'[p].rows \subseteq rows
    BY <2>1 DEF StartDelete, TypeOK, Idle, RowsOf
  <2>2. [req[p] EXCEPT !.pc = "created"].rows = req[p].rows
    BY DEF TypeOK, RequestType
  <2>3. Idle.rows = {}
    BY DEF Idle
  <2> QED
    BY <2>1, <2>2, <2>3, SlotStep, DeleteBlobEffect
<1>2. CASE rows' \subseteq rows
  BY <1>1, <1>2 DEF RowKeys
<1>3. ASSUME NEW f \in Files, List(f) PROVE RowKeys'
  <2>1. PICK id \in FreshRowIds : rows' = rows \cup {[name |-> f, id |-> id]}
    BY <1>3 DEF List
  <2>2. \A x \in rows : x.id # id /\ x.name # f
    BY <1>3 DEF List, HasRow, FreshRowIds, Ids, NamesOf
  <2>3. \A q \in Requests : \A x \in req[q].rows : x.id # id
    BY DEF FreshRowIds, Ids
  <2>4. UNCHANGED req
    BY <1>3 DEF List
  <2> QED
    BY <2>1, <2>2, <2>3, <2>4 DEF RowKeys
<1> QED
  BY <1>2, <1>3, RowStep DEF CommitDelete

\* A request keeps the name, links and blobs its kind needs.
LEMMA RequestsStep ==
  ASSUME TypeOK, RequestsWellFormed, [Next]_vars
  PROVE  RequestsWellFormed'
<1> DEFINE Good(r) ==
      /\ r.pc \in {"creating", "updating"} => r.name \in Names
      /\ r.pc # "deleting" => r.left = {}
      /\ r.pc = "deleting" => /\ r.left \subseteq NamesOf(r.rows)
                              /\ LinksTo(r.rows, r.batch) \subseteq r.links
<1>1. ASSUME NEW p \in Requests PROVE Good(req'[p])
  <2>1. Good(req[p])
    BY DEF RequestsWellFormed
  <2>2. CASE req'[p] = req[p]
    BY <2>1, <2>2
  <2>3. CASE req'[p] = Idle
    BY <2>3 DEF Idle
  <2>4. ASSUME NEW f \in Files, DeleteBlob(p, f) PROVE Good(req'[p])
    BY <2>1, <2>4, DeleteBlobEffect
  <2>5. ASSUME NEW b \in batches, StartDelete(p, b) PROVE Good(req'[p])
    <3>1. /\ req'[p].pc = "deleting" /\ req'[p].batch = b.id /\ req'[p].rows = RowsOf(b.id)
          /\ req'[p].links = {l \in links : l[1] \in Ids(RowsOf(b.id))}
          /\ req'[p].left = NamesOf(RowsOf(b.id))
      BY <2>5 DEF StartDelete, TypeOK, Idle
    <3>2. LinksTo(RowsOf(b.id), b.id) \subseteq {l \in links : l[1] \in Ids(RowsOf(b.id))}
      <4> SUFFICES ASSUME NEW x \in RowsOf(b.id)
                   PROVE  <<x.id, b.id>> \in links /\ x.id \in Ids(RowsOf(b.id))
        BY DEF LinksTo
      <4> QED
        BY DEF RowsOf, Ids
    <3> QED
      BY <3>1, <3>2
  <2>6. CASE /\ req'[p].pc \in {"creating", "updating"} /\ req'[p].name \in Names
             /\ req'[p].rows \subseteq rows /\ req'[p].left = {}
    BY <2>6
  <2>8. CASE req'[p].pc = "syncing" /\ req'[p].rows \subseteq rows /\ req'[p].left = {}
    BY <2>8
  <2>7. CASE req[p].pc = "creating" /\ req'[p] = [req[p] EXCEPT !.pc = "created"]
    <3>1. req'[p].pc = "created" /\ req'[p].left = req[p].left
      BY <2>7 DEF TypeOK, RequestType
    <3> QED
      BY <2>1, <2>7, <3>1
  <2> QED
    BY <2>2, <2>3, <2>4, <2>5, <2>6, <2>7, <2>8, SlotStep
<1> QED
  BY <1>1 DEF RequestsWellFormed

\* Only the batch table's three writers change it, and each keeps the names of
\* batches apart.
LEMMA BatchNamesStep ==
  ASSUME BatchNamesUnique, [Next]_vars
  PROVE  BatchNamesUnique'
<1>1. CASE batches' \subseteq batches
  BY <1>1 DEF BatchNamesUnique
<1>2. ASSUME NEW q \in Requests, CommitCreate(q), batches' # batches PROVE BatchNamesUnique'
  <2>1. PICK b \in FreshBatchIds : batches' = batches \cup {[name |-> req[q].name, id |-> b]}
    BY <1>2 DEF CommitCreate, Abort
  <2>2. \A x \in batches : x.name # req[q].name
    BY <1>2 DEF CommitCreate, Abort, NamesOf
  <2> QED
    BY <2>1, <2>2 DEF BatchNamesUnique
<1>3. ASSUME NEW q \in Requests, CommitUpdate(q), batches' # batches PROVE BatchNamesUnique'
  <2>1. /\ batches' = {x \in batches : x.id # req[q].batch}
                        \cup {[name |-> req[q].name, id |-> req[q].batch]}
        /\ \A x \in batches : x.name = req[q].name => x.id = req[q].batch
    BY <1>3 DEF CommitUpdate, Abort
  <2> QED
    BY <2>1 DEF BatchNamesUnique
<1>4. ASSUME NEW q \in Requests, CommitDelete(q) PROVE batches' \subseteq batches
  BY <1>4 DEF CommitDelete, Abort
<1>5. \/ UNCHANGED batches
      \/ \E q \in Requests : CommitCreate(q) \/ CommitUpdate(q) \/ CommitDelete(q)
  BY DEF Next, Step, Advance, DeleteBatch, Fail, Heal, Store, List, vars, state, Abort,
         ReadCreated, StartSync, DeleteBlob, StartCreate, StartUpdate, StartDelete
<1> QED
  BY <1>1, <1>2, <1>3, <1>4, <1>5

\* A deletion that commits takes every row of its snapshot that has the name of
\* one of its rows: the links it needs to find still bind these very rows.
LEMMA DeletionTakesNames ==
  ASSUME TypeOK, RowKeys, RequestsWellFormed, NEW q \in Requests,
         CommitDelete(q), ~Abort(q), NEW x \in rows, x.name \in NamesOf(req[q].rows)
  PROVE  x \in req[q].rows
<1>1. PICK y \in req[q].rows : y.name = x.name
  BY DEF NamesOf
<1>2. <<y.id, req[q].batch>> \in links
  BY DEF CommitDelete, RequestsWellFormed, LinksTo
<1>3. PICK z \in rows : z.id = y.id
  BY <1>2 DEF TypeOK, Ids
<1>4. z = y /\ z = x
  BY <1>1, <1>3 DEF RowKeys
<1> QED
  BY <1>4

\* What a slot has cleared depends on that slot alone.
LEMMA ClearedFrame ==
  ASSUME NEW p \in Requests, req'[p] = req[p] PROVE Cleared(p)' = Cleared(p)
  BY DEF Cleared

\* Blobs leave validated/ one at a time through a deletion, which stays in
\* charge of their rows until it removes them or gives up and is remembered.
LEMMA MissingStep ==
  ASSUME TypeOK, RowKeys, RequestsWellFormed, MissingBlobExplained, [Next]_vars
  PROVE  MissingBlobExplained'
<1> DEFINE Explained(f) == f \in validated \cup lost \cup UNION {Cleared(p) : p \in Requests}
<1>1. ASSUME NEW f \in Files, Store(f) PROVE MissingBlobExplained'
  <2>1. \A p \in Requests : Cleared(p)' = Cleared(p)
    BY <1>1, ClearedFrame DEF Store
  <2>2. /\ rows' = rows /\ validated' = validated \cup {f} /\ lost' = lost \ {f}
    BY <1>1 DEF Store
  <2> QED
    BY <2>1, <2>2 DEF MissingBlobExplained
<1>2. ASSUME NEW f \in Files, List(f) PROVE MissingBlobExplained'
  <2>1. \A p \in Requests : Cleared(p)' = Cleared(p)
    BY <1>2, ClearedFrame DEF List
  <2>2. /\ validated' = validated /\ lost' = lost /\ f \in validated
        /\ \E id \in FreshRowIds : rows' = rows \cup {[name |-> f, id |-> id]}
    BY <1>2 DEF List
  <2> QED
    BY <2>1, <2>2 DEF MissingBlobExplained
<1>3. ASSUME NEW q \in Requests, UNCHANGED <<validated, rows, lost>>,
             \A p \in Requests : p # q => req'[p] = req[p], Cleared(q) = {}
      PROVE  MissingBlobExplained'
  <2>1. \A p \in Requests : p # q => Cleared(p)' = Cleared(p)
    BY <1>3, ClearedFrame
  <2> QED
    BY <1>3, <2>1 DEF MissingBlobExplained
<1>4. ASSUME NEW q \in Requests, Abort(q) PROVE MissingBlobExplained'
  <2>1. /\ UNCHANGED <<validated, rows>> /\ lost' = lost \cup Cleared(q)
        /\ \A p \in Requests : p # q => req'[p] = req[p]
    BY <1>4, AbortEffect
  <2>2. \A p \in Requests : p # q => Cleared(p)' = Cleared(p)
    BY <2>1, ClearedFrame
  <2> QED
    BY <2>1, <2>2 DEF MissingBlobExplained
<1>5. ASSUME NEW q \in Requests, NEW f \in Files, DeleteBlob(q, f)
      PROVE  MissingBlobExplained'
  <2>1. /\ rows' = rows /\ lost' = lost /\ validated \subseteq validated' \cup {f}
        /\ \A p \in Requests : p # q => req'[p] = req[p]
        /\ f \in req[q].left
    BY <1>5, DeleteBlobEffect DEF DeleteBlob
  <2>2. \A p \in Requests : p # q => Cleared(p)' = Cleared(p)
    BY <2>1, ClearedFrame
  <2>3. req[q].pc = "deleting" /\ f \in NamesOf(req[q].rows)
    BY <2>1 DEF RequestsWellFormed
  <2>4. Cleared(q)' = Cleared(q) \cup {f}
    <3>1. NamesOf(req[q].rows) \ (req[q].left \ {f})
            = (NamesOf(req[q].rows) \ req[q].left) \cup {f}
      BY <2>3
    <3> QED
      BY <1>5, <2>3, <3>1, DeleteBlobEffect DEF Cleared
  <2> QED
    BY <2>1, <2>2, <2>4 DEF MissingBlobExplained
<1>6. ASSUME NEW q \in Requests, CommitDelete(q), ~Abort(q) PROVE MissingBlobExplained'
  <2>1. /\ rows' = rows \ req[q].rows /\ UNCHANGED <<validated, lost>>
        /\ req' = [req EXCEPT ![q] = Idle] /\ req[q].pc = "deleting" /\ req[q].left = {}
    BY <1>6 DEF CommitDelete
  <2>2. \A p \in Requests : p # q => Cleared(p)' = Cleared(p)
    BY <2>1, IdleType, SlotType, ClearedFrame
  <2>3. Cleared(q) = NamesOf(req[q].rows)
    BY <2>1 DEF Cleared
  <2>4. \A x \in rows' : x \in rows /\ x.name \notin Cleared(q)
    BY <1>6, <2>1, <2>3, DeletionTakesNames
  <2> QED
    BY <2>1, <2>2, <2>4 DEF MissingBlobExplained
<1>7. ASSUME NEW q \in Requests, NEW n \in Names, NEW want \in SUBSET Files,
             StartCreate(q, n, want)
      PROVE  MissingBlobExplained'
  BY <1>3, <1>7 DEF StartCreate, Cleared, TypeOK
<1>8. ASSUME NEW q \in Requests, NEW n \in Names, NEW b \in batches, NEW R \in SUBSET rows,
             StartUpdate(q, b, n, R)
      PROVE  MissingBlobExplained'
  BY <1>3, <1>8 DEF StartUpdate, Cleared, TypeOK
<1>9. ASSUME NEW q \in Requests, NEW b \in batches, StartDelete(q, b)
      PROVE  MissingBlobExplained'
  BY <1>3, <1>9 DEF StartDelete, Cleared, TypeOK
<1>10. ASSUME NEW q \in Requests,
              \/ CommitCreate(q) \/ ReadCreated(q)
              \/ StartSync(q) \/ CommitUpdate(q)
       PROVE  MissingBlobExplained'
  <2>1. CASE Abort(q)
    BY <1>4, <2>1
  <2>2. CASE ~Abort(q)
    BY <1>3, <1>10, <2>2
       DEF CommitCreate, ReadCreated, StartSync, CommitUpdate, Cleared, TypeOK
  <2> QED
    BY <2>1, <2>2
<1>11. ASSUME UNCHANGED <<validated, rows, lost, req>> PROVE MissingBlobExplained'
  <2>1. \A p \in Requests : Cleared(p)' = Cleared(p)
    BY <1>11, ClearedFrame
  <2> QED
    BY <1>11, <2>1 DEF MissingBlobExplained
<1> QED
  BY <1>1, <1>2, <1>4, <1>5, <1>6, <1>7, <1>8, <1>9, <1>10, <1>11
     DEF Next, Step, Advance, DeleteBatch, Fail, Heal, vars, state

\* The names a request read stay listed or become late until it makes its call.
LEMMA SyncNamesStep ==
  ASSUME TypeOK, RequestsWellFormed, SyncNamesKnown, [Next]_vars
  PROVE  SyncNamesKnown'
<1>1. CASE UNCHANGED vars
  BY <1>1 DEF vars, state, SyncNamesKnown, HasRow
<1>2. CASE Next
  <2> SUFFICES ASSUME NEW p \in Requests, req'[p].pc = "syncing", NEW f \in NamesOf(req'[p].rows)
               PROVE  f \in NamesOf(rows') \/ f \in late'
    BY DEF SyncNamesKnown, HasRow
  <2>1. f \in NamesOf(rows) \/ f \in late
    <3>1. CASE req'[p].pc = req[p].pc /\ req'[p].rows = req[p].rows
      BY <3>1 DEF SyncNamesKnown, HasRow
    <3>2. CASE req'[p].rows \subseteq rows
      BY <3>2 DEF NamesOf
    <3>3. [req[p] EXCEPT !.pc = "created"].pc = "created" /\ Idle.pc = "done"
      BY DEF TypeOK, RequestType, Idle
    <3>4. ASSUME NEW b \in batches, StartDelete(p, b) PROVE req'[p].pc = "deleting"
      BY <3>4 DEF StartDelete, Idle, TypeOK
    <3>5. ASSUME NEW g \in Files, DeleteBlob(p, g)
          PROVE  req'[p].pc = req[p].pc /\ req'[p].rows = req[p].rows
      BY <3>5, DeleteBlobEffect
    <3> QED
      BY <3>1, <3>2, <3>3, <3>4, <3>5, SlotStep
  <2> QED
    BY <1>2, <2>1 DEF Next, NoteLate
<1> QED
  BY <1>1, <1>2

-----------------------------------------------------------------------------

\* The inductive invariant holds in every reachable state.
THEOREM BatchInvariance == Spec => []BatchInv
<1>1. Init => BatchInv
  BY IdleType DEF Init, BatchInv, TypeOK, BatchNamesUnique, MissingBlobExplained, RowKeys,
                  RequestsWellFormed, SyncNamesKnown, Idle, Ids
<1>2. BatchInv /\ [Next]_vars => BatchInv'
  BY TypeStep, BatchNamesStep, MissingStep, RowKeysStep, RequestsStep,
     SyncNamesStep DEF BatchInv
<1> QED
  BY <1>1, <1>2, PTL DEF Spec

\* A batch name belongs to one batch (create_batch's look-up, update_batch and
\* the table's unique constraint), however many requests race.
THEOREM NamesStayUnique == Spec => []BatchNamesUnique
<1>1. BatchInv => BatchNamesUnique
  BY DEF BatchInv
<1> QED
  BY <1>1, BatchInvariance, PTL

\* delete_batch is the only reason a listed file may lack its blob, and the
\* deletion is still running or known to have failed.
THEOREM MissingBlobsExplained == Spec => []MissingBlobExplained
<1>1. BatchInv => MissingBlobExplained
  BY DEF BatchInv
<1> QED
  BY <1>1, BatchInvariance, PTL

\* delete_batch removes only rows that are in the batch it removes at its
\* commit: links changed since its snapshot stop it.
THEOREM RowsLeaveOnlyWithBatch == Spec => RowsLeaveWithBatch
<1>1. BatchInv /\ [Next]_vars =>
        [\A x \in rows \ rows' :
           \E b \in Ids(batches) \ Ids(batches') : <<x.id, b>> \in links]_vars
  <2> SUFFICES ASSUME BatchInv, [Next]_vars, NEW x \in rows \ rows'
               PROVE  \E b \in Ids(batches) \ Ids(batches') : <<x.id, b>> \in links
    OBVIOUS
  <2>1. PICK q \in Requests : CommitDelete(q) /\ ~Abort(q)
    BY RowStep DEF List
  <2>2. <<x.id, req[q].batch>> \in links
    BY <2>1 DEF BatchInv, CommitDelete, RequestsWellFormed, LinksTo
  <2>3. req[q].batch \in Ids(batches)
    BY <2>2 DEF BatchInv, TypeOK
  <2>4. req[q].batch \notin Ids(batches')
    BY <2>1 DEF CommitDelete, Ids
  <2> QED
    BY <2>2, <2>3, <2>4
<1> QED
  BY <1>1, BatchInvariance, PTL DEF Spec, RowsLeaveWithBatch

\* create_batch reads the batch again before it starts a sync, so the sync names
\* a deleted file only if the deletion committed between that read and the call.
THEOREM SyncsOnlyListed == Spec => SyncsListed
<1>1. BatchInv /\ [Next]_vars => [\A f \in syncs' \ syncs : HasRow(f) \/ f \in late]_vars
  <2> SUFFICES ASSUME BatchInv, [Next]_vars, NEW f \in syncs' \ syncs
               PROVE  HasRow(f) \/ f \in late
    OBVIOUS
  <2>1. PICK q \in Requests : StartSync(q)
    BY DEF Next, Step, Advance, DeleteBatch, Fail, Heal, Store, List, vars, state, Abort,
           CommitCreate, ReadCreated, CommitUpdate, DeleteBlob, CommitDelete, StartCreate,
           StartUpdate, StartDelete
  <2> QED
    BY <2>1 DEF StartSync, BatchInv, SyncNamesKnown
<1> QED
  BY <1>1, BatchInvariance, PTL DEF Spec, SyncsListed

=============================================================================
