------------------------- MODULE InstitutionsProofs -------------------------
(***************************************************************************)
(* Proofs about Institutions for any names, ids, school types, medallion    *)
(* levels and request slots.                                                *)
(***************************************************************************)
EXTENDS Institutions, FiniteSetTheorems, TLAPS

-----------------------------------------------------------------------------
(* What every step has in common *)

\* One request goes on, to x.
Moves(q, x) == req'[q] = x /\ \A o \in Others(q) : req'[o] = req[o]

\* What has happened to an institution stays on record.
Grows ==
  /\ failed \subseteq failed' /\ doomed \subseteq doomed'
  /\ raced \subseteq raced' /\ adopted \subseteq adopted'

\* An institution keeps its row and what was made for it, or a deletion is on record.
RowsKept ==
  \A y \in insts :
    \/ y.id \in doomed'
    \/ /\ \E z \in insts' : z.id = y.id /\ z.name = y.name
       /\ y.id \in granted => y.id \in granted'
       /\ pieces[DbName[y.name]] \subseteq pieces'[DbName[y.name]]

\* The slots of a step that moves one request.
LEMMA Slot ==
  ASSUME TypeOK, NEW q \in Requests, NEW x \in RequestType, req' = [req EXCEPT ![q] = x]
  PROVE  req' \in [Requests -> RequestType] /\ Moves(q, x)
  BY DEF TypeOK, Moves, Others

\* A slot without a request is a request of its type.
LEMMA IdleFacts ==
  /\ Idle \in RequestType /\ Idle.pc = "done" /\ Idle.inst = None /\ Idle.name = None
  /\ Idle.ids = NoIds /\ Idle.old = NoIds /\ Idle.schemas = None /\ Idle.step = 0
<1>1. NoIds \in IdMap
  BY DEF NoIds, IdMap
<1>2. 0 \in 0..(2 * Levels + 1)
  BY InstitutionAssumption
<1> QED
  BY <1>1, <1>2 DEF Idle, RequestType

\* A drawn id stays nobody else's: steps mark only the ids of their own request.
LEMMA FreshFrame ==
  ASSUME InstInv, NEW q \in Requests, NEW x, Moves(q, x),
         Marked' \subseteq Marked \cup {req[q].inst, None},
         x.inst \in Marked \cup {req[q].inst, None} \cup FreshIds,
         x.pc = "creating" =>
            /\ x.inst \in FreshIds /\ Marked' = Marked
            /\ Cardinality(TypesOf(x.ids)) = 1
  PROVE  DrawnIdFresh'
<1> SUFFICES ASSUME NEW o \in Requests, req'[o].pc = "creating"
             PROVE  /\ req'[o].inst \notin Marked'
                    /\ \A p \in Others(o) : req'[p].inst # req'[o].inst
                    /\ Cardinality(TypesOf(req'[o].ids)) = 1
  BY DEF DrawnIdFresh, Others, TypesOf
<1>1. CASE o = q
  <2>1. \A p \in Others(q) : req'[p].inst \in {req[r].inst : r \in Requests}
    BY DEF Moves, Others
  <2> QED
    BY <1>1, <2>1 DEF Moves, FreshIds
<1>2. CASE o # q
  <2>1. req'[o] = req[o]
    BY <1>2 DEF Moves, Others
  <2>2. /\ req[o].inst \notin Marked /\ req[o].inst # None /\ req[o].inst # req[q].inst
        /\ \A p \in Others(o) : req[p].inst # req[o].inst
        /\ Cardinality(TypesOf(req[o].ids)) = 1
    BY <1>2, <2>1 DEF InstInv, DrawnIdFresh, TypeOK, Others
  <2>3. req[o].inst \notin FreshIds
    BY DEF FreshIds
  <2> QED
    BY <2>1, <2>2, <2>3 DEF Moves, Others
<1> QED
  BY <1>1, <1>2

\* What the other creations rely on.
LEMMA SetUpFrame ==
  ASSUME InstInv, NEW q \in Requests, NEW x, Moves(q, x), Grows, RowsKept,
         x.pc \in SetUpSteps =>
            \/ SettingUp(q, x.inst)
            \/ x.inst \in adopted'
            \/ \A o \in Others(q) : ~SettingUp(o, x.inst),
         \A i : /\ \E o \in Others(q) : req[o].pc \in {"inserted", "found"} /\ req[o].inst = i
               /\ i \notin buckets /\ (i \in IdsOf(insts) \/ BeingDeleted(i))
            => \/ i \in failed' \cup adopted'
               \/ i \notin buckets' /\ (i \in IdsOf(insts') \/ BeingDeleted(i)')
  PROVE  \A o \in Others(q) : SetUpKnows(o)'
<1> SUFFICES ASSUME NEW o \in Others(q), req'[o].pc \in SetUpSteps PROVE SetUpKnows(o)'
  BY DEF SetUpKnows
<1>1. PICK z : z = req[o] /\ z = req'[o] /\ o \in Requests /\ o # q
  BY DEF Moves, Others
<1>2. SetUpKnows(o)
  BY <1>1 DEF InstInv
<1>3. z.inst \in doomed' \/ \E y \in insts' : y.id = z.inst /\ y.name = z.name
  BY <1>1, <1>2 DEF SetUpKnows, Grows, RowsKept
<1>4. \A p \in Others(o) : SettingUp(p, z.inst)' => z.inst \in adopted'
  BY <1>1, <1>2 DEF SetUpKnows, SettingUp, Moves, Others, Grows
<1>5. z.pc \in {"inserted", "found"} =>
        \/ z.inst \in failed' \cup adopted'
        \/ z.inst \notin buckets' /\ (z.inst \in IdsOf(insts') \/ BeingDeleted(z.inst)')
  BY <1>1, <1>2 DEF SetUpKnows, Grows
<1>6. z.pc = "setup" =>
        /\ z.step # 0
        /\ \/ z.inst \in doomed'
           \/ z.inst \in granted' /\ 1..(z.step - 1) \subseteq pieces'[DbName[z.name]]
  BY <1>1, <1>2 DEF SetUpKnows, Grows, RowsKept
<1> QED
  BY <1>1, <1>3, <1>4, <1>5, <1>6 DEF SetUpKnows, IdsOf, BeingDeleted, SettingUp

\* What the other PATCHes rely on.
LEMMA PatchFrame ==
  ASSUME InstInv, NEW q \in Requests, NEW x, Moves(q, x), Grows,
         x.pc = "patching" =>
            \/ x.inst \in raced'
            \/ \A o \in Others(q) : req[o].pc # "patching" \/ req[o].inst # x.inst,
         \A o \in Others(q) : req[o].pc = "patching" =>
            \/ req[o].inst \in raced'
            \/ \A z \in insts' : z.id = req[o].inst => z \in insts
  PROVE  \A o \in Others(q) : PatchKnows(o)'
<1> SUFFICES ASSUME NEW o \in Others(q), req'[o].pc = "patching" PROVE PatchKnows(o)'
  BY DEF PatchKnows
<1>1. PICK z : z = req[o] /\ z = req'[o] /\ o \in Requests /\ o # q
  BY DEF Moves, Others
<1>2. PatchKnows(o)
  BY <1>1 DEF InstInv
<1> DEFINE fits == TypesOf(z.ids) \cup {"custom"}
<1>3. \/ z.inst \in raced'
      \/ /\ \A p \in Others(o) : req'[p].pc # "patching" \/ req'[p].inst # z.inst
         /\ Cardinality(TypesOf(z.ids)) = 1
         /\ z.schemas \in fits \cup {None}
         /\ \A y \in insts' : y.id = z.inst =>
              y.ids = z.old /\ (z.schemas = None => y.schemas \in fits)
  BY <1>1, <1>2 DEF PatchKnows, Moves, Others, Grows
<1> QED
  BY <1>1, <1>3 DEF PatchKnows, TypesOf

\* A complete institution stays so, or its deletion is on record.
LEMMA CompleteKept ==
  ASSUME TypeOK, TypeOK', RowsKept, NEW y \in insts, y.id \notin doomed', Complete(y)
  PROVE  /\ \E z \in insts' : z.id = y.id /\ z.name = y.name
         /\ \A z \in insts' : z.id = y.id /\ z.name = y.name => Complete(z)'
<1>1. y.name \in Names /\ DbName[y.name] \in DbNames
  BY InstitutionAssumption DEF TypeOK
<1>2. pieces'[DbName[y.name]] \subseteq Pieces /\ Pieces \subseteq pieces'[DbName[y.name]]
  BY <1>1 DEF TypeOK, RowsKept, Complete
<1> QED
  BY <1>2 DEF RowsKept, Complete

\* Who was promised is complete, where the step itself promises nothing incomplete.
LEMMA MadeFrame ==
  ASSUME InstInv, TypeOK', Grows, RowsKept,
         \A i \in promised' \ promised : i \in doomed' \/ \E z \in insts' : z.id = i /\ Complete(z)'
  PROVE  MadeIsComplete'
<1> SUFFICES ASSUME NEW i \in promised'
             PROVE  i \in doomed' \/ \E z \in insts' : z.id = i /\ Complete(z)'
  BY DEF MadeIsComplete, Complete
<1>1. CASE i \in promised /\ i \notin doomed'
  <2>1. PICK y \in insts : y.id = i /\ Complete(y)
    BY <1>1 DEF InstInv, MadeIsComplete, Grows
  <2> QED
    BY <1>1, <2>1, CompleteKept DEF InstInv
<1> QED
  BY <1>1

\* Unfinished rows, where the step itself leaves none unexplained.
LEMMA HalfFrame ==
  ASSUME InstInv, TypeOK', NEW q \in Requests, NEW x, Moves(q, x), Grows, RowsKept,
         \A z \in insts' : \/ \E y \in insts : y.id = z.id /\ y.name = z.name
                           \/ SettingUp(q, z.id)',
         \A i \in InstIds : SettingUp(q, i) =>
            \/ SettingUp(q, i)' \/ i \in failed' \cup doomed'
            \/ \A z \in insts' : z.id = i => Complete(z)'
  PROVE  HalfMadeInWork'
<1> SUFFICES ASSUME NEW z \in insts'
             PROVE  \/ Complete(z)' \/ z.id \in failed' \cup doomed'
                    \/ \E o \in Requests : SettingUp(o, z.id)'
  BY DEF HalfMadeInWork, Complete, SettingUp
<1>1. CASE SettingUp(q, z.id)'
  BY <1>1
<1>2. ASSUME NEW y \in insts, y.id = z.id, y.name = z.name
      PROVE  \/ Complete(z)' \/ z.id \in failed' \cup doomed'
             \/ \E o \in Requests : SettingUp(o, z.id)'
  <2>1. CASE Complete(y)
    BY <1>2, <2>1, CompleteKept DEF InstInv
  <2>2. CASE y.id \in failed \cup doomed
    BY <1>2, <2>2 DEF Grows
  <2>3. ASSUME NEW o \in Requests, SettingUp(o, y.id)
        PROVE  \/ Complete(z)' \/ z.id \in failed' \cup doomed'
               \/ \E p \in Requests : SettingUp(p, z.id)'
    <3>1. CASE o = q
      BY <1>2, <2>3, <3>1 DEF InstInv, TypeOK
    <3>2. CASE o # q
      BY <1>2, <2>3, <3>2 DEF Moves, Others, SettingUp
    <3> QED
      BY <3>1, <3>2
  <2> QED
    BY <2>1, <2>2, <2>3 DEF InstInv, HalfMadeInWork
<1> QED
  BY <1>1, <1>2

\* Buckets without a row, where the step itself leaves none untraced.
LEMMA BucketFrame ==
  ASSUME InstInv, NEW q \in Requests, NEW x, Moves(q, x), Grows,
         \A i \in buckets' :
            /\ i \in buckets \/ i \in IdsOf(insts') \cup failed' \cup adopted' \/ BeingDeleted(i)'
            /\ i \in IdsOf(insts) => i \in IdsOf(insts') \/ BeingDeleted(i)'
            /\ req[q].pc = "row_deleted" /\ req[q].inst = i => i \in failed'
  PROVE  BucketsInWork'
<1> SUFFICES ASSUME NEW i \in buckets'
             PROVE  i \in IdsOf(insts') \cup failed' \cup adopted' \/ BeingDeleted(i)'
  BY DEF BucketsInWork, IdsOf, BeingDeleted
<1>1. CASE BeingDeleted(i)
  BY <1>1 DEF BeingDeleted, Moves, Others
<1>2. CASE i \in buckets /\ ~BeingDeleted(i)
  BY <1>2 DEF InstInv, BucketsInWork, Grows
<1> QED
  BY <1>1, <1>2

\* Rows that stay as they are keep what the rules made of them.
LEMMA RowsFrame ==
  ASSUME InstInv, UNCHANGED insts, raced \subseteq raced'
  PROVE  RowsUnique' /\ TypeFollowsRules'
  BY DEF InstInv, RowsUnique, TypeFollowsRules

\* A request on its own record only: nothing is lost.
LEMMA KeptFrame ==
  ASSUME UNCHANGED <<insts, pieces>>, granted \subseteq granted'
  PROVE  RowsKept
  BY DEF RowsKept

-----------------------------------------------------------------------------
(* Steps that only move a request on                                        *)

\* A step without effect on rows and resources: what it owes is the knowledge of
\* its own request, and an explanation of what it leaves behind.
LEMMA QuietStep ==
  ASSUME InstInv, UNCHANGED <<insts, resources>>, Grows,
         NEW q \in Requests, NEW x \in RequestType,
         req' \in [Requests -> RequestType], Moves(q, x),
         x.inst = None <=> x.pc = "done",
         x.name = None <=> x.pc \in {"done", "patching"},
         promised' \cup failed' \cup doomed' \cup raced' \cup adopted' \subseteq InstIds,
         Marked' \subseteq Marked \cup {req[q].inst, None},
         x.inst \in Marked \cup {req[q].inst, None} \cup FreshIds,
         x.pc = "creating" =>
            x.inst \in FreshIds /\ Marked' = Marked /\ Cardinality(TypesOf(x.ids)) = 1,
         SetUpKnows(q)', PatchKnows(q)',
         x.pc \in SetUpSteps =>
            \/ SettingUp(q, x.inst) \/ x.inst \in adopted'
            \/ \A o \in Others(q) : ~SettingUp(o, x.inst),
         req[q].pc = "row_deleted" => req[q].inst \in failed',
         x.pc = "patching" =>
            \/ x.inst \in raced'
            \/ \A o \in Others(q) : req[o].pc # "patching" \/ req[o].inst # x.inst,
         x.pc \in {"row_deleted", "cleaning"} => x.inst \in doomed',
         \A i \in promised' \ promised :
            i \in doomed' \/ \E z \in insts' : z.id = i /\ Complete(z)',
         \A i \in InstIds : SettingUp(q, i) =>
            \/ SettingUp(q, i)' \/ i \in failed' \cup doomed'
            \/ \A z \in insts' : z.id = i => Complete(z)'
  PROVE  InstInv'
<1>1. UNCHANGED <<insts, buckets, granted, pieces>>
  BY DEF resources
<1>2. TypeOK'
  <2>1. \A o \in Requests :
          /\ req'[o].inst = None <=> req'[o].pc = "done"
          /\ req'[o].name = None <=> req'[o].pc \in {"done", "patching"}
    BY DEF InstInv, TypeOK, Moves, Others
  <2> QED
    BY <1>1, <2>1 DEF InstInv, TypeOK
<1>3. RowsKept
  BY <1>1, KeptFrame
<1>4. RowsUnique' /\ TypeFollowsRules'
  BY <1>1, RowsFrame DEF Grows
<1>5. DrawnIdFresh'
  BY FreshFrame
<1>6. \A o \in Requests : SetUpKnows(o)'
  <2>1. \A i : BeingDeleted(i) => BeingDeleted(i)' \/ i \in failed'
    BY DEF BeingDeleted, Moves, Others
  <2>2. \A o \in Others(q) : SetUpKnows(o)'
    BY <1>1, <1>3, <2>1, SetUpFrame
  <2> QED
    BY <2>2 DEF Others
<1>7. \A o \in Requests : PatchKnows(o)'
  <2>1. \A o \in Others(q) : PatchKnows(o)'
    BY <1>1, PatchFrame
  <2> QED
    BY <2>1 DEF Others
<1>8. DeletionsOnRecord'
  BY DEF InstInv, DeletionsOnRecord, Moves, Others, Grows
<1>9. MadeIsComplete'
  BY <1>2, <1>3, MadeFrame
<1>10. HalfMadeInWork'
  BY <1>1, <1>2, <1>3, HalfFrame
<1>11. BucketsInWork'
  BY <1>1, BucketFrame DEF InstInv
<1> QED
  BY <1>2, <1>4, <1>5, <1>6, <1>7, <1>8, <1>9, <1>10, <1>11 DEF InstInv

\* A request that ends: an institution it was setting up is complete, or on record.
LEMMA IdleStep ==
  ASSUME InstInv, UNCHANGED <<insts, resources>>, Grows,
         NEW q \in Requests, req' = [req EXCEPT ![q] = Idle], req[q].pc # "done",
         UNCHANGED <<doomed, raced, adopted>>,
         promised' \subseteq promised \cup {req[q].inst},
         failed' \subseteq failed \cup {req[q].inst},
         promised \subseteq promised',
         req[q].pc = "row_deleted" => req[q].inst \in failed',
         \A i \in promised' \ promised :
            i \in doomed' \/ \E z \in insts' : z.id = i /\ Complete(z)',
         \A i \in InstIds : SettingUp(q, i) =>
            i \in failed' \cup doomed' \/ \A z \in insts' : z.id = i => Complete(z)'
  PROVE  InstInv'
<1>1. TypeOK /\ req[q].inst \in InstIds
  BY DEF InstInv, TypeOK, RequestType
<1>2. req' \in [Requests -> RequestType] /\ Moves(q, Idle)
  BY <1>1, IdleFacts, Slot
<1>3. SetUpKnows(q)' /\ PatchKnows(q)'
  BY <1>2, IdleFacts DEF Moves, SetUpKnows, PatchKnows, SetUpSteps
<1>4. Marked' \subseteq Marked \cup {req[q].inst, None}
  BY DEF Marked, resources
<1>5. promised' \cup failed' \cup doomed' \cup raced' \cup adopted' \subseteq InstIds
  BY <1>1 DEF TypeOK
<1>6. Idle.pc \notin SetUpSteps
  BY IdleFacts DEF SetUpSteps
<1> QED
  BY <1>2, <1>3, <1>4, <1>5, <1>6, IdleFacts, QuietStep

\* A request that fails is on record, unless it has changed nothing.
LEMMA AbortKeeps ==
  ASSUME InstInv, NEW q \in Requests, req[q].pc # "done", Abort(q) PROVE InstInv'
<1>1. /\ req' = [req EXCEPT ![q] = Idle]
      /\ UNCHANGED <<insts, resources, promised, doomed, raced, adopted>>
      /\ failed' = IF req[q].pc \in {"creating", "patching", "deleting"} THEN failed
                   ELSE failed \cup {req[q].inst}
  BY DEF Abort
<1>2. \A i \in InstIds : SettingUp(q, i) => i \in failed'
  BY <1>1 DEF SettingUp, SetUpSteps
<1>3. Grows
  BY <1>1 DEF Grows
<1> QED
  BY <1>1, <1>2, <1>3, IdleStep

\* Whom a creation finishes is complete, or was deleted meanwhile.
LEMMA FinishCreateKeeps == ASSUME InstInv, NEW q \in Requests, FinishCreate(q) PROVE InstInv'
<1> DEFINE i == req[q].inst
<1>1. /\ req[q].pc = "setup" /\ req[q].step \notin Pieces /\ req' = [req EXCEPT ![q] = Idle]
      /\ promised' = promised \cup {i}
      /\ UNCHANGED <<insts, resources, buckets, granted, pieces, failed, doomed, raced, adopted>>
  BY DEF FinishCreate, resources
<1>2. i \in doomed \/ \E x \in insts : x.id = i /\ Complete(x)
  <2>1. TypeOK /\ SetUpKnows(q)
    BY DEF InstInv
  <2>2. req[q].step \in 0..(2 * Levels + 1) /\ req[q].step # 0 /\ Levels \in Nat
    BY <1>1, <2>1, InstitutionAssumption DEF TypeOK, RequestType, SetUpKnows, SetUpSteps
  <2>3. 1..(req[q].step - 1) = Pieces
    BY <1>1, <2>2 DEF Pieces
  <2>4. CASE i \notin doomed
    <3>1. PICK x \in insts : x.id = i /\ x.name = req[q].name
      BY <1>1, <2>1, <2>4 DEF SetUpKnows, SetUpSteps
    <3>2. i \in granted /\ Pieces \subseteq pieces[DbName[x.name]]
      BY <1>1, <2>1, <2>3, <2>4, <3>1 DEF SetUpKnows, SetUpSteps
    <3>3. pieces[DbName[x.name]] \subseteq Pieces
      BY <2>1, InstitutionAssumption DEF TypeOK
    <3>4. pieces[DbName[x.name]] = Pieces
      BY <3>2, <3>3
    <3> QED
      BY <3>1, <3>2, <3>4 DEF Complete
  <2> QED
    BY <2>4
<1>3. i \in doomed' \/ \E z \in insts' : z.id = i /\ Complete(z)'
  BY <1>1, <1>2 DEF Complete
<1>4. i \in doomed' \/ \A z \in insts' : z.id = i => Complete(z)'
  BY <1>1, <1>2 DEF Complete, InstInv, RowsUnique
<1>5. Grows
  BY <1>1 DEF Grows
<1>6. ASSUME NEW j \in InstIds, SettingUp(q, j)
      PROVE  j \in failed' \cup doomed' \/ \A z \in insts' : z.id = j => Complete(z)'
  BY <1>4, <1>6 DEF SettingUp
<1>7. \A j \in promised' \ promised :
        j \in doomed' \/ \E z \in insts' : z.id = j /\ Complete(z)'
  BY <1>1, <1>3
<1> QED
  BY <1>1, <1>5, <1>6, <1>7, IdleStep

\* The last step of a deletion only frees the slot.
LEMMA FinishDeleteKeeps == ASSUME InstInv, NEW q \in Requests, FinishDelete(q) PROVE InstInv'
<1>1. /\ req[q].pc = "cleaning" /\ req' = [req EXCEPT ![q] = Idle]
      /\ UNCHANGED <<insts, resources, promised, failed, doomed, raced, adopted>>
  BY DEF FinishDelete, history
<1>2. \A i \in InstIds : ~SettingUp(q, i)
  BY <1>1 DEF SettingUp, SetUpSteps
<1>3. Grows
  BY <1>1 DEF Grows
<1> QED
  BY <1>1, <1>2, <1>3, IdleStep

\* The ids a request leaves on a row are ids, and it leaves some type if exactly one.
LEMMA MergedFacts ==
  ASSUME TypeOK, NEW old \in IdMap, NEW u \in Updates
  PROVE  /\ Merged(old, u) \in IdMap
         /\ OneType(old, u) => /\ Cardinality(TypesOf(Merged(old, u))) = 1
                               /\ TypeOf(Merged(old, u)) \in TypesOf(Merged(old, u))
<1>1. ASSUME NEW t \in Types PROVE NextId(t) \in Nat
  <2>1. IsFiniteSet({x \in insts : x.ids[t] # None})
    BY FS_Subset DEF TypeOK
  <2> QED
    BY <2>1, FS_CardinalityType DEF NextId
<1>2. Named(old, u) \in IdMap
  BY DEF Named, IdMap, Updates
<1>3. Merged(old, u) \in IdMap
  BY <1>1, <1>2 DEF Merged, IdMap
<1>4. ASSUME OneType(old, u)
      PROVE  /\ Cardinality(TypesOf(Merged(old, u))) = 1
             /\ TypeOf(Merged(old, u)) \in TypesOf(Merged(old, u))
  <2>1. Cardinality(TypesOf(Merged(old, u))) = 1
    BY <1>4 DEF OneType
  <2>2. TypesOf(Merged(old, u)) # {}
    BY <2>1, FS_EmptySet
  <2> QED
    BY <2>1, <2>2 DEF TypesOf, TypeOf
<1> QED
  BY <1>3, <1>4

\* The id that is drawn for a new row is nobody's, and the ids it gets are of one type.
LEMMA StartCreateKeeps ==
  ASSUME InstInv, NEW q \in Requests, NEW n \in Names, NEW u \in Updates, NEW i \in FreshIds,
         StartCreate(q, n, u, i)
  PROVE  InstInv'
<1>0. PICK x : x = [Idle EXCEPT !.pc = "creating", !.inst = i, !.name = n, !.ids = Merged(NoIds, u)]
  OBVIOUS
<1>1. /\ req[q].pc = "done" /\ OneType(NoIds, u) /\ req' = [req EXCEPT ![q] = x]
      /\ UNCHANGED <<insts, resources, buckets, promised, failed, doomed, raced, adopted>>
  BY <1>0 DEF StartCreate, history, resources
<1>2. /\ Merged(NoIds, u) \in IdMap /\ Cardinality(TypesOf(Merged(NoIds, u))) = 1
      /\ TypeOK /\ i \in InstIds /\ i # None /\ n # None
  <2>1. NoIds \in IdMap
    BY DEF NoIds, IdMap
  <2> QED
    BY <1>1, <2>1, MergedFacts, InstitutionAssumption DEF InstInv, FreshIds
<1>3. /\ x \in RequestType /\ x.pc = "creating" /\ x.inst = i /\ x.name = n
      /\ x.ids = Merged(NoIds, u)
  BY <1>0, <1>2, IdleFacts DEF RequestType
<1>4. req' \in [Requests -> RequestType] /\ Moves(q, x)
  BY <1>1, <1>2, <1>3, Slot
<1>5. SetUpKnows(q)' /\ PatchKnows(q)'
  BY <1>3, <1>4 DEF Moves, SetUpKnows, PatchKnows, SetUpSteps
<1>6. Marked' = Marked /\ Grows /\ promised' = promised
  BY <1>1 DEF Marked, Grows
<1>7. \A j \in InstIds : ~SettingUp(q, j)
  BY <1>1 DEF SettingUp, SetUpSteps
<1>8. promised' \cup failed' \cup doomed' \cup raced' \cup adopted' \subseteq InstIds
  BY <1>1, <1>2 DEF TypeOK
<1>9. x.pc \notin SetUpSteps
  BY <1>3 DEF SetUpSteps
<1> QED
  BY <1>1, <1>2, <1>3, <1>4, <1>5, <1>6, <1>7, <1>8, <1>9, QuietStep

\* The row read again by its name is the one inserted, or it was deleted, or another
\* creation's.
LEMMA FindKeeps == ASSUME InstInv, NEW q \in Requests, FindCreated(q) PROVE InstInv'
<1>1. CASE Abort(q) /\ req[q].pc # "done"
  BY <1>1, AbortKeeps
<1>2. CASE req[q].pc = "inserted" /\ req[q].name \in NamesOf(insts)
  <2>1. PICK y \in insts :
          /\ y.name = req[q].name
          /\ req' = [req EXCEPT ![q].pc = "found", ![q].inst = y.id]
          /\ adopted' = adopted \cup ({y.id} \ {req[q].inst})
          /\ UNCHANGED <<insts, resources, buckets, granted, pieces,
                         promised, failed, doomed, raced>>
    BY <1>2 DEF FindCreated, resources
  <2>0. PICK x : x = [req[q] EXCEPT !.pc = "found", !.inst = y.id]
    OBVIOUS
  <2>2. /\ TypeOK /\ SetUpKnows(q) /\ req[q] \in RequestType /\ y.id \in InstIds /\ y.name \in Names
        /\ y.id # None /\ y.name # None /\ req[q].inst \in InstIds
    BY <1>2, InstitutionAssumption DEF InstInv, TypeOK, RequestType
  <2>3. /\ x \in RequestType /\ x.pc = "found" /\ x.inst = y.id /\ x.name = y.name
        /\ req' = [req EXCEPT ![q] = x]
    BY <2>0, <2>1, <2>2 DEF RequestType, TypeOK
  <2>4. req' \in [Requests -> RequestType] /\ Moves(q, x)
    BY <2>2, <2>3, Slot
  <2>5. /\ req'[q].pc = "found" /\ req'[q].inst = y.id /\ req'[q].name = y.name
        /\ \A o \in Others(q) : req'[o] = req[o]
    BY <2>3, <2>4 DEF Moves
  <2>6. \/ y.id \in adopted'
        \/ /\ y.id = req[q].inst
           /\ \A o \in Others(q) : SettingUp(o, y.id) => y.id \in adopted
           /\ y.id \in failed \/ y.id \in adopted \/ y.id \notin buckets
    BY <1>2, <2>1, <2>2 DEF SetUpKnows, SetUpSteps
  <2>7. \A o \in Others(q) : SettingUp(o, y.id)' <=> SettingUp(o, y.id)
    BY <2>5 DEF SettingUp, Others
  <2>8. SetUpKnows(q)'
    <3>1. \A o \in Others(q) : SettingUp(o, y.id)' => y.id \in adopted'
      BY <2>1, <2>6, <2>7
    <3>2. y.id \in failed' \cup adopted' \/ y.id \notin buckets'
      BY <2>1, <2>6
    <3>3. y \in insts' /\ y.id \in IdsOf(insts')
      BY <2>1 DEF IdsOf
    <3> QED
      BY <2>5, <3>1, <3>2, <3>3 DEF SetUpKnows, SettingUp, IdsOf
  <2>9. PatchKnows(q)'
    BY <2>5 DEF PatchKnows
  <2>10. /\ Marked' \subseteq Marked /\ y.id \in Marked /\ Grows
         /\ promised' \cup failed' \cup doomed' \cup raced' \cup adopted' \subseteq InstIds
    BY <2>1, <2>2 DEF Marked, Grows, TypeOK, IdsOf
  <2>11. ASSUME NEW i \in InstIds, SettingUp(q, i)
         PROVE  SettingUp(q, i)' \/ i \in doomed'
    <3>1. CASE \E z \in insts : z.id = i /\ z.name = req[q].name
      BY <2>1, <2>5, <2>11, <3>1 DEF SettingUp, SetUpSteps, InstInv, RowsUnique
    <3> QED
      BY <1>2, <2>1, <2>2, <2>11, <3>1 DEF SetUpKnows, SettingUp
  <2>12. \A o \in Others(q) : SettingUp(o, y.id) => y.id \in adopted'
    BY <2>1, <2>6
  <2> QED
    BY <1>2, <2>1, <2>2, <2>3, <2>4, <2>8, <2>9, <2>10, <2>11, <2>12, QuietStep
<1> QED
  BY <1>1, <1>2 DEF FindCreated

\* A PATCH has the row it loaded to itself, or the institution is on record as raced.
LEMMA StartPatchKeeps ==
  ASSUME InstInv, NEW q \in Requests, NEW u \in Updates, NEW y \in insts, StartPatch(q, y, u)
  PROVE  InstInv'
<1> DEFINE new == Merged(y.ids, u)
           fits == TypesOf(new) \cup {"custom"}
<1>1. PICK s \in IF new # y.ids THEN {TypeOf(new)} ELSE {y.schemas, "custom"} :
        req' = [req EXCEPT ![q] =
          [Idle EXCEPT !.pc = "patching", !.inst = y.id, !.old = y.ids, !.ids = new,
                       !.schemas = IF s = y.schemas THEN None ELSE s]]
  BY DEF StartPatch
<1>2. /\ req[q].pc = "done" /\ OneType(y.ids, u)
      /\ raced' = raced \cup {i \in {y.id} :
                     \E p \in Requests : req[p].pc = "patching" /\ req[p].inst = i}
      /\ UNCHANGED <<insts, resources, buckets, promised, failed, doomed, adopted>>
  BY DEF StartPatch, resources
<1>3. /\ TypeOK /\ y.id \in InstIds /\ y.ids \in IdMap /\ y.schemas \in Schemas /\ y.id # None
  BY InstitutionAssumption DEF InstInv, TypeOK
<1>4. /\ new \in IdMap /\ Cardinality(TypesOf(new)) = 1 /\ TypeOf(new) \in TypesOf(new)
  BY <1>2, <1>3, MergedFacts
<1>5. TypesOf(new) \subseteq Types /\ s \in Schemas
  BY <1>3, <1>4 DEF TypesOf, Schemas
<1>0. PICK x : x = [Idle EXCEPT !.pc = "patching", !.inst = y.id, !.old = y.ids, !.ids = new,
                                !.schemas = IF s = y.schemas THEN None ELSE s]
  OBVIOUS
<1>6. /\ x \in RequestType /\ x.pc = "patching" /\ x.inst = y.id /\ x.name = None
      /\ x.ids = new /\ x.old = y.ids
      /\ x.schemas = (IF s = y.schemas THEN None ELSE s)
  BY <1>0, <1>3, <1>4, <1>5, IdleFacts DEF RequestType
<1>7. req' \in [Requests -> RequestType] /\ Moves(q, x)
  BY <1>0, <1>1, <1>3, <1>6, Slot
<1>8. Grows /\ Marked' \subseteq Marked /\ y.id \in Marked
      /\ promised' \cup failed' \cup doomed' \cup raced' \cup adopted' \subseteq InstIds
  BY <1>2, <1>3 DEF Marked, Grows, TypeOK, IdsOf
<1>9. y.id \in raced' \/ \A o \in Others(q) : req[o].pc # "patching" \/ req[o].inst # y.id
  BY <1>2 DEF Others
<1>10. y.id \in raced' \/ s \in fits
  BY <1>2, <1>4 DEF InstInv, TypeFollowsRules
<1>11. PatchKnows(q)'
  <2>1. CASE y.id \in raced'
    BY <1>6, <1>7, <2>1 DEF PatchKnows, Moves
  <2>2. CASE y.id \notin raced'
    <3>1. s \in fits
      BY <1>10, <2>2
    <3>2. \A z \in insts' : z.id = y.id => z = y
      BY <1>2 DEF InstInv, RowsUnique
    <3>3. x.schemas \in fits \cup {None} /\ (x.schemas = None => y.schemas \in fits)
      <4>1. s # None
        BY <1>5, InstitutionAssumption DEF Schemas
      <4> QED
        BY <1>6, <3>1, <4>1
    <3>4. \A o \in Others(q) : req'[o].pc # "patching" \/ req'[o].inst # y.id
      BY <1>7, <1>9, <2>2 DEF Moves
    <3> QED
      BY <1>4, <1>6, <1>7, <3>2, <3>3, <3>4 DEF PatchKnows, Moves, TypesOf
  <2> QED
    BY <2>1, <2>2
<1>12. SetUpKnows(q)' /\ x.pc \notin SetUpSteps
  BY <1>6, <1>7 DEF SetUpKnows, SetUpSteps, Moves
<1>13. \A j \in InstIds : ~SettingUp(q, j)
  BY <1>2 DEF SettingUp, SetUpSteps
<1> QED
  BY <1>2, <1>3, <1>6, <1>7, <1>8, <1>9, <1>11, <1>12, <1>13, QuietStep

\* A deletion begins by loading a row that is there.
LEMMA StartDeleteKeeps ==
  ASSUME InstInv, NEW q \in Requests, NEW y \in insts, StartDelete(q, y) PROVE InstInv'
<1>0. PICK x : x = [Idle EXCEPT !.pc = "deleting", !.inst = y.id, !.name = y.name]
  OBVIOUS
<1>1. /\ req[q].pc = "done" /\ req' = [req EXCEPT ![q] = x]
      /\ UNCHANGED <<insts, resources, buckets, promised, failed, doomed, raced, adopted>>
  BY <1>0 DEF StartDelete, history, resources
<1>2. /\ TypeOK /\ y.id \in InstIds /\ y.name \in Names /\ y.id # None /\ y.name # None
  BY InstitutionAssumption DEF InstInv, TypeOK
<1>3. x \in RequestType /\ x.pc = "deleting" /\ x.inst = y.id /\ x.name = y.name
  BY <1>0, <1>2, IdleFacts DEF RequestType
<1>4. req' \in [Requests -> RequestType] /\ Moves(q, x)
  BY <1>1, <1>2, <1>3, Slot
<1>5. SetUpKnows(q)' /\ PatchKnows(q)' /\ x.pc \notin SetUpSteps
  BY <1>3, <1>4 DEF Moves, SetUpKnows, PatchKnows, SetUpSteps
<1>6. Marked' = Marked /\ Grows /\ y.id \in Marked
      /\ promised' \cup failed' \cup doomed' \cup raced' \cup adopted' \subseteq InstIds
  BY <1>1, <1>2 DEF Marked, Grows, IdsOf, TypeOK
<1>7. \A j \in InstIds : ~SettingUp(q, j)
  BY <1>1 DEF SettingUp, SetUpSteps
<1> QED
  BY <1>1, <1>2, <1>3, <1>4, <1>5, <1>6, <1>7, QuietStep

-----------------------------------------------------------------------------
(* Steps with an effect on rows, buckets or pieces                          *)

\* What such a step owes, for a request that neither draws an id nor starts a PATCH.
LEMMA EffectStep ==
  ASSUME InstInv, TypeOK', Grows, RowsKept, UNCHANGED promised,
         NEW q \in Requests, NEW x, Moves(q, x),
         x.inst \in {req[q].inst, None}, x.pc \notin {"creating", "patching"},
         Marked' \subseteq Marked \cup {req[q].inst, None},
         RowsUnique', TypeFollowsRules', SetUpKnows(q)',
         x.pc \in SetUpSteps =>
            \/ SettingUp(q, x.inst) \/ x.inst \in adopted'
            \/ \A o \in Others(q) : ~SettingUp(o, x.inst),
         \A i : /\ \E o \in Others(q) : req[o].pc \in {"inserted", "found"} /\ req[o].inst = i
               /\ i \notin buckets /\ (i \in IdsOf(insts) \/ BeingDeleted(i))
            => \/ i \in failed' \cup adopted'
               \/ i \notin buckets' /\ (i \in IdsOf(insts') \/ BeingDeleted(i)'),
         \A o \in Others(q) : req[o].pc = "patching" =>
            \/ req[o].inst \in raced'
            \/ \A z \in insts' : z.id = req[o].inst => z \in insts,
         x.pc \in {"row_deleted", "cleaning"} => x.inst \in doomed',
         \A z \in insts' : \/ \E y \in insts : y.id = z.id /\ y.name = z.name
                           \/ SettingUp(q, z.id)',
         \A i \in InstIds : SettingUp(q, i) => SettingUp(q, i)',
         \A i \in buckets' :
            /\ i \in buckets \/ i \in IdsOf(insts') \cup failed' \cup adopted' \/ BeingDeleted(i)'
            /\ i \in IdsOf(insts) => i \in IdsOf(insts') \/ BeingDeleted(i)'
            /\ req[q].pc = "row_deleted" /\ req[q].inst = i => i \in failed'
  PROVE  InstInv'
<1>1. DrawnIdFresh'
  BY FreshFrame
<1>2. \A o \in Requests : SetUpKnows(o)'
  <2>1. \A o \in Others(q) : SetUpKnows(o)'
    BY SetUpFrame
  <2> QED
    BY <2>1 DEF Others
<1>3. \A o \in Requests : PatchKnows(o)'
  <2>1. \A o \in Others(q) : PatchKnows(o)'
    BY PatchFrame
  <2>2. PatchKnows(q)'
    BY DEF Moves, PatchKnows
  <2> QED
    BY <2>1, <2>2 DEF Others
<1>4. DeletionsOnRecord'
  BY DEF InstInv, DeletionsOnRecord, Moves, Others, Grows
<1>5. MadeIsComplete'
  BY MadeFrame
<1>6. HalfMadeInWork'
  BY HalfFrame
<1>7. BucketsInWork'
  BY BucketFrame
<1> QED
  BY <1>1, <1>2, <1>3, <1>4, <1>5, <1>6, <1>7 DEF InstInv

\* The requests' part of the types.
LEMMA SlotTypes ==
  ASSUME InstInv, NEW q \in Requests, NEW x \in RequestType, req' = [req EXCEPT ![q] = x],
         x.inst = None <=> x.pc = "done",
         x.name = None <=> x.pc \in {"done", "patching"}
  PROVE  /\ Moves(q, x) /\ req' \in [Requests -> RequestType]
         /\ \A o \in Requests :
              /\ req'[o].inst = None <=> req'[o].pc = "done"
              /\ req'[o].name = None <=> req'[o].pc \in {"done", "patching"}
<1>1. Moves(q, x) /\ req' \in [Requests -> RequestType]
  BY Slot DEF InstInv
<1> QED
  BY <1>1 DEF InstInv, TypeOK, Moves, Others

\* The row inserted has an id nobody else knows, and a name that no row has.
LEMMA CommitCreateKeeps == ASSUME InstInv, NEW q \in Requests, CommitCreate(q) PROVE InstInv'
<1> DEFINE i == req[q].inst
<1>0. PICK r : r = [id |-> i, name |-> req[q].name, ids |-> req[q].ids,
                    schemas |-> TypeOf(req[q].ids)]
  OBVIOUS
<1>1. CASE Abort(q) /\ req[q].pc = "creating"
  BY <1>1, AbortKeeps
<1>2. CASE /\ req[q].pc = "creating" /\ Unique(r) /\ insts' = insts \cup {r}
           /\ req' = [req EXCEPT ![q].pc = "inserted"]
           /\ UNCHANGED <<resources, history>>
  <2>1. PICK x : x = [req[q] EXCEPT !.pc = "inserted"]
    OBVIOUS
  <2>2. /\ TypeOK /\ i \notin Marked /\ \A o \in Others(q) : req[o].inst # i
        /\ Cardinality(TypesOf(req[q].ids)) = 1
    BY <1>2 DEF InstInv, DrawnIdFresh
  <2>3. /\ req[q] \in RequestType /\ i # None /\ i \in InstIds
        /\ req[q].name # None /\ req[q].name \in Names /\ req[q].ids \in IdMap
    BY <1>2, <2>2 DEF TypeOK, RequestType
  <2>4. TypeOf(req[q].ids) \in TypesOf(req[q].ids)
    <3>1. TypesOf(req[q].ids) # {}
      BY <2>2, FS_EmptySet
    <3> QED
      BY <3>1 DEF TypesOf, TypeOf
  <2>5. r \in [id: InstIds, name: Names, ids: IdMap, schemas: Schemas]
    BY <1>0, <2>3, <2>4 DEF TypesOf, Schemas
  <2>6. /\ x \in RequestType /\ x.pc = "inserted" /\ x.inst = i /\ x.name = req[q].name
        /\ req' = [req EXCEPT ![q] = x]
    BY <1>2, <2>1, <2>2, <2>3 DEF RequestType, TypeOK
  <2>7. /\ Moves(q, x) /\ req' \in [Requests -> RequestType]
        /\ \A o \in Requests :
              /\ req'[o].inst = None <=> req'[o].pc = "done"
              /\ req'[o].name = None <=> req'[o].pc \in {"done", "patching"}
    BY <2>3, <2>6, SlotTypes
  <2>8. UNCHANGED <<buckets, granted, pieces, promised, failed, doomed, raced, adopted>>
    BY <1>2 DEF resources, history
  <2>9. TypeOK'
    <3>1. IsFiniteSet(insts')
      BY <1>2, <2>2, FS_AddElement DEF TypeOK
    <3> QED
      BY <1>2, <2>2, <2>5, <2>7, <2>8, <3>1 DEF TypeOK
  <2>10. i \notin IdsOf(insts) /\ r \in insts' /\ r.id = i /\ r.name = req[q].name
    BY <1>0, <1>2, <2>2 DEF Marked
  <2>11. RowsUnique'
    <3>1. \A y \in insts : y.id # r.id /\ y.name # r.name
      BY <1>2, <2>10 DEF Unique, IdsOf
    <3> QED
      BY <1>2, <3>1 DEF InstInv, RowsUnique
  <2>12. TypeFollowsRules'
    <3>1. Cardinality(TypesOf(r.ids)) = 1 /\ r.schemas \in TypesOf(r.ids)
      BY <1>0, <2>2, <2>4
    <3>2. TypeFollowsRules /\ insts' = insts \cup {r} /\ raced' = raced
      BY <1>2, <2>8 DEF InstInv
    <3> QED
      BY <3>1, <3>2 DEF TypeFollowsRules
  <2>13. /\ Grows /\ RowsKept /\ IdsOf(insts') = IdsOf(insts) \cup {i}
         /\ Marked' \subseteq Marked \cup {i, None}
    BY <1>0, <1>2, <2>8 DEF Grows, RowsKept, IdsOf, Marked
  <2>14. i \notin buckets
    BY <2>2 DEF Marked
  <2>15. SetUpKnows(q)'
    <3>1. /\ req'[q].pc = "inserted" /\ req'[q].inst = i /\ req'[q].name = req[q].name
          /\ \A o \in Others(q) : ~SettingUp(o, i)'
      BY <2>2, <2>6, <2>7 DEF Moves, SettingUp
    <3> QED
      BY <2>8, <2>10, <2>14, <3>1 DEF SetUpKnows, SettingUp, IdsOf
  <2>16. \A o \in Others(q) : \A z \in insts' : z.id = req[o].inst => z \in insts
    BY <1>2, <2>2, <2>10
  <2>17. \A j : BeingDeleted(j) => BeingDeleted(j)'
    BY <1>2, <2>7 DEF BeingDeleted, Moves, Others
  <2>18. \A j : ~SettingUp(q, j)
    BY <1>2 DEF SettingUp, SetUpSteps
  <2>19. SettingUp(q, i)'
    BY <2>6, <2>7 DEF SettingUp, SetUpSteps, Moves
  <2>20. \A o \in Others(q) : ~SettingUp(o, x.inst)
    BY <2>2, <2>6 DEF SettingUp
  <2>21. \A z \in insts' : \/ \E y \in insts : y.id = z.id /\ y.name = z.name
                           \/ SettingUp(q, z.id)'
    BY <1>2, <2>10, <2>19
  <2>22. x.inst \in {i, None} /\ x.pc \notin {"creating", "patching", "row_deleted", "cleaning"}
    BY <2>6
  <2> QED
    BY <1>2, <2>7, <2>8, <2>9, <2>11, <2>12, <2>13, <2>15, <2>16, <2>17, <2>18, <2>20, <2>21, <2>22,
       EffectStep
<1> QED
  BY <1>0, <1>1, <1>2 DEF CommitCreate

\* A bucket is only made for an id that has none: its request knows a row for it, a
\* deletion under way, or a record of a second creation or a failure.
LEMMA CreateBucketKeeps == ASSUME InstInv, NEW q \in Requests, CreateBucket(q) PROVE InstInv'
<1> DEFINE i == req[q].inst
<1>1. CASE Abort(q) /\ req[q].pc = "found"
  BY <1>1, AbortKeeps
<1>2. CASE /\ req[q].pc = "found" /\ i \notin buckets /\ buckets' = buckets \cup {i}
           /\ req' = [req EXCEPT ![q].pc = "bucket_made"]
           /\ UNCHANGED <<insts, granted, pieces, history>>
  <2>1. PICK x : x = [req[q] EXCEPT !.pc = "bucket_made"]
    OBVIOUS
  <2>2. TypeOK /\ SetUpKnows(q) /\ RowsUnique /\ TypeFollowsRules
    BY DEF InstInv
  <2>3. /\ req[q] \in RequestType /\ i # None /\ i \in InstIds /\ req[q].name # None
    BY <1>2, <2>2 DEF TypeOK, RequestType
  <2>4. /\ x \in RequestType /\ x.pc = "bucket_made" /\ x.inst = i /\ x.name = req[q].name
        /\ req' = [req EXCEPT ![q] = x]
    BY <1>2, <2>1, <2>2, <2>3 DEF RequestType, TypeOK
  <2>5. /\ Moves(q, x) /\ req' \in [Requests -> RequestType]
        /\ \A o \in Requests :
              /\ req'[o].inst = None <=> req'[o].pc = "done"
              /\ req'[o].name = None <=> req'[o].pc \in {"done", "patching"}
    BY <2>3, <2>4, SlotTypes
  <2>6. UNCHANGED <<insts, granted, pieces, promised, failed, doomed, raced, adopted>>
    BY <1>2 DEF history
  <2>7. TypeOK'
    BY <1>2, <2>2, <2>3, <2>5, <2>6 DEF TypeOK
  <2>8. /\ Grows /\ RowsKept /\ IdsOf(insts') = IdsOf(insts)
        /\ Marked' \subseteq Marked \cup {i, None}
    BY <1>2, <2>6 DEF Grows, RowsKept, IdsOf, Marked
  <2>9. RowsUnique' /\ TypeFollowsRules'
    BY <2>6, RowsFrame
  <2>10. /\ i \in doomed \/ \E y \in insts : y.id = i /\ y.name = req[q].name
         /\ \A o \in Others(q) : SettingUp(o, i) => i \in adopted
         /\ i \in failed \cup adopted \/ i \in IdsOf(insts) \/ BeingDeleted(i)
    BY <1>2, <2>2 DEF SetUpKnows, SetUpSteps
  <2>11. SettingUp(q, i) /\ SettingUp(q, i)' /\ req'[q] = x
    BY <1>2, <2>4, <2>5 DEF SettingUp, SetUpSteps, Moves
  <2>12. SetUpKnows(q)'
    <3>1. \A o \in Others(q) : SettingUp(o, i)' => i \in adopted'
      BY <2>4, <2>5, <2>6, <2>10 DEF SettingUp, Moves
    <3> QED
      BY <2>4, <2>6, <2>10, <2>11, <3>1 DEF SetUpKnows, SettingUp
  <2>13. \A j : BeingDeleted(j) => BeingDeleted(j)'
    BY <1>2, <2>5 DEF BeingDeleted, Moves, Others
  <2>14. \A j : /\ \E o \in Others(q) : req[o].pc \in {"inserted", "found"} /\ req[o].inst = j
                /\ j \notin buckets /\ (j \in IdsOf(insts) \/ BeingDeleted(j))
            => \/ j \in failed' \cup adopted'
               \/ j \notin buckets' /\ (j \in IdsOf(insts') \/ BeingDeleted(j)')
    BY <1>2, <2>6, <2>8, <2>10, <2>13 DEF SettingUp, SetUpSteps
  <2>15. \A j \in buckets' :
            /\ j \in buckets \/ j \in IdsOf(insts') \cup failed' \cup adopted' \/ BeingDeleted(j)'
            /\ j \in IdsOf(insts) => j \in IdsOf(insts') \/ BeingDeleted(j)'
    BY <1>2, <2>6, <2>8, <2>10, <2>13
  <2>16. \A j \in InstIds : SettingUp(q, j) => SettingUp(q, j)'
    BY <2>4, <2>11 DEF SettingUp
  <2>17. x.inst \in {i, None} /\ x.pc \notin {"creating", "patching", "row_deleted", "cleaning"}
    BY <2>4
  <2>18. x.pc \in SetUpSteps => SettingUp(q, x.inst)
    BY <2>4, <2>11
  <2> QED
    BY <1>2, <2>5, <2>6, <2>7, <2>8, <2>9, <2>12, <2>14, <2>15, <2>16, <2>17, <2>18, EffectStep
<1> QED
  BY <1>1, <1>2 DEF CreateBucket

\* Permission on the bucket is all that the first part of the set-up promises.
LEMMA GrantBucketKeeps == ASSUME InstInv, NEW q \in Requests, GrantBucket(q) PROVE InstInv'
<1> DEFINE i == req[q].inst
<1>1. CASE Abort(q) /\ req[q].pc = "bucket_made"
  BY <1>1, AbortKeeps
<1>2. CASE /\ req[q].pc = "bucket_made" /\ i \in buckets /\ granted' = granted \cup {i}
           /\ req' = [req EXCEPT ![q].pc = "setup", ![q].step = 1]
           /\ UNCHANGED <<insts, buckets, pieces, history>>
  <2>1. PICK x : x = [req[q] EXCEPT !.pc = "setup", !.step = 1]
    OBVIOUS
  <2>2. TypeOK /\ SetUpKnows(q) /\ RowsUnique /\ TypeFollowsRules
    BY DEF InstInv
  <2>3. /\ req[q] \in RequestType /\ i # None /\ i \in InstIds /\ req[q].name # None
        /\ 1 \in 0..(2 * Levels + 1)
    BY <1>2, <2>2, InstitutionAssumption DEF TypeOK, RequestType
  <2>4. /\ x \in RequestType /\ x.pc = "setup" /\ x.inst = i /\ x.name = req[q].name
        /\ x.step = 1 /\ req' = [req EXCEPT ![q] = x]
    BY <1>2, <2>1, <2>2, <2>3 DEF RequestType, TypeOK
  <2>5. /\ Moves(q, x) /\ req' \in [Requests -> RequestType]
        /\ \A o \in Requests :
              /\ req'[o].inst = None <=> req'[o].pc = "done"
              /\ req'[o].name = None <=> req'[o].pc \in {"done", "patching"}
    BY <2>3, <2>4, SlotTypes
  <2>6. UNCHANGED <<insts, buckets, pieces, promised, failed, doomed, raced, adopted>>
    BY <1>2 DEF history
  <2>7. TypeOK'
    BY <1>2, <2>2, <2>3, <2>5, <2>6 DEF TypeOK
  <2>8. /\ Grows /\ RowsKept /\ IdsOf(insts') = IdsOf(insts) /\ Marked' = Marked
    BY <1>2, <2>6 DEF Grows, RowsKept, IdsOf, Marked
  <2>9. RowsUnique' /\ TypeFollowsRules'
    BY <2>6, RowsFrame
  <2>10. /\ i \in doomed \/ \E y \in insts : y.id = i /\ y.name = req[q].name
         /\ \A o \in Others(q) : SettingUp(o, i) => i \in adopted
    BY <1>2, <2>2 DEF SetUpKnows, SetUpSteps
  <2>11. SettingUp(q, i) /\ SettingUp(q, i)' /\ req'[q] = x
    BY <1>2, <2>4, <2>5 DEF SettingUp, SetUpSteps, Moves
  <2>12. SetUpKnows(q)'
    <3>1. \A o \in Others(q) : SettingUp(o, i)' => i \in adopted'
      BY <2>4, <2>5, <2>6, <2>10 DEF SettingUp, Moves
    <3>2. i \in granted' /\ 1..(x.step - 1) = {}
      BY <1>2, <2>4
    <3> QED
      BY <2>4, <2>6, <2>10, <2>11, <3>1, <3>2 DEF SetUpKnows, SettingUp
  <2>13. \A j : BeingDeleted(j) => BeingDeleted(j)'
    BY <1>2, <2>5 DEF BeingDeleted, Moves, Others
  <2>14. \A j : /\ \E o \in Others(q) : req[o].pc \in {"inserted", "found"} /\ req[o].inst = j
                /\ j \notin buckets /\ (j \in IdsOf(insts) \/ BeingDeleted(j))
            => j \notin buckets' /\ (j \in IdsOf(insts') \/ BeingDeleted(j)')
    BY <2>6, <2>8, <2>13
  <2>15. \A j \in InstIds : SettingUp(q, j) => SettingUp(q, j)'
    BY <2>4, <2>11 DEF SettingUp
  <2>16. x.inst \in {i, None} /\ x.pc \notin {"creating", "patching", "row_deleted", "cleaning"}
    BY <2>4
  <2>17. x.pc \in SetUpSteps => SettingUp(q, x.inst)
    BY <2>4, <2>11
  <2> QED
    BY <1>2, <2>5, <2>6, <2>7, <2>8, <2>9, <2>12, <2>13, <2>14, <2>15, <2>16, <2>17, EffectStep
<1> QED
  BY <1>1, <1>2 DEF GrantBucket

\* What a request in the middle of the set-up of Databricks may rely on.
LEMMA SetUpSoFar ==
  ASSUME InstInv, NEW q \in Requests, req[q].pc = "setup"
  PROVE  /\ \/ req[q].inst \in doomed
            \/ \E y \in insts : y.id = req[q].inst /\ y.name = req[q].name
         /\ \A o \in Others(q) : SettingUp(o, req[q].inst) => req[q].inst \in adopted
         /\ \/ req[q].inst \in doomed
            \/ /\ req[q].inst \in granted
               /\ 1..(req[q].step - 1) \subseteq pieces[DbName[req[q].name]]
  BY DEF InstInv, SetUpKnows, SetUpSteps

\* The pieces come in order, so those below the step are there unless a deletion came.
LEMMA SetupPieceKeeps == ASSUME InstInv, NEW q \in Requests, SetupPiece(q) PROVE InstInv'
<1> DEFINE i == req[q].inst
           d == DbName[req[q].name]
           p == req[q].step
<1>1. CASE Abort(q) /\ req[q].pc = "setup"
  BY <1>1, AbortKeeps
<1>2. CASE /\ req[q].pc = "setup" /\ p \in Pieces
           /\ IsVolume(p) => SchemaOf(p) \in pieces[d]
           /\ pieces' = [pieces EXCEPT ![d] = @ \cup {p}]
           /\ req' = [req EXCEPT ![q].step = @ + 1]
           /\ UNCHANGED <<insts, buckets, granted, history>>
  <2>1. PICK x : x = [req[q] EXCEPT !.step = @ + 1]
    OBVIOUS
  <2>2. TypeOK /\ SetUpKnows(q) /\ RowsUnique /\ TypeFollowsRules
    BY DEF InstInv
  <2>3. /\ req[q] \in RequestType /\ i # None /\ i \in InstIds /\ req[q].name # None
        /\ req[q].name \in Names /\ d \in DbNames
    BY <1>2, <2>2, InstitutionAssumption DEF TypeOK, RequestType
  <2>4. p \in Nat /\ p + 1 \in 0..(2 * Levels + 1) /\ p + 1 # 0 /\ 1..p = 1..(p - 1) \cup {p}
    BY <1>2, InstitutionAssumption DEF Pieces
  <2>5. /\ x \in RequestType /\ x.pc = "setup" /\ x.inst = i /\ x.name = req[q].name
        /\ x.step = p + 1 /\ req' = [req EXCEPT ![q] = x]
    BY <1>2, <2>1, <2>2, <2>3, <2>4 DEF RequestType, TypeOK
  <2>6. /\ Moves(q, x) /\ req' \in [Requests -> RequestType]
        /\ \A o \in Requests :
              /\ req'[o].inst = None <=> req'[o].pc = "done"
              /\ req'[o].name = None <=> req'[o].pc \in {"done", "patching"}
    BY <2>3, <2>5, SlotTypes
  <2>7. UNCHANGED <<insts, buckets, granted, promised, failed, doomed, raced, adopted>>
    BY <1>2 DEF history
  <2>8. /\ pieces' \in [DbNames -> SUBSET Pieces]
        /\ \A e \in DbNames : pieces'[e] = IF e = d THEN pieces[d] \cup {p} ELSE pieces[e]
    BY <1>2, <2>2, <2>3 DEF TypeOK
  <2>9. TypeOK'
    <3>1. \A e \in DbNames : \A v \in pieces'[e] : IsVolume(v) => SchemaOf(v) \in pieces'[e]
      BY <1>2, <2>2, <2>8 DEF TypeOK
    <3> QED
      BY <2>2, <2>6, <2>7, <2>8, <3>1 DEF TypeOK
  <2>10. /\ Grows /\ IdsOf(insts') = IdsOf(insts) /\ Marked' = Marked
    BY <2>7 DEF Grows, IdsOf, Marked
  <2>11. RowsKept
    <3>1. \A y \in insts : DbName[y.name] \in DbNames
      BY <2>2, InstitutionAssumption DEF TypeOK
    <3> QED
      BY <2>7, <2>8, <3>1 DEF RowsKept
  <2>12. RowsUnique' /\ TypeFollowsRules'
    BY <2>7, RowsFrame
  <2>13. /\ i \in doomed \/ \E y \in insts : y.id = i /\ y.name = req[q].name
         /\ \A o \in Others(q) : SettingUp(o, i) => i \in adopted
         /\ i \in doomed \/ (i \in granted /\ 1..(p - 1) \subseteq pieces[d])
    BY <1>2, SetUpSoFar
  <2>14. SettingUp(q, i) /\ SettingUp(q, i)' /\ req'[q] = x
    BY <1>2, <2>5, <2>6 DEF SettingUp, SetUpSteps, Moves
  <2>15. SetUpKnows(q)'
    <3>1. \A o \in Others(q) : SettingUp(o, i)' => i \in adopted'
      BY <2>5, <2>6, <2>7, <2>13 DEF SettingUp, Moves
    <3>2. i \in doomed' \/ (i \in granted' /\ 1..p \subseteq pieces'[d])
      BY <2>3, <2>4, <2>7, <2>8, <2>13
    <3>3. x.step - 1 = p /\ x.step # 0
      BY <2>4, <2>5
    <3> QED
      BY <2>5, <2>7, <2>13, <2>14, <3>1, <3>2, <3>3 DEF SetUpKnows, SettingUp
  <2>16. \A j : BeingDeleted(j) => BeingDeleted(j)'
    BY <1>2, <2>6 DEF BeingDeleted, Moves, Others
  <2>17. \A j : /\ \E o \in Others(q) : req[o].pc \in {"inserted", "found"} /\ req[o].inst = j
                /\ j \notin buckets /\ (j \in IdsOf(insts) \/ BeingDeleted(j))
            => j \notin buckets' /\ (j \in IdsOf(insts') \/ BeingDeleted(j)')
    BY <2>7, <2>10, <2>16
  <2>18. \A j \in InstIds : SettingUp(q, j) => SettingUp(q, j)'
    BY <2>5, <2>14 DEF SettingUp
  <2>19. x.inst \in {i, None} /\ x.pc \notin {"creating", "patching", "row_deleted", "cleaning"}
    BY <2>5
  <2>20. x.pc \in SetUpSteps => SettingUp(q, x.inst)
    BY <2>5, <2>14
  <2> QED
    BY <1>2, <2>6, <2>7, <2>9, <2>10, <2>11, <2>12, <2>15, <2>16, <2>17, <2>18, <2>19, <2>20,
       EffectStep
<1> QED
  BY <1>1, <1>2 DEF SetupPiece

\* A PATCH that has the row to itself writes the ids that it chose for what is there;
\* id and name of a row never change.
LEMMA CommitPatchKeeps == ASSUME InstInv, NEW q \in Requests, CommitPatch(q) PROVE InstInv'
<1> DEFINE i == req[q].inst
           ids == [t \in Types |-> IF req[q].ids[t] # req[q].old[t] THEN req[q].ids[t]
                                   ELSE Row(i).ids[t]]
<1>0. PICK r : r = [Row(i) EXCEPT !.ids = ids,
                      !.schemas = IF req[q].schemas # None THEN req[q].schemas ELSE @]
  OBVIOUS
<1>1. CASE Abort(q) /\ req[q].pc = "patching"
  BY <1>1, AbortKeeps
<1>2. CASE /\ req[q].pc = "patching" /\ i \in IdsOf(insts) /\ Unique(r)
           /\ insts' = (insts \ {Row(i)}) \cup {r}
           /\ req' = [req EXCEPT ![q] = Idle]
           /\ UNCHANGED <<resources, history>>
  <2>1. PICK y : y = Row(i)
    OBVIOUS
  <2>2. TypeOK /\ PatchKnows(q) /\ RowsUnique /\ TypeFollowsRules
    BY DEF InstInv
  <2>3. y \in insts /\ y.id = i
    BY <1>2, <2>1 DEF Row, IdsOf
  <2>4. /\ y \in [id: InstIds, name: Names, ids: IdMap, schemas: Schemas]
        /\ req[q] \in RequestType /\ i # None /\ i \in InstIds
    BY <2>2, <2>3, InstitutionAssumption DEF TypeOK
  <2>5. ids \in IdMap
    BY <2>1, <2>4 DEF IdMap, RequestType
  <2>6. /\ r \in [id: InstIds, name: Names, ids: IdMap, schemas: Schemas]
        /\ r.id = i /\ r.name = y.name /\ r.ids = ids
        /\ r.schemas = IF req[q].schemas # None THEN req[q].schemas ELSE y.schemas
    BY <1>0, <2>1, <2>3, <2>4, <2>5 DEF RequestType
  <2>7. insts' = (insts \ {y}) \cup {r}
    BY <1>2, <2>1
  <2>8. /\ Moves(q, Idle) /\ req' \in [Requests -> RequestType]
        /\ \A o \in Requests :
              /\ req'[o].inst = None <=> req'[o].pc = "done"
              /\ req'[o].name = None <=> req'[o].pc \in {"done", "patching"}
    BY <1>2, IdleFacts, SlotTypes
  <2>9. UNCHANGED <<buckets, granted, pieces, promised, failed, doomed, raced, adopted>>
    BY <1>2 DEF resources, history
  <2>10. TypeOK'
    <3>1. IsFiniteSet(insts')
      <4>1. IsFiniteSet(insts \ {y})
        BY <2>2, FS_Subset DEF TypeOK
      <4> QED
        BY <2>7, <4>1, FS_AddElement
    <3> QED
      BY <2>2, <2>6, <2>7, <2>8, <2>9, <3>1 DEF TypeOK
  <2>11. \A z \in insts \ {y} : z.id # i /\ z.name # r.name
    BY <2>2, <2>3, <2>6 DEF RowsUnique
  <2>12. RowsUnique'
    BY <2>2, <2>6, <2>7, <2>11 DEF RowsUnique
  <2>13. TypeFollowsRules'
    <3>1. CASE i \in raced
      BY <2>2, <2>6, <2>7, <2>9, <3>1 DEF TypeFollowsRules
    <3>2. CASE i \notin raced
      <4>1. /\ Cardinality(TypesOf(req[q].ids)) = 1 /\ y.ids = req[q].old
            /\ req[q].schemas \in TypesOf(req[q].ids) \cup {"custom", None}
            /\ req[q].schemas = None => y.schemas \in TypesOf(req[q].ids) \cup {"custom"}
        BY <1>2, <2>2, <2>3, <3>2 DEF PatchKnows
      <4>2. ids = req[q].ids
        BY <2>1, <2>4, <4>1 DEF RequestType, IdMap
      <4>3. Cardinality(TypesOf(r.ids)) = 1 /\ r.schemas \in TypesOf(r.ids) \cup {"custom"}
        BY <2>6, <4>1, <4>2
      <4> QED
        BY <2>2, <2>7, <2>9, <4>3 DEF TypeFollowsRules
    <3> QED
      BY <3>1, <3>2
  <2>14. IdsOf(insts') = IdsOf(insts) /\ r \in insts'
    BY <2>3, <2>6, <2>7 DEF IdsOf
  <2>15. Grows /\ Marked' = Marked
    BY <2>9, <2>14 DEF Grows, Marked
  <2>16. \A z \in insts : \E w \in insts' : w.id = z.id /\ w.name = z.name
    BY <2>3, <2>6, <2>7
  <2>17. RowsKept
    BY <2>9, <2>16 DEF RowsKept
  <2>18. /\ SetUpKnows(q)' /\ Idle.pc \notin SetUpSteps
         /\ \A j \in InstIds : ~SettingUp(q, j)
    BY <1>2, <2>8, IdleFacts DEF Moves, SetUpKnows, SetUpSteps, SettingUp
  <2>19. \A o \in Others(q) : req[o].pc = "patching" =>
            \/ req[o].inst \in raced'
            \/ \A z \in insts' : z.id = req[o].inst => z \in insts
    <3>1. ASSUME NEW o \in Others(q), req[o].pc = "patching", req[o].inst = i
          PROVE  i \in raced'
      BY <1>2, <2>2, <2>9, <3>1 DEF PatchKnows
    <3> QED
      BY <2>6, <2>7, <3>1
  <2>20. \A j : BeingDeleted(j) => BeingDeleted(j)'
    BY <1>2, <2>8 DEF BeingDeleted, Moves, Others
  <2>21. \A z \in insts' : \E w \in insts : w.id = z.id /\ w.name = z.name
    BY <2>3, <2>6, <2>7
  <2> QED
    BY <1>2, <2>8, <2>9, <2>10, <2>12, <2>13, <2>14, <2>15, <2>17, <2>18, <2>19, <2>20, <2>21,
       IdleFacts, EffectStep
<1> QED
  BY <1>0, <1>1, <1>2 DEF CommitPatch

\* The row that goes is on record as doomed, and its request is deleting the bucket next.
LEMMA CommitDeleteKeeps == ASSUME InstInv, NEW q \in Requests, CommitDelete(q) PROVE InstInv'
<1> DEFINE i == req[q].inst
<1>1. PICK x : x = [req[q] EXCEPT !.pc = "row_deleted"]
  OBVIOUS
<1>2. TypeOK /\ RowsUnique /\ TypeFollowsRules
  BY DEF InstInv
<1>3. /\ req[q].pc = "deleting"
      /\ insts' = {z \in insts : z.id # i} /\ doomed' = doomed \cup {i}
      /\ req' = [req EXCEPT ![q].pc = "row_deleted"]
      /\ UNCHANGED <<buckets, granted, pieces, promised, failed, raced, adopted>>
  BY DEF CommitDelete, resources
<1>4. req[q] \in RequestType /\ i # None /\ i \in InstIds /\ req[q].name # None
  BY <1>2, <1>3 DEF TypeOK, RequestType
<1>5. /\ x \in RequestType /\ x.pc = "row_deleted" /\ x.inst = i /\ x.name = req[q].name
      /\ req' = [req EXCEPT ![q] = x]
  BY <1>1, <1>2, <1>3, <1>4 DEF RequestType, TypeOK
<1>6. /\ Moves(q, x) /\ req' \in [Requests -> RequestType]
      /\ \A o \in Requests :
            /\ req'[o].inst = None <=> req'[o].pc = "done"
            /\ req'[o].name = None <=> req'[o].pc \in {"done", "patching"}
  BY <1>4, <1>5, SlotTypes
<1>7. TypeOK'
  <2>1. IsFiniteSet(insts')
    BY <1>2, <1>3, FS_Subset DEF TypeOK
  <2> QED
    BY <1>2, <1>3, <1>4, <1>6, <2>1 DEF TypeOK
<1>8. /\ Grows /\ RowsKept /\ IdsOf(insts) \subseteq IdsOf(insts') \cup {i}
      /\ Marked' \subseteq Marked \cup {i, None}
  BY <1>3 DEF Grows, RowsKept, IdsOf, Marked
<1>9. RowsUnique' /\ TypeFollowsRules'
  BY <1>2, <1>3 DEF RowsUnique, TypeFollowsRules
<1>10. SetUpKnows(q)' /\ x.pc \notin SetUpSteps /\ \A j \in InstIds : ~SettingUp(q, j)
  BY <1>3, <1>5, <1>6 DEF Moves, SetUpKnows, SetUpSteps, SettingUp
<1>11. \A j : BeingDeleted(j) \/ j = i => BeingDeleted(j)'
  BY <1>3, <1>5, <1>6 DEF BeingDeleted, Moves, Others
<1>12. \A z \in insts' : z \in insts
  BY <1>3
<1>13. i \in doomed' /\ x.inst \in {i, None} /\ x.pc \notin {"creating", "patching"}
  BY <1>3, <1>5
<1> QED
  BY <1>3, <1>5, <1>6, <1>7, <1>8, <1>9, <1>10, <1>11, <1>12, <1>13, EffectStep

\* The bucket that goes is that of a row already deleted.
LEMMA DeleteBucketKeeps == ASSUME InstInv, NEW q \in Requests, DeleteBucket(q) PROVE InstInv'
<1> DEFINE i == req[q].inst
<1>1. CASE Abort(q) /\ req[q].pc = "row_deleted"
  BY <1>1, AbortKeeps
<1>2. CASE /\ req[q].pc = "row_deleted" /\ i \in buckets
           /\ buckets' = buckets \ {i} /\ granted' = granted \ {i}
           /\ req' = [req EXCEPT ![q].pc = "cleaning", ![q].step = 1]
           /\ UNCHANGED <<insts, pieces, history>>
  <2>1. PICK x : x = [req[q] EXCEPT !.pc = "cleaning", !.step = 1]
    OBVIOUS
  <2>2. TypeOK /\ i \in doomed
    BY <1>2 DEF InstInv, DeletionsOnRecord
  <2>3. /\ req[q] \in RequestType /\ i # None /\ i \in InstIds /\ req[q].name # None
        /\ 1 \in 0..(2 * Levels + 1)
    BY <1>2, <2>2, InstitutionAssumption DEF TypeOK, RequestType
  <2>4. /\ x \in RequestType /\ x.pc = "cleaning" /\ x.inst = i /\ x.name = req[q].name
        /\ req' = [req EXCEPT ![q] = x]
    BY <1>2, <2>1, <2>2, <2>3 DEF RequestType, TypeOK
  <2>5. /\ Moves(q, x) /\ req' \in [Requests -> RequestType]
        /\ \A o \in Requests :
              /\ req'[o].inst = None <=> req'[o].pc = "done"
              /\ req'[o].name = None <=> req'[o].pc \in {"done", "patching"}
    BY <2>3, <2>4, SlotTypes
  <2>6. UNCHANGED <<insts, pieces, promised, failed, doomed, raced, adopted>>
    BY <1>2 DEF history
  <2>7. TypeOK'
    BY <1>2, <2>2, <2>5, <2>6 DEF TypeOK
  <2>8. /\ Grows /\ RowsKept /\ IdsOf(insts') = IdsOf(insts) /\ Marked' \subseteq Marked
    BY <1>2, <2>2, <2>6 DEF Grows, RowsKept, IdsOf, Marked
  <2>9. RowsUnique' /\ TypeFollowsRules'
    BY <2>6, RowsFrame
  <2>10. SetUpKnows(q)' /\ x.pc \notin SetUpSteps /\ \A j \in InstIds : ~SettingUp(q, j)
    BY <1>2, <2>4, <2>5 DEF Moves, SetUpKnows, SetUpSteps, SettingUp
  <2>11. \A j : BeingDeleted(j) /\ j # i => BeingDeleted(j)'
    BY <2>5 DEF BeingDeleted, Moves, Others
  <2>12. \A j \in buckets' : j \in buckets /\ j # i
    BY <1>2
  <2>13. \A j : /\ j \notin buckets /\ (j \in IdsOf(insts) \/ BeingDeleted(j))
            => j \notin buckets' /\ (j \in IdsOf(insts') \/ BeingDeleted(j)')
    BY <1>2, <2>8, <2>11
  <2>14. x.inst \in {i, None} /\ x.pc \notin {"creating", "patching"} /\ x.inst \in doomed'
    BY <2>2, <2>4, <2>6
  <2> QED
    BY <1>2, <2>5, <2>6, <2>7, <2>8, <2>9, <2>10, <2>12, <2>13, <2>14, EffectStep
<1> QED
  BY <1>1, <1>2 DEF DeleteBucket

\* Who loses a piece has a row with the same Databricks name, or none any more.
LEMMA DeletePieceKeeps == ASSUME InstInv, NEW q \in Requests, DeletePiece(q) PROVE InstInv'
<1> DEFINE i == req[q].inst
           d == DbName[req[q].name]
           p == IF req[q].step <= Levels THEN req[q].step + Levels ELSE req[q].step - Levels
<1>0. PICK x : x = [req[q] EXCEPT !.step = @ + 1]
  OBVIOUS
<1>1. /\ req[q].pc = "cleaning" /\ req[q].step \in Pieces
      /\ req' = [req EXCEPT ![q].step = @ + 1]
      /\ UNCHANGED <<insts, buckets, granted, promised, failed, raced, adopted>>
  BY DEF DeletePiece
<1>2. \/ /\ \A v \in pieces[d] : IsVolume(v) => SchemaOf(v) # p
         /\ pieces' = [pieces EXCEPT ![d] = @ \ {p}]
         /\ doomed' = doomed \cup {y.id : y \in {z \in insts : DbName[z.name] = d}}
      \/ UNCHANGED <<pieces, doomed>>
  BY DEF DeletePiece
<1>3. TypeOK /\ i \in doomed
  BY <1>1 DEF InstInv, DeletionsOnRecord
<1>4. /\ req[q] \in RequestType /\ i # None /\ i \in InstIds /\ req[q].name # None
      /\ d \in DbNames
  BY <1>1, <1>3, InstitutionAssumption DEF TypeOK, RequestType
<1>5. req[q].step \in Nat /\ req[q].step + 1 \in 0..(2 * Levels + 1)
  BY <1>1, InstitutionAssumption DEF Pieces
<1>6. /\ x \in RequestType /\ x.pc = "cleaning" /\ x.inst = i /\ x.name = req[q].name
      /\ req' = [req EXCEPT ![q] = x]
  BY <1>0, <1>1, <1>3, <1>4, <1>5 DEF RequestType, TypeOK
<1>7. /\ Moves(q, x) /\ req' \in [Requests -> RequestType]
      /\ \A o \in Requests :
            /\ req'[o].inst = None <=> req'[o].pc = "done"
            /\ req'[o].name = None <=> req'[o].pc \in {"done", "patching"}
  BY <1>4, <1>6, SlotTypes
<1>8. /\ pieces' \in [DbNames -> SUBSET Pieces]
      /\ \A e \in DbNames : \A v \in pieces'[e] : IsVolume(v) => SchemaOf(v) \in pieces'[e]
      /\ \A e \in DbNames \ {d} : pieces'[e] = pieces[e]
      /\ doomed \subseteq doomed' /\ doomed' \subseteq doomed \cup IdsOf(insts)
      /\ \A y \in insts : y.id \in doomed' \/ pieces'[DbName[y.name]] = pieces[DbName[y.name]]
  <2>1. \A y \in insts : DbName[y.name] \in DbNames
    BY <1>3, InstitutionAssumption DEF TypeOK
  <2>2. CASE UNCHANGED <<pieces, doomed>>
    BY <1>3, <2>2 DEF TypeOK
  <2>3. CASE /\ \A v \in pieces[d] : IsVolume(v) => SchemaOf(v) # p
             /\ pieces' = [pieces EXCEPT ![d] = @ \ {p}]
             /\ doomed' = doomed \cup {y.id : y \in {z \in insts : DbName[z.name] = d}}
    <3>1. /\ pieces' \in [DbNames -> SUBSET Pieces]
          /\ \A e \in DbNames : pieces'[e] = IF e = d THEN pieces[d] \ {p} ELSE pieces[e]
      BY <1>3, <1>4, <2>3 DEF TypeOK
    <3>2. \A e \in DbNames : \A v \in pieces'[e] : IsVolume(v) => SchemaOf(v) \in pieces'[e]
      BY <1>3, <2>3, <3>1 DEF TypeOK
    <3> QED
      BY <2>1, <2>3, <3>1, <3>2 DEF IdsOf
  <2> QED
    BY <1>2, <2>2, <2>3
<1>9. IdsOf(insts) \subseteq InstIds /\ IdsOf(insts') = IdsOf(insts)
  BY <1>1, <1>3 DEF TypeOK, IdsOf
<1>10. TypeOK'
  BY <1>1, <1>3, <1>7, <1>8, <1>9 DEF TypeOK
<1>11. /\ Grows /\ RowsKept /\ Marked' \subseteq Marked
  BY <1>1, <1>8 DEF Grows, RowsKept, IdsOf, Marked
<1>12. RowsUnique' /\ TypeFollowsRules'
  BY <1>1, RowsFrame
<1>13. SetUpKnows(q)' /\ x.pc \notin SetUpSteps /\ \A j \in InstIds : ~SettingUp(q, j)
  BY <1>1, <1>6, <1>7 DEF Moves, SetUpKnows, SetUpSteps, SettingUp
<1>14. \A j : BeingDeleted(j) => BeingDeleted(j)'
  BY <1>1, <1>7 DEF BeingDeleted, Moves, Others
<1>15. x.inst \in {i, None} /\ x.pc \notin {"creating", "patching"} /\ x.inst \in doomed'
  BY <1>3, <1>6, <1>8
<1> QED
  BY <1>1, <1>7, <1>9, <1>10, <1>11, <1>12, <1>13, <1>14, <1>15, EffectStep

-----------------------------------------------------------------------------
(* The invariant, and what it is for                                        *)

\* Nothing exists yet.
LEMMA InstInit == ASSUME Init PROVE InstInv
<1>1. /\ insts = {} /\ buckets = {} /\ granted = {} /\ pieces = [d \in DbNames |-> {}]
      /\ promised = {} /\ failed = {} /\ doomed = {} /\ raced = {} /\ adopted = {}
      /\ \A q \in Requests : req[q] = Idle
      /\ req = [q \in Requests |-> Idle]
  BY DEF Init
<1>2. TypeOK
  <2>1. IsFiniteSet(insts)
    BY <1>1, FS_EmptySet
  <2>2. req \in [Requests -> RequestType]
    BY <1>1, IdleFacts
  <2> QED
    BY <1>1, <2>1, <2>2, IdleFacts DEF TypeOK
<1>3. \A q \in Requests : SetUpKnows(q) /\ PatchKnows(q)
  BY <1>1, IdleFacts DEF SetUpKnows, PatchKnows, SetUpSteps
<1>4. DrawnIdFresh /\ DeletionsOnRecord
  BY <1>1, IdleFacts DEF DrawnIdFresh, DeletionsOnRecord
<1>5. /\ RowsUnique /\ MadeIsComplete /\ HalfMadeInWork /\ BucketsInWork /\ TypeFollowsRules
  BY <1>1 DEF RowsUnique, MadeIsComplete, HalfMadeInWork, BucketsInWork, TypeFollowsRules
<1> QED
  BY <1>2, <1>3, <1>4, <1>5 DEF InstInv

\* A step without any effect.
LEMMA InstStutter == ASSUME InstInv, UNCHANGED vars PROVE InstInv'
<1>1. UNCHANGED <<insts, buckets, granted, pieces, req, promised, failed, doomed, raced, adopted>>
  BY DEF vars
<1>2. TypeOK' /\ RowsUnique' /\ MadeIsComplete' /\ TypeFollowsRules'
  BY <1>1 DEF InstInv, TypeOK, RowsUnique, MadeIsComplete, Complete, TypeFollowsRules
<1>3. DrawnIdFresh' /\ DeletionsOnRecord'
  BY <1>1 DEF InstInv, DrawnIdFresh, DeletionsOnRecord, Marked, IdsOf
<1>4. \A q \in Requests : SetUpKnows(q)'
  BY <1>1 DEF InstInv, SetUpKnows, SettingUp, BeingDeleted, IdsOf
<1>5. \A q \in Requests : PatchKnows(q)'
  BY <1>1 DEF InstInv, PatchKnows
<1>6. HalfMadeInWork' /\ BucketsInWork'
  BY <1>1 DEF InstInv, HalfMadeInWork, BucketsInWork, Complete, SettingUp, BeingDeleted, IdsOf
<1> QED
  BY <1>2, <1>3, <1>4, <1>5, <1>6 DEF InstInv

\* Each step of a request that has begun preserves the invariant.
LEMMA AdvanceKeeps == ASSUME InstInv, NEW q \in Requests, Advance(q) PROVE InstInv'
  BY CommitCreateKeeps, FindKeeps, CreateBucketKeeps, GrantBucketKeeps, SetupPieceKeeps,
     FinishCreateKeeps, CommitPatchKeeps, CommitDeleteKeeps, DeleteBucketKeeps, DeletePieceKeeps,
     FinishDeleteKeeps DEF Advance

\* Each step of the server preserves the invariant.
LEMMA InstStep == ASSUME InstInv, [Next]_vars PROVE InstInv'
<1>1. ASSUME NEW q \in Requests, NEW n \in Names, NEW u \in Updates, AnswerAtOnce(q, n, u)
      PROVE  InstInv'
  BY <1>1, InstStutter DEF AnswerAtOnce
<1>2. ASSUME NEW q \in Requests, NEW n \in Names, NEW u \in Updates, NEW i \in FreshIds,
             StartCreate(q, n, u, i)
      PROVE  InstInv'
  BY <1>2, StartCreateKeeps
<1>3. ASSUME NEW q \in Requests, NEW u \in Updates, NEW x \in insts, StartPatch(q, x, u)
      PROVE  InstInv'
  BY <1>3, StartPatchKeeps
<1>4. ASSUME NEW q \in Requests, NEW x \in insts, StartDelete(q, x) PROVE InstInv'
  BY <1>4, StartDeleteKeeps
<1>5. ASSUME NEW q \in Requests, Advance(q) PROVE InstInv'
  BY <1>5, AdvanceKeeps
<1>6. ASSUME NEW q \in Requests, Fail(q) PROVE InstInv'
  BY <1>6, AbortKeeps DEF Fail
<1>7. CASE UNCHANGED vars
  BY <1>7, InstStutter
<1> QED
  BY <1>1, <1>2, <1>3, <1>4, <1>5, <1>6, <1>7 DEF Next

\* Whatever create_institution, PATCHes and deletions do one amid the other, what the
\* requests under way rely on holds.
THEOREM InstitutionsInvariance == Spec => []InstInv
<1> QED
  BY InstInit, InstStep, PTL DEF Spec

\* An institution that create_institution answered 200 to keeps its row, its bucket with
\* the permission and all its schemas and volumes, unless a deletion of it, or of one with
\* the same Databricks name, came.
THEOREM PromisesAreKept == Spec => []MadeIsComplete
<1>1. InstInv => MadeIsComplete
  BY DEF InstInv
<1> QED
  BY <1>1, InstitutionsInvariance, PTL

\* A row without bucket or schemas is being set up, or a failure or a deletion is on record.
THEOREM HalfMadeAreExplained == Spec => []HalfMadeExplained
<1>1. ASSUME NEW q \in Requests, NEW i, SettingUp(q, i) PROVE Working(q, i)
  BY <1>1 DEF SettingUp, SetUpSteps, Working
<1>2. InstInv => HalfMadeExplained
  BY <1>1 DEF InstInv, HalfMadeInWork, HalfMadeExplained
<1> QED
  BY <1>2, InstitutionsInvariance, PTL

\* A bucket without a row is being deleted, or a request on it failed, or a second creation
\* made it.
THEOREM BucketsAreTraced == Spec => []BucketsTraced
<1>1. ASSUME NEW i, BeingDeleted(i) PROVE \E q \in Requests : Working(q, i)
  BY <1>1 DEF BeingDeleted, Working
<1>2. InstInv => BucketsTraced
  BY <1>1 DEF InstInv, BucketsInWork, BucketsTraced
<1> QED
  BY <1>2, InstitutionsInvariance, PTL

\* The school-type rules of create_institution and update_inst leave every institution with
\* one type and schemas that fit it, unless two PATCHes worked on it at once.
THEOREM TypesFollowRules == Spec => []TypeFollowsRules
<1>1. InstInv => TypeFollowsRules
  BY DEF InstInv
<1> QED
  BY <1>1, InstitutionsInvariance, PTL
=============================================================================
