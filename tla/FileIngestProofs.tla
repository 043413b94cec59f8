-------------------------- MODULE FileIngestProofs --------------------------
(***************************************************************************)
(* Proofs about FileIngest, alone and next to the batch deletions of        *)
(* FileLifecycle, for any sets of files, requests and contents.             *)
(***************************************************************************)
EXTENDS FileLifecycle, TLAPS

\* The states and results a request passes through are members of their sets.
LEMMA Labels ==
  /\ "done" \in PCs /\ "url_asked" \in PCs /\ "started" \in PCs
  /\ "normalized" \in PCs /\ "cleared" \in PCs /\ "archived" \in PCs
  /\ "written" \in PCs /\ "stored" \in PCs
  /\ "recorded" \in PCs /\ "checked" \in PCs
  /\ "none" \in Results /\ "exists" \in Results
  /\ "already" \in Results /\ "inserted" \in Results
  BY DEF PCs, Holding, PastWrite, Results

\* A slot that takes a new request record keeps the request table typed.
LEMMA SlotType ==
  ASSUME TypeOK, NEW r \in Requests, NEW v \in RequestType,
         v.pc # "done" => v.file \in Files,
         v.pc \in Holding => v.upload \in GoodUploads,
         req' = [req EXCEPT ![r] = v]
  PROVE  /\ req' \in [Requests -> RequestType]
         /\ \A q \in Requests :
              /\ req'[q].pc # "done" => req'[q].file \in Files
              /\ req'[q].pc \in Holding => req'[q].upload \in GoodUploads
  BY DEF TypeOK

\* A request that only moves on keeps the request table typed.
LEMMA MoveType ==
  ASSUME TypeOK, NEW r \in Requests, NEW p \in PCs,
         req[r].pc # "done",
         p \in Holding => req[r].upload \in GoodUploads,
         req' = [req EXCEPT ![r].pc = p]
  PROVE  /\ req' \in [Requests -> RequestType]
         /\ \A q \in Requests :
              /\ req'[q].pc # "done" => req'[q].file \in Files
              /\ req'[q].pc \in Holding => req'[q].upload \in GoodUploads
<1> DEFINE v == [req[r] EXCEPT !.pc = p]
<1>1. v \in RequestType /\ v.pc = p /\ v.file = req[r].file /\ v.upload = req[r].upload
  BY DEF TypeOK, RequestType
<1>2. req' = [req EXCEPT ![r] = v]
  BY DEF TypeOK, RequestType
<1>3. req[r].file \in Files
  BY DEF TypeOK
<1> HIDE DEF v
<1> QED
  BY <1>1, <1>2, <1>3, SlotType

\* A request that fails keeps the request table and aborted typed.
LEMMA AbortType ==
  ASSUME TypeOK, NEW r \in Requests, req[r].pc # "done", Abort(r)
  PROVE  /\ req' \in [Requests -> RequestType]
         /\ \A q \in Requests :
              /\ req'[q].pc # "done" => req'[q].file \in Files
              /\ req'[q].pc \in Holding => req'[q].upload \in GoodUploads
         /\ aborted' \subseteq Files
<1>1. Idle \in RequestType /\ Idle.pc = "done" /\ Idle.pc \notin Holding
  BY Labels DEF RequestType, Idle, Holding
<1>2. aborted' \subseteq Files
  BY DEF Abort, TypeOK
<1> QED
  BY <1>1, <1>2, SlotType DEF Abort

\* A request that answers or frees its slot keeps the request table typed.
LEMMA DoneType ==
  ASSUME TypeOK, NEW r \in Requests, NEW v \in RequestType, v.pc = "done",
         req' = [req EXCEPT ![r] = v]
  PROVE  /\ req' \in [Requests -> RequestType]
         /\ \A q \in Requests :
              /\ req'[q].pc # "done" => req'[q].file \in Files
              /\ req'[q].pc \in Holding => req'[q].upload \in GoodUploads
  BY SlotType DEF Holding

\* A free slot is a request record.
LEMMA IdleType == Idle \in RequestType /\ Idle.pc = "done"
  BY Labels DEF RequestType, Idle

\* Every step keeps every variable in its type.
LEMMA TypeStep == ASSUME TypeOK, [Next]_vars PROVE TypeOK'
<1>1. ASSUME NEW r \in Requests, NEW f \in Files, AskUploadUrl(r, f) PROVE TypeOK'
  <2> DEFINE v == [Idle EXCEPT !.pc = "url_asked", !.file = f]
  <2>1. v \in RequestType /\ v.pc = "url_asked" /\ v.file = f
    BY Labels, IdleType DEF RequestType, Idle
  <2>2. req' = [req EXCEPT ![r] = v]
    BY <1>1 DEF AskUploadUrl
  <2> HIDE DEF v
  <2> QED
    BY <1>1, <2>1, <2>2, SlotType DEF AskUploadUrl, TypeOK, bucketVars, Holding
<1>2. ASSUME NEW r \in Requests, NEW f \in Files, NEW b \in BOOLEAN,
             StartValidation(r, f, b)
      PROVE  TypeOK'
  <2> DEFINE v == [Idle EXCEPT !.pc = "started", !.file = f,
                               !.known = HasRow(f), !.batch = b]
  <2>1. HasRow(f) \in BOOLEAN
    BY DEF HasRow
  <2>2. v \in RequestType /\ v.pc = "started" /\ v.file = f
    BY Labels, IdleType, <2>1 DEF RequestType, Idle
  <2>3. req' = [req EXCEPT ![r] = v]
    BY <1>2 DEF StartValidation
  <2> HIDE DEF v
  <2> QED
    BY <1>2, <2>2, <2>3, SlotType DEF StartValidation, TypeOK, bucketVars, Holding
<1>3. ASSUME NEW r \in Requests, GrantUploadUrl(r) PROVE TypeOK'
  <2>1. /\ req' = [req EXCEPT ![r] = Idle]
        /\ urls' \subseteq Files
        /\ UNCHANGED <<unvalidated, raw, validated, rows, syncs, uploaded, aborted>>
    BY <1>3 DEF GrantUploadUrl, TypeOK, bucketVars
  <2> QED
    BY <2>1, IdleType, DoneType DEF TypeOK
<1>4. ASSUME NEW r \in Requests, ValidateStaged(r) PROVE TypeOK'
  <2>1. CASE unvalidated[req[r].file] \in GoodUploads
    <3> DEFINE v == [req[r] EXCEPT !.pc = "normalized",
                                   !.upload = unvalidated[req[r].file]]
    <3>1. /\ v \in RequestType /\ v.pc = "normalized" /\ v.file = req[r].file
          /\ v.upload \in GoodUploads
      BY Labels, <2>1 DEF TypeOK, RequestType
    <3>2. req' = [req EXCEPT ![r] = v] /\ UNCHANGED aborted
      BY <1>4, <2>1 DEF ValidateStaged, TypeOK, RequestType
    <3>3. req[r].file \in Files
      BY <1>4 DEF ValidateStaged, TypeOK
    <3> HIDE DEF v
    <3> QED
      BY <1>4, <3>1, <3>2, <3>3, SlotType DEF ValidateStaged, TypeOK, bucketVars
  <2>2. CASE unvalidated[req[r].file] \notin GoodUploads
    BY <1>4, <2>2, AbortType DEF ValidateStaged, TypeOK, bucketVars
  <2> QED
    BY <2>1, <2>2
<1>5. ASSUME NEW r \in Requests, CheckNotValidated(r) PROVE TypeOK'
  <2>1. CASE validated[req[r].file] = None
    BY <1>5, <2>1, MoveType, Labels DEF CheckNotValidated, TypeOK, bucketVars, Holding
  <2>2. CASE validated[req[r].file] # None
    BY <1>5, <2>2, AbortType DEF CheckNotValidated, TypeOK, bucketVars
  <2> QED
    BY <2>1, <2>2
<1>6. ASSUME NEW r \in Requests, ArchiveRaw(r) PROVE TypeOK'
  <2>1. CASE unvalidated[req[r].file] # None
    <3>1. raw' \in BlobMap(Uploads)
      BY <1>6, <2>1 DEF ArchiveRaw, TypeOK, BlobMap
    <3>2. /\ req' = [req EXCEPT ![r].pc = "archived"]
          /\ req[r].pc # "done" /\ req[r].upload \in GoodUploads
      BY <1>6, <2>1 DEF ArchiveRaw, TypeOK, Holding
    <3> QED
      BY <1>6, <2>1, <3>1, <3>2, MoveType, Labels DEF ArchiveRaw, TypeOK
  <2>2. CASE unvalidated[req[r].file] = None
    BY <1>6, <2>2, AbortType DEF ArchiveRaw, TypeOK
  <2> QED
    BY <2>1, <2>2
<1>7. ASSUME NEW r \in Requests, WriteValidated(r) PROVE TypeOK'
  <2> DEFINE v == [req[r] EXCEPT !.pc = "written", !.upload = None]
  <2>1. v \in RequestType /\ v.pc = "written" /\ v.file = req[r].file
    BY Labels DEF TypeOK, RequestType
  <2>2. req' = [req EXCEPT ![r] = v]
    BY <1>7 DEF WriteValidated, TypeOK, RequestType
  <2>3. req[r].file \in Files /\ req[r].upload \in GoodUploads
    BY <1>7 DEF WriteValidated, TypeOK, Holding
  <2>4. validated' \in BlobMap(NormalizedUploads)
    BY <1>7, <2>3 DEF WriteValidated, TypeOK, BlobMap, NormalizedUploads
  <2> HIDE DEF v
  <2> QED
    BY <1>7, <2>1, <2>2, <2>3, <2>4, SlotType DEF WriteValidated, TypeOK, Holding
<1>8. ASSUME NEW r \in Requests, DeleteStaged(r) PROVE TypeOK'
  <2>1. CASE unvalidated[req[r].file] # None
    <3>1. unvalidated' \in BlobMap(Uploads)
      BY <1>8, <2>1 DEF DeleteStaged, TypeOK, BlobMap
    <3> QED
      BY <1>8, <2>1, <3>1, MoveType, Labels DEF DeleteStaged, TypeOK, Holding
  <2>2. CASE unvalidated[req[r].file] = None
    BY <1>8, <2>2, AbortType DEF DeleteStaged, TypeOK
  <2> QED
    BY <2>1, <2>2
<1>9. ASSUME NEW r \in Requests, FindRow(r) \/ InsertRow(r) PROVE TypeOK'
  <2>1. PICK x \in Results, i \in RowIds \cup {None} :
          req' = [req EXCEPT ![r].pc = "recorded", ![r].result = x, ![r].row = i]
    <3>1. CASE FindRow(r) \/ (InsertRow(r) /\ HasRow(req[r].file))
      <4>1. PICK x \in Results :
              req' = [req EXCEPT ![r].pc = "recorded", ![r].result = x]
        BY <3>1, Labels DEF FindRow, InsertRow
      <4>2. req' = [req EXCEPT ![r].pc = "recorded", ![r].result = x,
                               ![r].row = req[r].row]
        BY <4>1 DEF TypeOK, RequestType
      <4>3. req[r].row \in RowIds \cup {None}
        BY DEF TypeOK, RequestType
      <4> QED
        BY <4>2, <4>3
    <3>2. CASE InsertRow(r) /\ ~HasRow(req[r].file)
      BY <3>2, Labels DEF InsertRow, FreshIds
    <3> QED
      BY <1>9, <3>1, <3>2
  <2> DEFINE v == [req[r] EXCEPT !.pc = "recorded", !.result = x, !.row = i]
  <2>2. v \in RequestType /\ v.pc = "recorded" /\ v.file = req[r].file
    BY Labels DEF TypeOK, RequestType
  <2>3. req' = [req EXCEPT ![r] = v]
    BY <2>1 DEF TypeOK, RequestType
  <2>4. req[r].file \in Files
    BY <1>9 DEF FindRow, InsertRow, TypeOK
  <2> HIDE DEF v
  <2> QED
    BY <1>9, <2>2, <2>3, <2>4, SlotType DEF FindRow, InsertRow, TypeOK, bucketVars,
       Holding
<1>10. ASSUME NEW r \in Requests, CheckBatch(r) PROVE TypeOK'
  <2>1. CASE req' = [req EXCEPT ![r].pc = "checked"] /\ UNCHANGED aborted
    BY <1>10, <2>1, MoveType, Labels DEF CheckBatch, TypeOK, bucketVars, Holding
  <2>2. CASE Abort(r)
    BY <1>10, <2>2, AbortType DEF CheckBatch, TypeOK, bucketVars
  <2> QED
    BY <1>10, <2>1, <2>2 DEF CheckBatch
<1>11. ASSUME NEW r \in Requests, TriggerSync(r) PROVE TypeOK'
  <2> DEFINE v == [req[r] EXCEPT !.batch = FALSE]
  <2>1. v \in RequestType /\ v.pc = req[r].pc /\ v.file = req[r].file
    BY DEF TypeOK, RequestType
  <2>2. req' = [req EXCEPT ![r] = v]
    BY <1>11 DEF TriggerSync, TypeOK, RequestType
  <2>3. req[r].file \in Files /\ req[r].pc \notin Holding
    BY <1>11 DEF TriggerSync, TypeOK, Holding
  <2>4. syncs' \subseteq Files
    BY <1>11, <2>3 DEF TriggerSync, TypeOK
  <2> HIDE DEF v
  <2> QED
    BY <1>11, <2>1, <2>2, <2>3, <2>4, SlotType DEF TriggerSync, TypeOK, bucketVars
<1>12. ASSUME NEW r \in Requests, Commit(r) PROVE TypeOK'
  <2> DEFINE v == [Idle EXCEPT !.file = req[r].file, !.result = req[r].result]
  <2>1. v \in RequestType /\ v.pc = "done"
    BY Labels, IdleType DEF TypeOK, RequestType, Idle
  <2>2. req' = [req EXCEPT ![r] = v]
    BY <1>12 DEF Commit, Answer
  <2>3. rows' \subseteq [name: Files, id: RowIds]
    BY <1>12 DEF Commit, Inserting, TypeOK, RequestType
  <2> HIDE DEF v
  <2> QED
    BY <1>12, <2>1, <2>2, <2>3, DoneType DEF Commit, TypeOK, bucketVars
<1>13. ASSUME NEW r \in Requests, Fail(r) PROVE TypeOK'
  BY <1>13, AbortType DEF Fail, TypeOK, bucketVars
<1>14. ASSUME NEW f \in Files, NEW c \in Uploads, Put(f, c) PROVE TypeOK'
  BY <1>14 DEF Put, TypeOK, BlobMap
<1>15. ASSUME NEW f \in Files, ExpireUrl(f) \/ ExpireStaged(f) PROVE TypeOK'
  BY <1>15 DEF ExpireUrl, ExpireStaged, TypeOK, BlobMap, bucketVars
<1>16. CASE UNCHANGED vars
  BY <1>16 DEF vars, TypeOK
<1> QED
  BY <1>1, <1>2, <1>3, <1>4, <1>5, <1>6, <1>7, <1>8, <1>9, <1>10, <1>11,
     <1>12, <1>13, <1>14, <1>15, <1>16 DEF Next, Advance, RecordRow

-----------------------------------------------------------------------------

\* A step of one request leaves the other slots alone.
LEMMA SetSlot ==
  ASSUME TypeOK, NEW r \in Requests, NEW v, req' = [req EXCEPT ![r] = v]
  PROVE  req'[r] = v /\ \A q \in Requests : q # r => req'[q] = req[q]
  BY DEF TypeOK

\* A request that only moves on changes neither its data nor another slot.
LEMMA MoveSlot ==
  ASSUME TypeOK, NEW r \in Requests, NEW p, req' = [req EXCEPT ![r].pc = p]
  PROVE  /\ req'[r].pc = p /\ req'[r].file = req[r].file
         /\ req'[r].upload = req[r].upload /\ req'[r].known = req[r].known
         /\ req'[r].batch = req[r].batch /\ req'[r].row = req[r].row
         /\ req'[r].result = req[r].result
         /\ \A q \in Requests : q # r => req'[q] = req[q]
  BY DEF TypeOK, RequestType

\* What a commit does: the file of the request has a row afterwards, be it
\* the request's own.
LEMMA CommitEffect ==
  ASSUME TypeOK, RowInv, NEW r \in Requests, Commit(r)
  PROVE  /\ req'[r].pc = "done" /\ req'[r].file = req[r].file
         /\ req'[r].result = req[r].result /\ req'[r].row = None /\ ~req'[r].known
         /\ \A q \in Requests : q # r => req'[q] = req[q]
         /\ HasRow(req[r].file)'
         /\ \A g \in Files : HasRow(g) => HasRow(g)'
         /\ \A x \in rows' :
              x \in rows \/ (Inserting(r) /\ x = [name |-> req[r].file, id |-> req[r].row])
<1>1. \A g \in Files : HasRow(g) => HasRow(g)'
  BY DEF Commit, HasRow
<1>2. HasRow(req[r].file) \/ Inserting(r)
  BY DEF Commit, RowInv
<1>3. CASE Inserting(r)
  <2> DEFINE x == [name |-> req[r].file, id |-> req[r].row]
  <2>1. x \in rows' /\ x.name = req[r].file
    BY <1>3 DEF Commit
  <2> QED
    BY <2>1 DEF Commit, Answer, HasRow, TypeOK, Idle, RequestType
<1>4. CASE ~Inserting(r)
  BY <1>1, <1>2, <1>4 DEF Commit, Answer, TypeOK, Idle, RequestType
<1> QED
  BY <1>3, <1>4, <1>1

\* What a row insertion does.
LEMMA InsertEffect ==
  ASSUME TypeOK, NEW r \in Requests, InsertRow(r)
  PROVE  /\ req[r].pc = "stored"
         /\ req'[r].pc = "recorded" /\ req'[r].file = req[r].file
         /\ req'[r].known = req[r].known
         /\ \A q \in Requests : q # r => req'[q] = req[q]
         /\ UNCHANGED <<unvalidated, raw, validated, urls, rows, syncs, uploaded, aborted>>
         /\ \/ /\ ~HasRow(req[r].file) /\ req'[r].row # None /\ req'[r].result = "inserted"
               /\ \A q \in Requests : Inserting(q) => req[q].file # req[r].file
            \/ HasRow(req[r].file) /\ req'[r].row = req[r].row /\ req'[r].result = "already"
  BY IngestAssumption DEF InsertRow, NameLocked, FreshIds, bucketVars, TypeOK,
     RequestType

\* No step breaks the tie between rows, validated/, raw/ and the requests that
\* have passed their copy to raw/ or their write to validated/.
LEMMA BucketStep ==
  ASSUME TypeOK, TypeOK', RowInv, BucketInv, [Next]_vars PROVE BucketInv'
<1>1. ASSUME NEW r \in Requests, NEW f \in Files, AskUploadUrl(r, f) PROVE BucketInv'
  BY <1>1 DEF AskUploadUrl, Idle, BucketInv, HasRow, TypeOK, PastWrite, bucketVars
<1>2. ASSUME NEW r \in Requests, NEW f \in Files, NEW b \in BOOLEAN, StartValidation(r, f, b)
      PROVE  BucketInv'
  BY <1>2 DEF StartValidation, Idle, BucketInv, HasRow, TypeOK, PastWrite, bucketVars
<1>3. ASSUME NEW r \in Requests, GrantUploadUrl(r) PROVE BucketInv'
  BY <1>3 DEF GrantUploadUrl, Idle, BucketInv, HasRow, TypeOK, PastWrite, bucketVars
<1>4. ASSUME NEW r \in Requests, ValidateStaged(r) PROVE BucketInv'
  BY <1>4 DEF ValidateStaged, Abort, Idle, BucketInv, HasRow, TypeOK, PastWrite,
     Holding, RequestType, bucketVars
<1>5. ASSUME NEW r \in Requests, CheckNotValidated(r) PROVE BucketInv'
  BY <1>5 DEF CheckNotValidated, Abort, Idle, BucketInv, HasRow, TypeOK, PastWrite,
     Holding, RequestType, bucketVars
<1>6. ASSUME NEW r \in Requests, ArchiveRaw(r) PROVE BucketInv'
  BY <1>6 DEF ArchiveRaw, Abort, Idle, BucketInv, HasRow, TypeOK, PastWrite,
     Holding, BlobMap, RequestType, bucketVars
<1>7. ASSUME NEW r \in Requests, WriteValidated(r) PROVE BucketInv'
  BY <1>7, IngestAssumption DEF WriteValidated, NormalizedUploads, BucketInv,
     HasRow, TypeOK, PastWrite, Holding, BlobMap, RequestType, bucketVars
<1>8. ASSUME NEW r \in Requests, DeleteStaged(r) PROVE BucketInv'
  BY <1>8 DEF DeleteStaged, Abort, Idle, BucketInv, HasRow, TypeOK, PastWrite,
     Holding, RequestType, bucketVars
<1>9. ASSUME NEW r \in Requests, FindRow(r) PROVE BucketInv'
  BY <1>9 DEF FindRow, BucketInv, HasRow, TypeOK, PastWrite, bucketVars
<1>10. ASSUME NEW r \in Requests, InsertRow(r) PROVE BucketInv'
  BY <1>10 DEF InsertRow, NameLocked, FreshIds, BucketInv, HasRow, TypeOK,
     PastWrite, Holding, RequestType, bucketVars
<1>11. ASSUME NEW r \in Requests, CheckBatch(r) PROVE BucketInv'
  BY <1>11 DEF CheckBatch, Abort, Idle, BucketInv, HasRow, TypeOK, PastWrite,
     Holding, RequestType, bucketVars
<1>12. ASSUME NEW r \in Requests, TriggerSync(r) PROVE BucketInv'
  BY <1>12 DEF TriggerSync, BucketInv, HasRow, TypeOK, bucketVars
<1>13. ASSUME NEW r \in Requests, Commit(r) PROVE BucketInv'
  BY <1>13 DEF Commit, Answer, Idle, BucketInv, HasRow, TypeOK, PastWrite, bucketVars
<1>14. ASSUME NEW r \in Requests, Fail(r) PROVE BucketInv'
  BY <1>14 DEF Fail, Abort, Idle, BucketInv, HasRow, TypeOK, PastWrite, bucketVars
<1>15. ASSUME NEW f \in Files, NEW c \in Uploads, Put(f, c) PROVE BucketInv'
  BY <1>15 DEF Put, BucketInv, HasRow, TypeOK
<1>16. ASSUME NEW f \in Files, ExpireUrl(f) PROVE BucketInv'
  BY <1>16 DEF ExpireUrl, BucketInv, HasRow, TypeOK, bucketVars
<1>17. ASSUME NEW f \in Files, ExpireStaged(f) PROVE BucketInv'
  BY <1>17 DEF ExpireStaged, BucketInv, HasRow, TypeOK
<1>18. CASE UNCHANGED vars
  BY <1>18 DEF vars, BucketInv, HasRow, TypeOK
<1> QED
  BY <1>1, <1>2, <1>3, <1>4, <1>5, <1>6, <1>7, <1>8, <1>9, <1>10, <1>11, <1>12,
     <1>13, <1>14, <1>15, <1>16, <1>17, <1>18 DEF Next, Advance, RecordRow

\* No step stores a content that was not uploaded under its name.
LEMMA ProvenanceStep ==
  ASSUME TypeOK, TypeOK', ProvenanceInv, [Next]_vars PROVE ProvenanceInv'
<1>1. ASSUME NEW r \in Requests, NEW f \in Files, AskUploadUrl(r, f)
      PROVE  ProvenanceInv'
  BY <1>1 DEF AskUploadUrl, Idle, ProvenanceInv, TypeOK, PastWrite, Holding,
     bucketVars
<1>2. ASSUME NEW r \in Requests, NEW f \in Files, NEW b \in BOOLEAN, StartValidation(r, f, b)
      PROVE  ProvenanceInv'
  BY <1>2 DEF StartValidation, Idle, ProvenanceInv, TypeOK, PastWrite, Holding,
     bucketVars
<1>3. ASSUME NEW r \in Requests, GrantUploadUrl(r) PROVE ProvenanceInv'
  BY <1>3 DEF GrantUploadUrl, Idle, ProvenanceInv, TypeOK, PastWrite, Holding,
     bucketVars
<1>4. ASSUME NEW r \in Requests, ValidateStaged(r) PROVE ProvenanceInv'
  BY <1>4, IngestAssumption DEF ValidateStaged, Abort, Idle, ProvenanceInv, TypeOK,
     PastWrite, Holding, BlobMap, RequestType, bucketVars
<1>5. ASSUME NEW r \in Requests, CheckNotValidated(r) PROVE ProvenanceInv'
  BY <1>5 DEF CheckNotValidated, Abort, Idle, ProvenanceInv, TypeOK, PastWrite,
     Holding, RequestType, bucketVars
<1>6. ASSUME NEW r \in Requests, ArchiveRaw(r) PROVE ProvenanceInv'
  BY <1>6 DEF ArchiveRaw, Abort, Idle, ProvenanceInv, TypeOK, PastWrite, Holding,
     BlobMap, RequestType, bucketVars
<1>7. ASSUME NEW r \in Requests, WriteValidated(r) PROVE ProvenanceInv'
  BY <1>7 DEF WriteValidated, NormalizedUploads, ProvenanceInv, TypeOK, PastWrite,
     Holding, bucketVars
<1>8. ASSUME NEW r \in Requests, DeleteStaged(r) PROVE ProvenanceInv'
  BY <1>8 DEF DeleteStaged, Abort, Idle, ProvenanceInv, TypeOK, PastWrite, Holding,
     BlobMap, RequestType, bucketVars
<1>9. ASSUME NEW r \in Requests, FindRow(r) PROVE ProvenanceInv'
  BY <1>9 DEF FindRow, ProvenanceInv, TypeOK, PastWrite, Holding, bucketVars
<1>10. ASSUME NEW r \in Requests, InsertRow(r) PROVE ProvenanceInv'
  BY <1>10 DEF InsertRow, NameLocked, FreshIds, ProvenanceInv, TypeOK, PastWrite,
     Holding, RequestType, bucketVars
<1>11. ASSUME NEW r \in Requests, CheckBatch(r) PROVE ProvenanceInv'
  BY <1>11 DEF CheckBatch, Abort, Idle, ProvenanceInv, TypeOK, PastWrite, Holding,
     RequestType, bucketVars
<1>12. ASSUME NEW r \in Requests, TriggerSync(r) PROVE ProvenanceInv'
  BY <1>12 DEF TriggerSync, ProvenanceInv, TypeOK, bucketVars
<1>13. ASSUME NEW r \in Requests, Commit(r) PROVE ProvenanceInv'
  BY <1>13 DEF Commit, Answer, Idle, ProvenanceInv, TypeOK, PastWrite, Holding,
     bucketVars
<1>14. ASSUME NEW r \in Requests, Fail(r) PROVE ProvenanceInv'
  BY <1>14 DEF Fail, Abort, Idle, ProvenanceInv, TypeOK, PastWrite, Holding,
     bucketVars
<1>15. ASSUME NEW f \in Files, NEW c \in Uploads, Put(f, c) PROVE ProvenanceInv'
  BY <1>15 DEF Put, ProvenanceInv, TypeOK
<1>16. ASSUME NEW f \in Files, ExpireUrl(f) PROVE ProvenanceInv'
  BY <1>16 DEF ExpireUrl, ProvenanceInv, TypeOK, bucketVars
<1>17. ASSUME NEW f \in Files, ExpireStaged(f) PROVE ProvenanceInv'
  BY <1>17 DEF ExpireStaged, ProvenanceInv, TypeOK
<1>18. CASE UNCHANGED vars
  BY <1>18 DEF vars, ProvenanceInv, TypeOK
<1> QED
  BY <1>1, <1>2, <1>3, <1>4, <1>5, <1>6, <1>7, <1>8, <1>9, <1>10, <1>11, <1>12,
     <1>13, <1>14, <1>15, <1>16, <1>17, <1>18 DEF Next, Advance, RecordRow

\* No step makes a request report a row that is neither committed nor its own.
LEMMA RowStep ==
  ASSUME TypeOK, TypeOK', RowInv, [Next]_vars PROVE RowInv'
<1>1. ASSUME NEW r \in Requests, NEW f \in Files, AskUploadUrl(r, f) PROVE RowInv'
  BY <1>1 DEF AskUploadUrl, Idle, RowInv, HasRow, Inserting, TypeOK
<1>2. ASSUME NEW r \in Requests, NEW f \in Files, NEW b \in BOOLEAN, StartValidation(r, f, b)
      PROVE  RowInv'
  BY <1>2 DEF StartValidation, Idle, RowInv, HasRow, Inserting, TypeOK
<1>3. ASSUME NEW r \in Requests, GrantUploadUrl(r) PROVE RowInv'
  BY <1>3 DEF GrantUploadUrl, Idle, RowInv, HasRow, Inserting, TypeOK
<1>4. ASSUME NEW r \in Requests, ValidateStaged(r) PROVE RowInv'
  BY <1>4 DEF ValidateStaged, Abort, Idle, RowInv, HasRow, Inserting, TypeOK,
     PastWrite, Holding, RequestType, bucketVars
<1>5. ASSUME NEW r \in Requests, CheckNotValidated(r) PROVE RowInv'
  BY <1>5 DEF CheckNotValidated, Abort, Idle, RowInv, HasRow, Inserting, TypeOK,
     PastWrite, Holding, RequestType, bucketVars
<1>6. ASSUME NEW r \in Requests, ArchiveRaw(r) PROVE RowInv'
  BY <1>6 DEF ArchiveRaw, Abort, Idle, RowInv, HasRow, Inserting, TypeOK, PastWrite,
     Holding, RequestType, bucketVars
<1>7. ASSUME NEW r \in Requests, WriteValidated(r) PROVE RowInv'
  BY <1>7 DEF WriteValidated, NormalizedUploads, RowInv, HasRow, Inserting, TypeOK
<1>8. ASSUME NEW r \in Requests, DeleteStaged(r) PROVE RowInv'
  BY <1>8 DEF DeleteStaged, Abort, Idle, RowInv, HasRow, Inserting, TypeOK,
     PastWrite, Holding, RequestType, bucketVars
<1>9. ASSUME NEW r \in Requests, FindRow(r) PROVE RowInv'
  BY <1>9 DEF FindRow, RowInv, HasRow, Inserting, TypeOK
<1>10. ASSUME NEW r \in Requests, InsertRow(r) PROVE RowInv'
  BY <1>10 DEF InsertRow, NameLocked, FreshIds, RowInv, HasRow, Inserting, TypeOK,
     PastWrite, Holding, RequestType, bucketVars
<1>11. ASSUME NEW r \in Requests, CheckBatch(r) PROVE RowInv'
  BY <1>11 DEF CheckBatch, Abort, Idle, RowInv, HasRow, Inserting, TypeOK,
     PastWrite, Holding, RequestType, bucketVars
<1>12. ASSUME NEW r \in Requests, TriggerSync(r) PROVE RowInv'
  BY <1>12 DEF TriggerSync, RowInv, HasRow, Inserting, TypeOK
<1>13. ASSUME NEW r \in Requests, Commit(r) PROVE RowInv'
  <2>1. \A q \in Requests : req'[q].known => req[q].known /\ q # r
    BY <1>13, CommitEffect
  <2>2. \A q \in Requests : HasRow(req[q].file) => HasRow(req[q].file)'
    BY <1>13, CommitEffect DEF Commit, HasRow
  <2> QED
    BY <1>13, <2>1, <2>2, CommitEffect DEF RowInv, Inserting
<1>14. ASSUME NEW r \in Requests, Fail(r) PROVE RowInv'
  BY <1>14 DEF Fail, Abort, Idle, RowInv, HasRow, Inserting, TypeOK
<1>15. ASSUME NEW f \in Files, NEW c \in Uploads, Put(f, c) PROVE RowInv'
  BY <1>15 DEF Put, RowInv, HasRow, Inserting, TypeOK
<1>16. ASSUME NEW f \in Files, ExpireUrl(f) PROVE RowInv'
  BY <1>16 DEF ExpireUrl, RowInv, HasRow, Inserting, TypeOK
<1>17. ASSUME NEW f \in Files, ExpireStaged(f) PROVE RowInv'
  BY <1>17 DEF ExpireStaged, RowInv, HasRow, Inserting, TypeOK
<1>18. CASE UNCHANGED vars
  BY <1>18 DEF vars, RowInv, HasRow, Inserting, TypeOK
<1> QED
  BY <1>1, <1>2, <1>3, <1>4, <1>5, <1>6, <1>7, <1>8, <1>9, <1>10, <1>11, <1>12,
     <1>13, <1>14, <1>15, <1>16, <1>17, <1>18 DEF Next, Advance, RecordRow

\* No step gives a name a second row: an insert is made only while no other
\* transaction holds the name and no committed row has it.
LEMMA UniqueStep ==
  ASSUME TypeOK, TypeOK', UniqueRow, [Next]_vars,
         \A r \in Requests : Inserting(r) => req[r].pc \in {"recorded", "checked"}
  PROVE  UniqueRow'
<1>1. ASSUME NEW r \in Requests, NEW f \in Files, AskUploadUrl(r, f) PROVE UniqueRow'
  BY <1>1 DEF AskUploadUrl, Idle, UniqueRow, HasRow, Inserting, TypeOK
<1>2. ASSUME NEW r \in Requests, NEW f \in Files, NEW b \in BOOLEAN, StartValidation(r, f, b)
      PROVE  UniqueRow'
  BY <1>2 DEF StartValidation, Idle, UniqueRow, HasRow, Inserting, TypeOK
<1>3. ASSUME NEW r \in Requests, GrantUploadUrl(r) PROVE UniqueRow'
  BY <1>3 DEF GrantUploadUrl, Idle, UniqueRow, HasRow, Inserting, TypeOK
<1>4. ASSUME NEW r \in Requests, ValidateStaged(r) PROVE UniqueRow'
  <2>1. \A q \in Requests : Inserting(q)' => Inserting(q) /\ req'[q].file = req[q].file
    BY <1>4 DEF ValidateStaged, Abort, Idle, Inserting, TypeOK, RequestType
  <2> QED
    BY <1>4, <2>1 DEF ValidateStaged, UniqueRow, HasRow
<1>5. ASSUME NEW r \in Requests, CheckNotValidated(r) PROVE UniqueRow'
  BY <1>5 DEF CheckNotValidated, Abort, Idle, UniqueRow, HasRow, Inserting, TypeOK,
     PastWrite, Holding, RequestType, bucketVars
<1>6. ASSUME NEW r \in Requests, ArchiveRaw(r) PROVE UniqueRow'
  BY <1>6 DEF ArchiveRaw, Abort, Idle, UniqueRow, HasRow, Inserting, TypeOK,
     PastWrite, Holding, RequestType, bucketVars
<1>7. ASSUME NEW r \in Requests, WriteValidated(r) PROVE UniqueRow'
  BY <1>7 DEF WriteValidated, NormalizedUploads, UniqueRow, HasRow, Inserting, TypeOK
<1>8. ASSUME NEW r \in Requests, DeleteStaged(r) PROVE UniqueRow'
  BY <1>8, IngestAssumption DEF DeleteStaged, Abort, Idle, UniqueRow, HasRow,
     Inserting, TypeOK, PastWrite, Holding, BlobMap, RequestType, bucketVars
<1>9. ASSUME NEW r \in Requests, FindRow(r) PROVE UniqueRow'
  BY <1>9 DEF FindRow, UniqueRow, HasRow, Inserting, TypeOK
<1>10. ASSUME NEW r \in Requests, InsertRow(r) PROVE UniqueRow'
  BY <1>10, InsertEffect DEF UniqueRow, HasRow, Inserting
<1>11. ASSUME NEW r \in Requests, CheckBatch(r) PROVE UniqueRow'
  BY <1>11 DEF CheckBatch, Abort, Idle, UniqueRow, HasRow, Inserting, TypeOK,
     PastWrite, Holding, RequestType, bucketVars
<1>12. ASSUME NEW r \in Requests, TriggerSync(r) PROVE UniqueRow'
  BY <1>12 DEF TriggerSync, UniqueRow, HasRow, Inserting, TypeOK
<1>13. ASSUME NEW r \in Requests, Commit(r) PROVE UniqueRow'
  BY <1>13 DEF Commit, Answer, Idle, UniqueRow, HasRow, Inserting, TypeOK
<1>14. ASSUME NEW r \in Requests, Fail(r) PROVE UniqueRow'
  BY <1>14 DEF Fail, Abort, Idle, UniqueRow, HasRow, Inserting, TypeOK
<1>15. ASSUME NEW f \in Files, NEW c \in Uploads, Put(f, c) PROVE UniqueRow'
  BY <1>15 DEF Put, UniqueRow, HasRow, Inserting, TypeOK
<1>16. ASSUME NEW f \in Files, ExpireUrl(f) PROVE UniqueRow'
  BY <1>16 DEF ExpireUrl, UniqueRow, HasRow, Inserting, TypeOK
<1>17. ASSUME NEW f \in Files, ExpireStaged(f) PROVE UniqueRow'
  BY <1>17 DEF ExpireStaged, UniqueRow, HasRow, Inserting, TypeOK
<1>18. CASE UNCHANGED vars
  BY <1>18 DEF vars, UniqueRow, HasRow, Inserting, TypeOK
<1> QED
  BY <1>1, <1>2, <1>3, <1>4, <1>5, <1>6, <1>7, <1>8, <1>9, <1>10, <1>11, <1>12,
     <1>13, <1>14, <1>15, <1>16, <1>17, <1>18 DEF Next, Advance, RecordRow

\* No step leaves a validated blob to nobody without a failed request.
LEMMA CustodyStep ==
  ASSUME TypeOK, TypeOK', RowInv, CustodyInv, [Next]_vars PROVE CustodyInv'
<1>1. ASSUME NEW r \in Requests, NEW f \in Files, AskUploadUrl(r, f) PROVE CustodyInv'
  BY <1>1 DEF AskUploadUrl, Idle, CustodyInv, HasRow, TypeOK, PastWrite, bucketVars
<1>2. ASSUME NEW r \in Requests, NEW f \in Files, NEW b \in BOOLEAN, StartValidation(r, f, b)
      PROVE  CustodyInv'
  BY <1>2 DEF StartValidation, Idle, CustodyInv, HasRow, TypeOK, PastWrite, bucketVars
<1>3. ASSUME NEW r \in Requests, GrantUploadUrl(r) PROVE CustodyInv'
  BY <1>3 DEF GrantUploadUrl, Idle, CustodyInv, HasRow, TypeOK, PastWrite, bucketVars
<1>4. ASSUME NEW r \in Requests, ValidateStaged(r) PROVE CustodyInv'
  <2>1. \A q \in Requests : req[q].pc \in PastWrite => req'[q] = req[q]
    BY <1>4 DEF ValidateStaged, Abort, TypeOK, PastWrite
  <2>2. UNCHANGED <<validated, rows>> /\ aborted \subseteq aborted'
    BY <1>4 DEF ValidateStaged, Abort, bucketVars
  <2> QED
    BY <2>1, <2>2 DEF CustodyInv, HasRow
<1>5. ASSUME NEW r \in Requests, CheckNotValidated(r) PROVE CustodyInv'
  BY <1>5 DEF CheckNotValidated, Abort, Idle, CustodyInv, HasRow, TypeOK, bucketVars
<1>6. ASSUME NEW r \in Requests, ArchiveRaw(r) PROVE CustodyInv'
  BY <1>6 DEF ArchiveRaw, Abort, Idle, CustodyInv, HasRow, TypeOK, PastWrite,
     bucketVars
<1>7. ASSUME NEW r \in Requests, WriteValidated(r) PROVE CustodyInv'
  BY <1>7 DEF WriteValidated, NormalizedUploads, CustodyInv, HasRow, TypeOK,
     PastWrite, bucketVars
<1>8. ASSUME NEW r \in Requests, DeleteStaged(r) PROVE CustodyInv'
  <2>1. \A q \in Requests : req[q].pc \in PastWrite /\ q # r => req'[q] = req[q]
    BY <1>8 DEF DeleteStaged, Abort, TypeOK
  <2>2. UNCHANGED <<validated, rows>> /\ aborted \subseteq aborted'
    BY <1>8 DEF DeleteStaged, Abort
  <2>3. \/ req'[r].pc \in PastWrite /\ req'[r].file = req[r].file
        \/ req[r].file \in aborted'
    BY <1>8, MoveSlot DEF DeleteStaged, Abort, PastWrite
  <2> QED
    BY <2>1, <2>2, <2>3 DEF CustodyInv, HasRow
<1>9. ASSUME NEW r \in Requests, FindRow(r) PROVE CustodyInv'
  BY <1>9 DEF FindRow, CustodyInv, HasRow, TypeOK, PastWrite, bucketVars
<1>10. ASSUME NEW r \in Requests, InsertRow(r) PROVE CustodyInv'
  BY <1>10, InsertEffect DEF CustodyInv, HasRow, PastWrite
<1>11. ASSUME NEW r \in Requests, CheckBatch(r) PROVE CustodyInv'
  BY <1>11 DEF CheckBatch, Abort, Idle, CustodyInv, HasRow, TypeOK, PastWrite,
     Holding, RequestType, bucketVars
<1>12. ASSUME NEW r \in Requests, TriggerSync(r) PROVE CustodyInv'
  BY <1>12 DEF TriggerSync, CustodyInv, HasRow, TypeOK, bucketVars
<1>13. ASSUME NEW r \in Requests, Commit(r) PROVE CustodyInv'
  <2>1. UNCHANGED <<validated, aborted>>
    BY <1>13 DEF Commit, bucketVars
  <2> QED
    BY <1>13, <2>1, CommitEffect DEF CustodyInv
<1>14. ASSUME NEW r \in Requests, Fail(r) PROVE CustodyInv'
  BY <1>14 DEF Fail, Abort, Idle, CustodyInv, HasRow, TypeOK, bucketVars
<1>15. ASSUME NEW f \in Files, NEW c \in Uploads, Put(f, c) PROVE CustodyInv'
  BY <1>15 DEF Put, CustodyInv, HasRow, TypeOK
<1>16. ASSUME NEW f \in Files, ExpireUrl(f) PROVE CustodyInv'
  BY <1>16 DEF ExpireUrl, CustodyInv, HasRow, TypeOK, bucketVars
<1>17. ASSUME NEW f \in Files, ExpireStaged(f) PROVE CustodyInv'
  BY <1>17 DEF ExpireStaged, CustodyInv, HasRow, TypeOK
<1>18. CASE UNCHANGED vars
  BY <1>18 DEF vars, CustodyInv, HasRow, TypeOK
<1> QED
  BY <1>1, <1>2, <1>3, <1>4, <1>5, <1>6, <1>7, <1>8, <1>9, <1>10, <1>11, <1>12,
     <1>13, <1>14, <1>15, <1>16, <1>17, <1>18 DEF Next, Advance, RecordRow

\* No step leaves a synced file without its validated blob or its row.
LEMMA SyncStep ==
  ASSUME TypeOK, TypeOK', RowInv, BucketInv, SyncBacked, [Next]_vars PROVE SyncBacked'
<1>1. ASSUME NEW r \in Requests, NEW f \in Files, AskUploadUrl(r, f) PROVE SyncBacked'
  BY <1>1 DEF AskUploadUrl, Idle, SyncBacked, HasRow, TypeOK, bucketVars
<1>2. ASSUME NEW r \in Requests, NEW f \in Files, NEW b \in BOOLEAN, StartValidation(r, f, b)
      PROVE  SyncBacked'
  BY <1>2 DEF StartValidation, Idle, SyncBacked, HasRow, TypeOK, bucketVars
<1>3. ASSUME NEW r \in Requests, GrantUploadUrl(r) PROVE SyncBacked'
  BY <1>3 DEF GrantUploadUrl, Idle, SyncBacked, HasRow, TypeOK, bucketVars
<1>4. ASSUME NEW r \in Requests, ValidateStaged(r) PROVE SyncBacked'
  BY <1>4 DEF ValidateStaged, Abort, Idle, SyncBacked, HasRow, TypeOK, bucketVars
<1>5. ASSUME NEW r \in Requests, CheckNotValidated(r) PROVE SyncBacked'
  BY <1>5 DEF CheckNotValidated, Abort, Idle, SyncBacked, HasRow, TypeOK, bucketVars
<1>6. ASSUME NEW r \in Requests, ArchiveRaw(r) PROVE SyncBacked'
  BY <1>6 DEF ArchiveRaw, Abort, Idle, SyncBacked, HasRow, TypeOK
<1>7. ASSUME NEW r \in Requests, WriteValidated(r) PROVE SyncBacked'
  BY <1>7, IngestAssumption DEF WriteValidated, NormalizedUploads, SyncBacked,
     HasRow, TypeOK, PastWrite, Holding, bucketVars
<1>8. ASSUME NEW r \in Requests, DeleteStaged(r) PROVE SyncBacked'
  BY <1>8 DEF DeleteStaged, Abort, Idle, SyncBacked, HasRow, TypeOK
<1>9. ASSUME NEW r \in Requests, FindRow(r) PROVE SyncBacked'
  BY <1>9 DEF FindRow, SyncBacked, HasRow, TypeOK, bucketVars
<1>10. ASSUME NEW r \in Requests, InsertRow(r) PROVE SyncBacked'
  BY <1>10, InsertEffect DEF SyncBacked, HasRow
<1>11. ASSUME NEW r \in Requests, CheckBatch(r) PROVE SyncBacked'
  BY <1>11 DEF CheckBatch, Abort, Idle, SyncBacked, HasRow, TypeOK, bucketVars
<1>12. ASSUME NEW r \in Requests, TriggerSync(r) PROVE SyncBacked'
  BY <1>12, IngestAssumption DEF TriggerSync, SyncBacked, BucketInv, RowInv, HasRow,
     TypeOK, PastWrite, Holding, BlobMap, RequestType, bucketVars
<1>13. ASSUME NEW r \in Requests, Commit(r) PROVE SyncBacked'
  <2>1. UNCHANGED <<validated, syncs, aborted>>
    BY <1>13 DEF Commit, bucketVars
  <2>2. syncs \subseteq Files
    BY DEF TypeOK
  <2> QED
    BY <1>13, <2>1, <2>2, CommitEffect DEF SyncBacked
<1>14. ASSUME NEW r \in Requests, Fail(r) PROVE SyncBacked'
  BY <1>14 DEF Fail, Abort, Idle, SyncBacked, HasRow, TypeOK, PastWrite, bucketVars
<1>15. ASSUME NEW f \in Files, NEW c \in Uploads, Put(f, c) PROVE SyncBacked'
  BY <1>15 DEF Put, SyncBacked, HasRow, TypeOK
<1>16. ASSUME NEW f \in Files, ExpireUrl(f) PROVE SyncBacked'
  BY <1>16 DEF ExpireUrl, SyncBacked, HasRow, TypeOK, bucketVars
<1>17. ASSUME NEW f \in Files, ExpireStaged(f) PROVE SyncBacked'
  BY <1>17 DEF ExpireStaged, SyncBacked, HasRow, TypeOK
<1>18. CASE UNCHANGED vars
  BY <1>18 DEF vars, SyncBacked, HasRow, TypeOK
<1> QED
  BY <1>1, <1>2, <1>3, <1>4, <1>5, <1>6, <1>7, <1>8, <1>9, <1>10, <1>11, <1>12,
     <1>13, <1>14, <1>15, <1>16, <1>17, <1>18 DEF Next, Advance, RecordRow

\* Every step of the system preserves the inductive invariant.
LEMMA IngestInvStep == ASSUME IngestInv, [Next]_vars PROVE IngestInv'
<1>1. TypeOK'
  BY TypeStep DEF IngestInv
<1>2. \A r \in Requests : Inserting(r) => req[r].pc \in {"recorded", "checked"}
  BY DEF IngestInv, RowInv
<1> QED
  BY <1>1, <1>2, BucketStep, ProvenanceStep, RowStep, UniqueStep, CustodyStep, SyncStep
     DEF IngestInv

\* The empty bucket and table satisfy the inductive invariant.
LEMMA IngestInit == ASSUME Init PROVE IngestInv
<1>1. TypeOK
  BY IdleType DEF Init, TypeOK, BlobMap, Holding, Idle
<1>2. UniqueRow /\ BucketInv /\ ProvenanceInv /\ RowInv /\ CustodyInv /\ SyncBacked
  BY DEF Init, Idle, UniqueRow, BucketInv, ProvenanceInv, RowInv, CustodyInv,
         SyncBacked, Inserting, HasRow, PastWrite, Holding
<1> QED
  BY <1>1, <1>2 DEF IngestInv

-----------------------------------------------------------------------------
(* Theorems *)

\* The inductive invariant holds in every reachable state.
THEOREM IngestInvariance == Spec => []IngestInv
<1>1. Init => IngestInv
  BY IngestInit
<1>2. IngestInv /\ [Next]_vars => IngestInv'
  BY IngestInvStep
<1> QED
  BY <1>1, <1>2, PTL DEF Spec

\* Every variable keeps its type: validated/ only ever receives the
\* normalization of an upload that passed validation (validate_file).
THEOREM TypeCorrectness == Spec => []TypeOK
<1>1. IngestInv => TypeOK
  BY DEF IngestInv
<1> QED
  BY <1>1, IngestInvariance, PTL

\* A file name never has two rows, committed or in flight (the upsert of
\* _run_validation_and_upsert_file_record under the unique constraint).
THEOREM RowUniqueness == Spec => []UniqueRow
<1>1. IngestInv => UniqueRow
  BY DEF IngestInv
<1> QED
  BY <1>1, IngestInvariance, PTL

\* A committed row is backed by the validated blob and the archived original.
THEOREM RowsAreBacked == Spec => []RowBacked
<1>1. IngestInv => RowBacked
  BY DEF IngestInv, BucketInv, RowBacked
<1> QED
  BY <1>1, IngestInvariance, PTL

\* As long as a name was uploaded once, raw/ is the original of validated/.
THEOREM SingleUploadsAreFaithful == Spec => []SingleUploadFaithful
<1>1. IngestInv => SingleUploadFaithful
  BY DEF IngestInv, BucketInv, ProvenanceInv, SingleUploadFaithful
<1> QED
  BY <1>1, IngestInvariance, PTL

\* A 200 answer names a file whose row is committed.
THEOREM AnswersAreTrue == Spec => []ReportHonest
<1>1. IngestInv => ReportHonest
  BY DEF IngestInv, RowInv, ReportHonest
<1> QED
  BY <1>1, IngestInvariance, PTL

\* A validated blob without a row comes from a request that failed.
THEOREM OrphansAreExplained == Spec => []OrphanExplained
<1>1. IngestInv => OrphanExplained
  BY DEF IngestInv, CustodyInv, OrphanExplained, Orphan
<1> QED
  BY <1>1, IngestInvariance, PTL

\* A bronze sync was started only for a stored file.
THEOREM SyncsAreBacked == Spec => []SyncBacked
<1>1. IngestInv => SyncBacked
  BY DEF IngestInv
<1> QED
  BY <1>1, IngestInvariance, PTL

\* No step repairs an orphaned file: neither the upload URL nor validation
\* can be used for its name again.
LEMMA OrphanStep ==
  ASSUME IngestInv, [Next]_vars, NEW f \in Files, Orphan(f) PROVE Orphan(f)'
<1>0. TypeOK /\ RowInv
  BY DEF IngestInv
<1>1. ASSUME NEW r \in Requests, NEW g \in Files, AskUploadUrl(r, g) PROVE Orphan(f)'
  BY <1>0, <1>1 DEF AskUploadUrl, Idle, Orphan, HasRow, PastWrite, TypeOK, bucketVars
<1>2. ASSUME NEW r \in Requests, NEW g \in Files, NEW b \in BOOLEAN,
             StartValidation(r, g, b)
      PROVE  Orphan(f)'
  BY <1>0, <1>2 DEF StartValidation, Idle, Orphan, HasRow, PastWrite, TypeOK,
     bucketVars
<1>3. ASSUME NEW r \in Requests, GrantUploadUrl(r) PROVE Orphan(f)'
  BY <1>0, <1>3 DEF GrantUploadUrl, Idle, Orphan, HasRow, PastWrite, TypeOK,
     bucketVars
<1>4. ASSUME NEW r \in Requests, ValidateStaged(r) PROVE Orphan(f)'
  BY <1>0, <1>4 DEF ValidateStaged, Abort, Idle, Orphan, HasRow, PastWrite, TypeOK,
                    RequestType, bucketVars
<1>5. ASSUME NEW r \in Requests, CheckNotValidated(r) PROVE Orphan(f)'
  BY <1>0, <1>5 DEF CheckNotValidated, Abort, Idle, Orphan, HasRow, PastWrite, TypeOK,
                    RequestType, bucketVars
<1>6. ASSUME NEW r \in Requests, req[r].pc \in {"cleared", "archived"} \cup PastWrite,
             Advance(r) \/ Fail(r)
      PROVE  Orphan(f)'
  <2>1. req[r].file # f
    BY <1>6 DEF Orphan
  <2>2. \A q \in Requests : q # r => req'[q] = req[q]
    BY <1>0, <1>6 DEF Advance, RecordRow, GrantUploadUrl, ValidateStaged, CheckNotValidated,
         ArchiveRaw, WriteValidated, DeleteStaged, FindRow, InsertRow, CheckBatch,
         TriggerSync, Commit, Fail, Abort, Answer, TypeOK
  <2>3. req'[r].file # f
    <3>1. req[r].pc # "done" /\ ~GrantUploadUrl(r) /\ ~ValidateStaged(r)
      BY <1>6 DEF PastWrite, GrantUploadUrl, ValidateStaged
    <3>2. CASE ArchiveRaw(r) \/ DeleteStaged(r) \/ CheckBatch(r) \/ CheckNotValidated(r)
      BY <1>0, <2>1, <3>2, IngestAssumption
         DEF ArchiveRaw, DeleteStaged, CheckBatch, CheckNotValidated, Abort, Idle,
             TypeOK, RequestType
    <3>3. CASE WriteValidated(r) \/ FindRow(r) \/ InsertRow(r) \/ TriggerSync(r)
      BY <1>0, <2>1, <3>3
         DEF WriteValidated, FindRow, InsertRow, TriggerSync, TypeOK, RequestType
    <3>4. CASE Commit(r) \/ Fail(r)
      BY <1>0, <2>1, <3>4, CommitEffect, IngestAssumption DEF Fail, Abort, Idle,
         TypeOK
    <3> QED
      BY <1>6, <3>1, <3>2, <3>3, <3>4 DEF Advance, RecordRow
  <2>4. validated'[f] = validated[f]
    BY <1>0, <1>6, <2>1 DEF Advance, RecordRow, GrantUploadUrl, ValidateStaged,
       CheckNotValidated,
         ArchiveRaw, WriteValidated, DeleteStaged, FindRow, InsertRow, CheckBatch,
         TriggerSync, Commit, Fail, Abort, Answer, TypeOK, BlobMap, bucketVars
  <2>5. ~HasRow(f)'
    BY <1>0, <1>6, <2>1 DEF Orphan, HasRow, Advance, RecordRow, GrantUploadUrl, ValidateStaged,
         CheckNotValidated, ArchiveRaw, WriteValidated, DeleteStaged, FindRow, InsertRow,
         CheckBatch, TriggerSync, Commit, Fail
  <2> QED
    BY <2>2, <2>3, <2>4, <2>5 DEF Orphan
<1>7. ASSUME NEW r \in Requests, Fail(r) PROVE Orphan(f)'
  BY <1>0, <1>7 DEF Fail, Abort, Idle, Orphan, HasRow, PastWrite, TypeOK, bucketVars
<1>8. ASSUME NEW g \in Files, NEW c \in Uploads, Put(g, c) PROVE Orphan(f)'
  BY <1>8 DEF Put, Orphan, HasRow
<1>9. ASSUME NEW g \in Files, ExpireUrl(g) \/ ExpireStaged(g) PROVE Orphan(f)'
  BY <1>9 DEF ExpireUrl, ExpireStaged, Orphan, HasRow, bucketVars
<1>10. CASE UNCHANGED vars
  BY <1>10 DEF vars, Orphan, HasRow
<1>11. ASSUME NEW r \in Requests, Advance(r) PROVE Orphan(f)'
  <2>1. \/ GrantUploadUrl(r) \/ ValidateStaged(r) \/ CheckNotValidated(r)
        \/ req[r].pc \in {"cleared", "archived"} \cup PastWrite
    BY <1>11 DEF Advance, RecordRow, ArchiveRaw, WriteValidated, DeleteStaged, FindRow,
       InsertRow,
                 CheckBatch, TriggerSync, Commit, PastWrite
  <2> QED
    BY <1>11, <2>1, <1>3, <1>4, <1>5, <1>6
<1> QED
  BY <1>1, <1>2, <1>7, <1>8, <1>9, <1>10, <1>11 DEF Next

\* An orphaned file stays orphaned: the upload URL is refused and validation
\* fails (get_upload_url and validate_file).
THEOREM OrphansStay == Spec => OrphanStays
<1>1. IngestInv /\ [Next]_vars => [\A f \in Files : Orphan(f) => Orphan(f)']_vars
  BY OrphanStep
<1> QED
  BY <1>1, IngestInvariance, PTL DEF Spec, OrphanStays

-----------------------------------------------------------------------------
(* Refinement *)

\* The catalog sees a step only through validated/ and the file table.
LEMMA StatusStutters ==
  ASSUME UNCHANGED <<rows, validated>> PROVE UNCHANGED CatalogStatus
  BY DEF CatalogStatus, HasRow

\* Writing validated/ stores a file that was absent, and changes nothing for a
\* file already stored or listed.
LEMMA WriteStores ==
  ASSUME TypeOK, NEW r \in Requests, WriteValidated(r)
  PROVE  Catalog!Store(req[r].file) \/ UNCHANGED CatalogStatus
<1> DEFINE f == req[r].file
<1>1. f \in Files /\ UNCHANGED rows
  BY DEF WriteValidated, TypeOK
<1>2. /\ \A g \in Files \ {f} : validated'[g] = validated[g]
      /\ validated'[f] # None
  BY IngestAssumption DEF WriteValidated, TypeOK, BlobMap, Holding, NormalizedUploads
<1>3. \A g \in Files : HasRow(g)' <=> HasRow(g)
  BY <1>1 DEF HasRow
<1>4. CASE HasRow(f) \/ validated[f] # None
  <2>1. UNCHANGED CatalogStatus
    BY <1>2, <1>3, <1>4 DEF CatalogStatus
  <2> QED
    BY <2>1
<1>5. CASE ~HasRow(f) /\ validated[f] = None
  <2>1. CatalogStatus[f] = "absent"
    BY <1>1, <1>5 DEF CatalogStatus
  <2>2. CatalogStatus' = [CatalogStatus EXCEPT ![f] = "stored"]
    BY <1>1, <1>2, <1>3, <1>5 DEF CatalogStatus
  <2> QED
    BY <2>1, <2>2 DEF Catalog!Store
<1> QED
  BY <1>4, <1>5

\* Committing an inserted row lists a file that was stored.
LEMMA CommitLists ==
  ASSUME IngestInv, NEW r \in Requests, NEW f \in Files, f = req[r].file, Commit(r)
  PROVE  Catalog!List(f) \/ UNCHANGED CatalogStatus
<1>1. CASE Inserting(r)
  <2>1. ~HasRow(f) /\ validated[f] # None /\ UNCHANGED validated
    BY <1>1 DEF IngestInv, Commit, TypeOK, UniqueRow, BucketInv, PastWrite, bucketVars
  <2>2. HasRow(f)' /\ \A g \in Files \ {f} : HasRow(g)' <=> HasRow(g)
    BY CommitEffect, <2>1 DEF IngestInv, HasRow
  <2>3. CatalogStatus[f] = "stored"
    BY <2>1 DEF CatalogStatus
  <2>4. CatalogStatus' = [CatalogStatus EXCEPT ![f] = "listed"]
    BY <2>1, <2>2 DEF CatalogStatus
  <2> QED
    BY <2>3, <2>4 DEF Catalog!List
<1>2. CASE ~Inserting(r)
  BY <1>2, StatusStutters DEF Commit, bucketVars
<1> QED
  BY <1>1, <1>2

\* Upload and validation implement the file catalog: stored before listed,
\* and never withdrawn.
THEOREM IngestImplementsCatalog == Spec => CatalogSpec
<1>1. Init => Catalog!Init
  BY DEF Init, Catalog!Init, CatalogStatus, HasRow
<1>2. IngestInv /\ [Next]_vars => [Catalog!Next]_CatalogStatus
  <2> SUFFICES ASSUME IngestInv, [Next]_vars
               PROVE  Catalog!Next \/ UNCHANGED CatalogStatus
    OBVIOUS
  <2>0. TypeOK
    BY DEF IngestInv
  <2>1. ASSUME NEW r \in Requests, WriteValidated(r)
        PROVE  Catalog!Next \/ UNCHANGED CatalogStatus
    BY <2>0, <2>1, WriteStores DEF Catalog!Next, WriteValidated, TypeOK
  <2>2. ASSUME NEW r \in Requests, Commit(r)
        PROVE  Catalog!Next \/ UNCHANGED CatalogStatus
    BY <2>0, <2>2, CommitLists DEF Catalog!Next, Commit, TypeOK
  <2>3. \/ \E r \in Requests : WriteValidated(r) \/ Commit(r)
        \/ UNCHANGED <<rows, validated>>
    BY DEF Next, Advance, RecordRow, vars, bucketVars, AskUploadUrl, GrantUploadUrl, Put,
       ExpireUrl,
           ExpireStaged, StartValidation, ValidateStaged, CheckNotValidated, ArchiveRaw,
           DeleteStaged, FindRow, InsertRow, CheckBatch, TriggerSync, Fail
  <2> QED
    BY <2>1, <2>2, <2>3, StatusStutters
<1> QED
  BY <1>1, <1>2, IngestInvariance, PTL DEF Spec, CatalogSpec, Catalog!Spec

-----------------------------------------------------------------------------
(* Validation next to batch deletion (FileLifecycle)                        *)

\* A batch step touches rows, blobs and deletions in one of the five ways below;
\* the other slots of batch requests are left alone.
OnlySlot(q) == \A p \in BatchRequests : p # q => breq'[p] = breq[p]

\* No deletion, row or blob is touched.
QuietStep ==
  /\ UNCHANGED <<rows, validated, lost>>
  /\ \A q \in BatchRequests :
       "deleting" \in {breq[q].pc, breq'[q].pc} => breq'[q] = breq[q]

\* A deletion begins with rows of the table, none of whose blobs it took yet.
DeletionBegins(q) ==
  /\ UNCHANGED <<rows, validated, lost>>
  /\ breq'[q].pc = "deleting" /\ breq'[q].rows \subseteq rows
  /\ breq'[q].left = Batch!NamesOf(breq'[q].rows)
  /\ breq[q].pc # "deleting" /\ OnlySlot(q)

\* A request gives up; what it took from the bucket is lost.
RequestStops(q) ==
  /\ UNCHANGED <<rows, validated>>
  /\ lost' = lost \cup Batch!Cleared(q)
  /\ breq'[q].pc = "done" /\ OnlySlot(q)

\* A deletion takes the blob of f, or notes a storage error.
BlobTaken(q, f) ==
  /\ UNCHANGED <<rows, lost>>
  /\ breq[q].pc = "deleting" /\ f \in breq[q].left
  /\ breq'[q].pc = "deleting" /\ breq'[q].rows = breq[q].rows
  /\ breq'[q].left = breq[q].left \ {f}
  /\ \/ validated' = [validated EXCEPT ![f] = None] /\ breq'[q].error = breq[q].error
     \/ validated' = validated /\ breq'[q].error
  /\ OnlySlot(q)

\* A deletion without storage errors removes its rows.
RowsRemoved(q) ==
  /\ UNCHANGED <<validated, lost>>
  /\ breq[q].pc = "deleting" /\ breq[q].left = {} /\ ~breq[q].error
  /\ rows' = rows \ breq[q].rows
  /\ breq'[q].pc = "done" /\ OnlySlot(q)

\* Aborting a batch request stops it.
LEMMA BatchAbort ==
  ASSUME BatchTypes, NEW q \in BatchRequests, Batch!Abort(q), UNCHANGED validated
  PROVE  RequestStops(q)
  BY DEF Batch!Abort, Batch!Idle, RequestStops, OnlySlot, BatchTypes

\* Every batch step is of one of the five kinds.
LEMMA BatchKinds ==
  ASSUME TypeOK, BatchTypes, BatchStep
  PROVE  \/ QuietStep
         \/ \E q \in BatchRequests :
              DeletionBegins(q) \/ RequestStops(q) \/ RowsRemoved(q)
                \/ \E f \in Files : BlobTaken(q, f)
<1>0. breq \in [BatchRequests -> Batch!RequestType]
  BY DEF BatchTypes
<1>1. ASSUME NEW q \in BatchRequests, Batch!CommitCreate(q), UNCHANGED validated
      PROVE  QuietStep \/ RequestStops(q)
  <2>1. CASE Batch!Abort(q)
    BY <1>1, <2>1, BatchAbort
  <2>2. CASE /\ breq[q].pc = "creating" /\ breq' = [breq EXCEPT ![q].pc = "created"]
             /\ UNCHANGED <<rows, lost>>
    BY <1>0, <1>1, <2>2 DEF QuietStep, Batch!RequestType
  <2> QED
    BY <1>1, <2>1, <2>2 DEF Batch!CommitCreate
<1>2. ASSUME NEW q \in BatchRequests, Batch!ReadCreated(q) \/ Batch!StartSync(q),
             UNCHANGED validated
      PROVE  QuietStep
  BY <1>0, <1>2 DEF Batch!ReadCreated, Batch!StartSync, Batch!Idle, Batch!RequestType, QuietStep
<1>3. ASSUME NEW q \in BatchRequests, Batch!CommitUpdate(q), UNCHANGED validated
      PROVE  QuietStep \/ RequestStops(q)
  <2>1. CASE Batch!Abort(q)
    BY <1>3, <2>1, BatchAbort
  <2>2. CASE ~Batch!Abort(q)
    <3>1. /\ breq[q].pc = "updating" /\ breq' = [breq EXCEPT ![q] = Batch!Idle]
          /\ UNCHANGED <<rows, lost>>
      BY <1>3, <2>2 DEF Batch!CommitUpdate
    <3> QED
      BY <1>0, <1>3, <3>1 DEF Batch!Idle, QuietStep
  <2> QED
    BY <2>1, <2>2
<1>4. ASSUME NEW q \in BatchRequests, Batch!CommitDelete(q), UNCHANGED validated
      PROVE  RowsRemoved(q) \/ RequestStops(q)
  <2>1. CASE ~breq[q].error /\ breq[q].links \subseteq links
    BY <1>0, <1>4, <2>1 DEF Batch!CommitDelete, Batch!Idle, RowsRemoved, OnlySlot
  <2>2. CASE ~(~breq[q].error /\ breq[q].links \subseteq links)
    BY <1>4, <2>2, BatchAbort DEF Batch!CommitDelete
  <2> QED
    BY <2>1, <2>2
<1>5. ASSUME NEW q \in BatchRequests, Batch!Fail(q), UNCHANGED validated
      PROVE  RequestStops(q)
  BY <1>5, BatchAbort DEF Batch!Fail
<1>6. ASSUME NEW q \in BatchRequests, NEW n \in Names, NEW want \in SUBSET Files,
             Batch!StartCreate(q, n, want), UNCHANGED validated
      PROVE  QuietStep
  BY <1>0, <1>6 DEF Batch!StartCreate, Batch!Idle, QuietStep
<1>7. ASSUME NEW q \in BatchRequests, NEW n \in Names, NEW b \in batches,
             NEW R \in SUBSET rows, Batch!StartUpdate(q, b, n, R), UNCHANGED validated
      PROVE  QuietStep
  BY <1>0, <1>7 DEF Batch!StartUpdate, Batch!Idle, QuietStep
<1>8. ASSUME NEW q \in BatchRequests, NEW b, Batch!StartDelete(q, b), UNCHANGED validated
      PROVE  DeletionBegins(q)
  BY <1>0, <1>8 DEF Batch!StartDelete, Batch!Idle, Batch!RowsOf, DeletionBegins, OnlySlot
<1>9. CASE Batch!Heal /\ UNCHANGED validated
  BY <1>9 DEF Batch!Heal, QuietStep
<1>10. ASSUME NEW q \in BatchRequests, NEW f \in Files, Batch!DeleteBlob(q, f),
              validated' \in {validated, [validated EXCEPT ![f] = None]}
       PROVE  BlobTaken(q, f)
  <2>1. /\ breq[q].pc = "deleting" /\ f \in breq[q].left /\ UNCHANGED <<rows, lost>>
    BY <1>10 DEF Batch!DeleteBlob, BatchTypes
  <2>2. CASE /\ {g \in Files : validated'[g] # None} = {g \in Files : validated[g] # None} \ {f}
             /\ breq' = [breq EXCEPT ![q].left = @ \ {f}]
    <3>1. validated'[f] = None
      BY <2>2
    <3>2. validated' = [validated EXCEPT ![f] = None]
      BY <1>10, <3>1 DEF TypeOK, BlobMap
    <3> QED
      BY <1>0, <2>1, <2>2, <3>2 DEF BlobTaken, OnlySlot, Batch!RequestType
  <2>3. CASE /\ UNCHANGED {g \in Files : validated[g] # None}
             /\ breq' = [breq EXCEPT ![q].left = @ \ {f}, ![q].error = TRUE]
    <3>1. validated' = validated
      BY <1>10, <2>3 DEF TypeOK, BlobMap
    <3> QED
      BY <1>0, <2>1, <2>3, <3>1 DEF BlobTaken, OnlySlot, Batch!RequestType
  <2> QED
    BY <1>10, <2>2, <2>3 DEF Batch!DeleteBlob
<1> QED
  BY <1>1, <1>2, <1>3, <1>4, <1>5, <1>6, <1>7, <1>8, <1>9, <1>10
     DEF BatchStep, Batch!DeleteBatch

\* A batch step keeps the variables of uploads and validations typed.
LEMMA BatchTypeOK ==
  ASSUME TypeOK, BatchTypes, BatchStep PROVE TypeOK'
<1>1. UNCHANGED <<unvalidated, raw, urls, req, uploaded, aborted>>
  BY DEF BatchStep, ingestOnly
<1>2. rows' \subseteq rows /\ validated' \in BlobMap(NormalizedUploads)
  BY BatchKinds DEF QuietStep, DeletionBegins, RequestStops, RowsRemoved, BlobTaken,
     TypeOK, BlobMap
<1>3. syncs' \subseteq Files
  <2>1. ASSUME NEW q \in BatchRequests, Batch!StartSync(q) PROVE syncs' \subseteq Files
    <3>1. Batch!NamesOf(breq[q].rows) \subseteq Files
      BY DEF Batch!NamesOf, BatchTypes, Batch!RequestType, Batch!RowType
    <3> QED
      BY <2>1, <3>1 DEF Batch!StartSync, TypeOK
  <2>2. UNCHANGED syncs \/ \E q \in BatchRequests : Batch!StartSync(q)
    BY DEF BatchStep, Batch!CommitCreate, Batch!ReadCreated, Batch!CommitUpdate,
       Batch!CommitDelete, Batch!Fail, Batch!StartCreate, Batch!StartUpdate,
       Batch!DeleteBatch, Batch!StartDelete, Batch!Heal, Batch!DeleteBlob, Batch!Abort
  <2> QED
    BY <2>1, <2>2 DEF TypeOK
<1> QED
  BY <1>1, <1>2, <1>3 DEF TypeOK

\* A slot that takes a new record keeps the batch requests typed.
LEMMA BatchSlot ==
  ASSUME BatchTypes, NEW q \in BatchRequests, NEW v \in Batch!RequestType,
         breq' = [breq EXCEPT ![q] = v],
         v.pc \in {"creating", "updating"} => v.name \in Names,
         IF v.pc = "deleting" THEN v.left \subseteq Batch!NamesOf(v.rows) ELSE v.left = {},
         batches' \subseteq [name: Names, id: BatchIds], links' \subseteq RowIds \X BatchIds,
         lost' \subseteq Files, met' \subseteq Files
  PROVE  BatchTypes'
<1>1. breq' \in [BatchRequests -> Batch!RequestType]
  BY DEF BatchTypes
<1>2. ASSUME NEW p \in BatchRequests
      PROVE  /\ breq'[p].pc \in {"creating", "updating"} => breq'[p].name \in Names
             /\ IF breq'[p].pc = "deleting"
                THEN breq'[p].left \subseteq Batch!NamesOf(breq'[p].rows)
                ELSE breq'[p].left = {}
  BY DEF BatchTypes
<1> QED
  BY <1>1, <1>2 DEF BatchTypes, Batch!RequestType, Batch!RowType, Batch!NamesOf

\* A step keeps the variables of batch operations typed.
LEMMA BatchTypesStep ==
  ASSUME TypeOK, BatchTypes, LifecycleNext PROVE BatchTypes'
<1>0. met' \subseteq Files /\ breq \in [BatchRequests -> Batch!RequestType]
  BY DEF LifecycleNext, BatchTypes
<1>1. CASE IngestStep
  BY <1>0, <1>1 DEF IngestStep, batchOnly, BatchTypes, Batch!RequestType, Batch!RowType,
     Batch!NamesOf
<1>2. Batch!Idle \in Batch!RequestType /\ Batch!Idle.pc = "done" /\ Batch!Idle.left = {}
  BY DEF Batch!Idle, Batch!RequestType
<1>3. rows \subseteq Batch!RowType
  BY DEF TypeOK, Batch!RowType
<1>4. ASSUME NEW q \in BatchRequests, Batch!Abort(q) PROVE BatchTypes'
  <2>1. lost' \subseteq Files
    BY <1>0, <1>4 DEF Batch!Abort, Batch!Cleared, BatchTypes, Batch!RequestType, Batch!RowType,
       Batch!NamesOf
  <2> QED
    BY <1>0, <1>2, <1>4, <2>1, BatchSlot DEF Batch!Abort, BatchTypes
<1>5. ASSUME NEW q \in BatchRequests, Batch!CommitCreate(q) PROVE BatchTypes'
  <2>1. CASE ~Batch!Abort(q)
    <3>1. PICK b \in BatchIds :
            /\ breq[q].pc = "creating"
            /\ batches' = batches \cup {[name |-> breq[q].name, id |-> b]}
            /\ links' = links \cup Batch!LinksTo(breq[q].rows, b)
            /\ breq' = [breq EXCEPT ![q].pc = "created"] /\ UNCHANGED lost
      BY <1>5, <2>1 DEF Batch!CommitCreate, Batch!FreshBatchIds
    <3> DEFINE v == [breq[q] EXCEPT !.pc = "created"]
    <3>2. v \in Batch!RequestType /\ v.pc = "created" /\ v.left = {}
      BY <1>0, <3>1 DEF Batch!RequestType, BatchTypes
    <3>3. breq' = [breq EXCEPT ![q] = v]
      BY <1>0, <3>1 DEF Batch!RequestType
    <3>4. breq[q].name \in Names /\ breq[q].rows \subseteq Batch!RowType
      BY <1>0, <3>1 DEF Batch!RequestType, BatchTypes
    <3>5. batches' \subseteq [name: Names, id: BatchIds] /\ links' \subseteq RowIds \X BatchIds
      BY <3>1, <3>4 DEF BatchTypes, Batch!LinksTo, Batch!RowType
    <3> HIDE DEF v
    <3> QED
      BY <1>0, <3>1, <3>2, <3>3, <3>5, BatchSlot DEF BatchTypes
  <2> QED
    BY <1>4, <2>1
<1>6. ASSUME NEW q \in BatchRequests, Batch!ReadCreated(q) \/ Batch!StartSync(q)
      PROVE  BatchTypes'
  <2>1. CASE breq' = [breq EXCEPT ![q] = Batch!Idle]
    BY <1>0, <1>2, <1>6, <2>1, BatchSlot DEF Batch!ReadCreated, Batch!StartSync, BatchTypes
  <2>2. ASSUME NEW b \in batches,
               breq' = [breq EXCEPT ![q].pc = "syncing", ![q].rows = Batch!RowsOf(b.id)]
        PROVE  BatchTypes'
    <3> DEFINE v == [breq[q] EXCEPT !.pc = "syncing", !.rows = Batch!RowsOf(b.id)]
    <3>1. v \in Batch!RequestType
      BY <1>0, <1>3 DEF Batch!RequestType, Batch!RowsOf
    <3>2. v.pc = "syncing" /\ v.left = breq[q].left /\ breq[q].pc # "deleting"
      BY <1>0, <1>6, <2>2 DEF Batch!RequestType, Batch!ReadCreated, Batch!StartSync
    <3>3. breq' = [breq EXCEPT ![q] = v]
      BY <1>0, <2>2
    <3> HIDE DEF v
    <3> QED
      BY <1>0, <1>6, <3>1, <3>2, <3>3, BatchSlot
         DEF Batch!ReadCreated, Batch!StartSync, BatchTypes
  <2> QED
    BY <1>6, <2>1, <2>2 DEF Batch!ReadCreated, Batch!StartSync
<1>7. ASSUME NEW q \in BatchRequests, Batch!CommitUpdate(q) PROVE BatchTypes'
  <2>1. CASE ~Batch!Abort(q)
    <3> DEFINE b == breq[q].batch
               new == Batch!LinksTo(breq[q].rows, b)
    <3>1. /\ breq[q].pc = "updating" /\ b \in Batch!Ids(batches)
          /\ batches' = {x \in batches : x.id # b} \cup {[name |-> breq[q].name, id |-> b]}
          /\ links' \subseteq links \cup new
          /\ breq' = [breq EXCEPT ![q] = Batch!Idle] /\ UNCHANGED lost
      BY <1>7, <2>1 DEF Batch!CommitUpdate
    <3>2. b \in BatchIds
      BY <3>1 DEF Batch!Ids, BatchTypes
    <3>3. breq[q].name \in Names /\ breq[q].rows \subseteq Batch!RowType
      BY <1>0, <3>1 DEF Batch!RequestType, BatchTypes
    <3>4. new \subseteq RowIds \X BatchIds
      BY <3>2, <3>3 DEF Batch!LinksTo, Batch!RowType
    <3>5. batches' \subseteq [name: Names, id: BatchIds] /\ links' \subseteq RowIds \X BatchIds
      BY <3>1, <3>2, <3>3, <3>4 DEF BatchTypes
    <3> QED
      BY <1>0, <1>2, <3>1, <3>5, BatchSlot DEF BatchTypes
  <2> QED
    BY <1>4, <2>1
<1>8. ASSUME NEW q \in BatchRequests, Batch!CommitDelete(q) PROVE BatchTypes'
  <2>1. CASE ~Batch!Abort(q)
    BY <1>0, <1>2, <1>8, <2>1, BatchSlot DEF Batch!CommitDelete, BatchTypes
  <2> QED
    BY <1>4, <2>1
<1>9. ASSUME NEW q \in BatchRequests, NEW n \in Names, NEW want \in SUBSET Files,
             Batch!StartCreate(q, n, want)
      PROVE  BatchTypes'
  <2> DEFINE v == [Batch!Idle EXCEPT !.pc = "creating", !.name = n,
                                     !.rows = {x \in rows : x.name \in want}]
  <2>1. v \in Batch!RequestType /\ v.pc = "creating" /\ v.name = n /\ v.left = {}
    BY <1>3 DEF Batch!Idle, Batch!RequestType
  <2>2. breq' = [breq EXCEPT ![q] = v] /\ UNCHANGED <<batches, links, lost>>
    BY <1>9 DEF Batch!StartCreate
  <2> HIDE DEF v
  <2> QED
    BY <1>0, <2>1, <2>2, BatchSlot DEF BatchTypes
<1>10. ASSUME NEW q \in BatchRequests, NEW n \in Names, NEW b \in batches,
              NEW R \in SUBSET rows, Batch!StartUpdate(q, b, n, R)
       PROVE  BatchTypes'
  <2> DEFINE v == [Batch!Idle EXCEPT !.pc = "updating", !.batch = b.id, !.name = n,
                                     !.rows = R, !.links = Batch!LinksOf(b.id)]
  <2>1. b.id \in BatchIds /\ Batch!LinksOf(b.id) \subseteq RowIds \X BatchIds
    BY DEF BatchTypes, Batch!LinksOf
  <2>2. v \in Batch!RequestType /\ v.pc = "updating" /\ v.name = n /\ v.left = {}
    BY <1>3, <2>1 DEF Batch!Idle, Batch!RequestType
  <2>3. breq' = [breq EXCEPT ![q] = v] /\ UNCHANGED <<batches, links, lost>>
    BY <1>10 DEF Batch!StartUpdate
  <2> HIDE DEF v
  <2> QED
    BY <1>0, <2>2, <2>3, BatchSlot DEF BatchTypes
<1>11. ASSUME NEW q \in BatchRequests, NEW b \in batches, Batch!StartDelete(q, b)
       PROVE  BatchTypes'
  <2> DEFINE doomed == Batch!RowsOf(b.id)
             v == [Batch!Idle EXCEPT !.pc = "deleting", !.batch = b.id, !.rows = doomed,
                                     !.links = {l \in links : l[1] \in Batch!Ids(doomed)},
                                     !.left = Batch!NamesOf(doomed)]
  <2>1. b.id \in BatchIds /\ doomed \subseteq Batch!RowType
    BY <1>3 DEF BatchTypes, Batch!RowsOf
  <2>2. Batch!NamesOf(doomed) \subseteq Files
    BY <2>1 DEF Batch!NamesOf, Batch!RowType
  <2>3. {l \in links : l[1] \in Batch!Ids(doomed)} \subseteq RowIds \X BatchIds
    BY DEF BatchTypes
  <2>4. breq' = [breq EXCEPT ![q] = v] /\ UNCHANGED <<batches, links, lost>>
    BY <1>11 DEF Batch!StartDelete
  <2> HIDE DEF doomed
  <2>5. /\ v \in Batch!RequestType /\ v.pc = "deleting"
        /\ v.left = Batch!NamesOf(v.rows)
    BY <2>1, <2>2, <2>3 DEF Batch!Idle, Batch!RequestType
  <2> HIDE DEF v
  <2> QED
    BY <1>0, <2>4, <2>5, BatchSlot DEF BatchTypes
<1>12. CASE Batch!Heal
  BY <1>0, <1>12 DEF Batch!Heal, BatchTypes, Batch!RequestType, Batch!RowType, Batch!NamesOf
<1>13. ASSUME NEW q \in BatchRequests, NEW f \in Files, Batch!DeleteBlob(q, f)
       PROVE  BatchTypes'
  <2>1. PICK e \in BOOLEAN : breq' = [breq EXCEPT ![q].left = @ \ {f}, ![q].error = e]
    <3>1. CASE breq' = [breq EXCEPT ![q].left = @ \ {f}]
      <4>1. breq' = [breq EXCEPT ![q].left = @ \ {f}, ![q].error = breq[q].error]
        BY <1>0, <3>1 DEF Batch!RequestType
      <4>2. breq[q].error \in BOOLEAN
        BY <1>0 DEF Batch!RequestType
      <4> QED
        BY <4>1, <4>2
    <3> QED
      BY <1>13, <3>1 DEF Batch!DeleteBlob
  <2> DEFINE v == [breq[q] EXCEPT !.left = @ \ {f}, !.error = e]
  <2>2. /\ v \in Batch!RequestType /\ v.pc = breq[q].pc /\ v.rows = breq[q].rows
        /\ v.name = breq[q].name /\ v.left = breq[q].left \ {f}
    BY <1>0 DEF Batch!RequestType
  <2>3. breq' = [breq EXCEPT ![q] = v] /\ UNCHANGED <<batches, links, lost>>
    BY <1>0, <1>13, <2>1 DEF Batch!RequestType, Batch!DeleteBlob
  <2> HIDE DEF v
  <2> QED
    BY <1>0, <2>2, <2>3, BatchSlot DEF BatchTypes
<1> QED
  BY <1>1, <1>4, <1>5, <1>6, <1>7, <1>8, <1>9, <1>10, <1>11, <1>12, <1>13
     DEF LifecycleNext, BatchStep, Batch!Fail, Batch!DeleteBatch

\* Uploads and validations never take a row or a blob away, write a validated
\* blob only after the original, and insert the row of a request at its end.
LEMMA IngestEffect ==
  ASSUME TypeOK, Next
  PROVE  /\ \A f \in Files :
              /\ raw[f] # None => raw'[f] # None
              /\ validated[f] # None => validated'[f] # None
              /\ HasRow(f) => HasRow(f)'
              /\ validated'[f] # None =>
                   \/ validated[f] # None
                   \/ \E r \in Requests : /\ req[r].file = f /\ req'[r].file = f
                                          /\ req[r].pc = "archived" /\ req'[r].pc = "written"
         /\ aborted \subseteq aborted'
         /\ \A x \in rows' :
              \/ x \in rows
              \/ \E r \in Requests : req[r].file = x.name /\ req[r].pc = "checked"
<1>1. CASE UNCHANGED <<raw, validated, rows>> /\ aborted \subseteq aborted'
  BY <1>1 DEF HasRow
<1>2. ASSUME NEW r \in Requests, ArchiveRaw(r)
      PROVE  /\ \A f \in Files : raw[f] # None => raw'[f] # None
             /\ UNCHANGED <<validated, rows>> /\ aborted \subseteq aborted'
  BY <1>2 DEF ArchiveRaw, Abort, TypeOK, BlobMap
<1>3. ASSUME NEW r \in Requests, WriteValidated(r)
      PROVE  /\ UNCHANGED <<raw, rows, aborted>>
             /\ \A f \in Files \ {req[r].file} : validated'[f] = validated[f]
             /\ validated'[req[r].file] # None
             /\ req'[r].file = req[r].file
             /\ req[r].pc = "archived" /\ req'[r].pc = "written"
  BY <1>3, IngestAssumption DEF WriteValidated, NormalizedUploads, TypeOK, Holding, BlobMap,
     RequestType
<1>4. ASSUME NEW r \in Requests, Commit(r)
      PROVE  /\ UNCHANGED <<raw, validated, aborted>>
             /\ rows \subseteq rows' /\ req[r].pc = "checked"
             /\ \A x \in rows' : x \in rows \/ req[r].file = x.name
  BY <1>4 DEF Commit, bucketVars
<1>5. CASE ~\E r \in Requests : ArchiveRaw(r) \/ WriteValidated(r) \/ Commit(r)
  BY <1>1, <1>5 DEF Next, Advance, RecordRow, bucketVars, AskUploadUrl, GrantUploadUrl, Put,
     ExpireUrl, ExpireStaged, StartValidation, ValidateStaged, CheckNotValidated,
     DeleteStaged, FindRow, InsertRow, CheckBatch, TriggerSync, Fail, Abort
<1>6. CASE \E r \in Requests : ArchiveRaw(r)
  BY <1>2, <1>6 DEF HasRow
<1>7. CASE \E r \in Requests : WriteValidated(r)
  BY <1>3, <1>7 DEF HasRow
<1>8. CASE \E r \in Requests : Commit(r)
  BY <1>4, <1>8 DEF HasRow
<1> QED
  BY <1>5, <1>6, <1>7, <1>8

\* A request past its write stays there, fails and is recorded as failed, or
\* commits the row it inserted.
LEMMA HolderStep ==
  ASSUME TypeOK, Next, NEW r \in Requests, req[r].pc \in PastWrite,
         NEW f, f = req[r].file
  PROVE  \/ req'[r].pc \in PastWrite /\ req'[r].file = f
         \/ f \in aborted'
         \/ req[r].pc = "checked" /\ (Inserting(r) => HasRow(f)')
<1>0. req[r].pc # "done" /\ req[r].pc \notin Holding \cup {"url_asked", "started"}
  BY DEF PastWrite, Holding
<1>2. CASE Fail(r)
  BY <1>2 DEF Fail, Abort
<1>3. CASE DeleteStaged(r) \/ CheckBatch(r)
  BY <1>3, MoveSlot DEF DeleteStaged, CheckBatch, Abort, PastWrite
<1>4. CASE FindRow(r) \/ InsertRow(r) \/ TriggerSync(r)
  BY <1>4 DEF FindRow, InsertRow, TriggerSync, TypeOK, RequestType, PastWrite
<1>5. CASE Commit(r)
  <2> DEFINE x == [name |-> req[r].file, id |-> req[r].row]
  <2>1. Inserting(r) => x \in rows' /\ x.name = f
    BY <1>5 DEF Commit
  <2>2. Inserting(r) => \E y \in rows' : y.name = f
    BY <2>1
  <2> QED
    BY <1>5, <2>2 DEF Commit, HasRow
<1>6. CASE req'[r] = req[r]
  BY <1>6
<1>7. ASSUME NEW q \in Requests, q # r, Advance(q) \/ Fail(q) PROVE req'[r] = req[r]
  BY <1>7 DEF Advance, RecordRow, GrantUploadUrl, ValidateStaged, CheckNotValidated,
     ArchiveRaw, WriteValidated, DeleteStaged, FindRow, InsertRow, CheckBatch, TriggerSync,
     Commit, Fail, Abort, Answer, TypeOK
<1>8. ASSUME NEW q \in Requests, NEW g \in Files, NEW b \in BOOLEAN,
             AskUploadUrl(q, g) \/ StartValidation(q, g, b)
      PROVE  req'[r] = req[r]
  BY <1>0, <1>8 DEF AskUploadUrl, StartValidation, TypeOK
<1>9. ~GrantUploadUrl(r) /\ ~ValidateStaged(r) /\ ~CheckNotValidated(r) /\ ~ArchiveRaw(r)
      /\ ~WriteValidated(r)
  BY <1>0 DEF GrantUploadUrl, ValidateStaged, CheckNotValidated, ArchiveRaw, WriteValidated,
     Holding
<1>10. ASSUME NEW g \in Files, ExpireUrl(g) \/ ExpireStaged(g) \/ \E c \in Uploads : Put(g, c)
       PROVE  req'[r] = req[r]
  BY <1>10 DEF ExpireUrl, ExpireStaged, Put
<1> QED
  BY <1>2, <1>3, <1>4, <1>5, <1>6, <1>7, <1>8, <1>9, <1>10 DEF Next, Advance, RecordRow

\* What FileLifecycle's invariant says beyond types.
Meetings == \A f \in Files : Meeting(f) => f \in met
Deletions == \A q \in BatchRequests : DeletionKnows(q)
Validations == \A r \in Requests : ValidationKnows(r)

\* Files that meet are remembered.
LEMMA MeetingStep ==
  ASSUME LifecycleNext PROVE Meetings' /\ met \subseteq met'
  BY DEF LifecycleNext, Meetings

\* A request under way meets every deletion that has a row of its file.
LEMMA MeetsDeletion ==
  ASSUME Meetings, NEW r \in Requests, req[r].pc # "done", req[r].file \in Files,
         NEW q \in BatchRequests, breq[q].pc = "deleting",
         req[r].file \in Batch!NamesOf(breq[q].rows)
  PROVE  req[r].file \in met
  BY DEF Meetings, Meeting

\* A deletion has the rows of its names, and the blobs it took stay away,
\* unless a validation met it.
LEMMA DeletionStep ==
  ASSUME TypeOK, BatchTypes, BatchTypes', UniqueRow, Meetings, Deletions, LifecycleNext
  PROVE  Deletions'
<1> SUFFICES ASSUME NEW p \in BatchRequests, (breq[p].pc = "deleting")'
             PROVE  DeletionKnows(p)'
  BY DEF Deletions, DeletionKnows
<1>0. met \subseteq met' /\ DeletionKnows(p)
  BY MeetingStep DEF Deletions
<1>1. CASE IngestStep
  <2>1. breq' = breq /\ Next
    BY <1>1 DEF IngestStep, batchOnly
  <2>2. ASSUME NEW x \in rows', x.name \in Batch!NamesOf(breq[p].rows)
        PROVE  x \in breq[p].rows \/ x.name \in met
    <3>1. CASE x \in rows
      BY <1>0, <2>1, <2>2, <3>1 DEF DeletionKnows
    <3>2. ASSUME NEW r \in Requests, req[r].file = x.name, req[r].pc = "checked"
          PROVE  x.name \in met
      BY <2>1, <2>2, <3>2, MeetsDeletion DEF TypeOK
    <3> QED
      BY <2>1, <3>1, <3>2, IngestEffect
  <2>3. ASSUME NEW f \in Batch!Cleared(p), ~breq[p].error
        PROVE  validated'[f] = None \/ f \in met
    <3>1. f \in Files /\ f \in Batch!NamesOf(breq[p].rows)
      BY <2>1 DEF Batch!Cleared, BatchTypes, Batch!RequestType, Batch!RowType, Batch!NamesOf
    <3>2. CASE validated[f] # None
      BY <1>0, <2>1, <2>3, <3>2 DEF DeletionKnows
    <3>3. ASSUME NEW r \in Requests, req[r].file = f, req[r].pc = "archived"
          PROVE  f \in met
      BY <2>1, <3>1, <3>3, MeetsDeletion
    <3> QED
      BY <2>1, <3>1, <3>2, <3>3, IngestEffect
  <2>4. Batch!Cleared(p)' = Batch!Cleared(p)
    BY <2>1 DEF Batch!Cleared, Batch!NamesOf
  <2> QED
    BY <1>0, <2>1, <2>2, <2>3, <2>4 DEF DeletionKnows, Batch!NamesOf
<1>2. CASE BatchStep
  <2>1. /\ rows' \subseteq rows
        /\ \A f \in Files : validated[f] = None => validated'[f] = None
    BY <1>2, BatchKinds DEF QuietStep, DeletionBegins, RequestStops, RowsRemoved, BlobTaken,
       TypeOK, BlobMap
  <2>2. Batch!Cleared(p) \subseteq Files
    BY DEF Batch!Cleared, BatchTypes, Batch!RequestType, Batch!RowType, Batch!NamesOf
  <2>3. CASE breq'[p] = breq[p]
    BY <1>0, <2>1, <2>2, <2>3 DEF DeletionKnows, Batch!Cleared, Batch!NamesOf
  <2>4. CASE DeletionBegins(p)
    <3>1. ASSUME NEW x \in rows', x.name \in Batch!NamesOf(breq'[p].rows)
          PROVE  x \in breq'[p].rows
      BY <2>1, <2>4, <3>1 DEF DeletionBegins, Batch!NamesOf, UniqueRow
    <3>2. Batch!Cleared(p)' = {}
      BY <2>4 DEF DeletionBegins, Batch!Cleared, Batch!NamesOf
    <3> QED
      BY <3>1, <3>2 DEF DeletionKnows, Batch!NamesOf
  <2>5. ASSUME NEW f \in Files, BlobTaken(p, f) PROVE DeletionKnows(p)'
    <3>1. \A g \in Batch!Cleared(p)' : g = f \/ g \in Batch!Cleared(p)
      BY <2>5 DEF BlobTaken, Batch!Cleared, Batch!NamesOf
    <3>2. ~breq'[p].error => ~breq[p].error /\ validated'[f] = None
      BY <2>5 DEF BlobTaken, TypeOK, BlobMap
    <3>3. /\ \A x \in rows' : x.name \in Batch!NamesOf(breq'[p].rows)
                              => x \in breq'[p].rows \/ x.name \in met'
      BY <1>0, <2>5 DEF BlobTaken, DeletionKnows, Batch!NamesOf
    <3>4. ~breq'[p].error => \A g \in Batch!Cleared(p)' : validated'[g] = None \/ g \in met'
      BY <1>0, <2>1, <2>2, <2>5, <3>1, <3>2 DEF BlobTaken, DeletionKnows
    <3> QED
      BY <3>3, <3>4 DEF DeletionKnows, Batch!NamesOf
  <2>6. \/ breq'[p] = breq[p] \/ DeletionBegins(p) \/ \E f \in Files : BlobTaken(p, f)
    BY <1>2, BatchKinds DEF QuietStep, DeletionBegins, RequestStops, RowsRemoved, BlobTaken,
       OnlySlot
  <2> QED
    BY <2>3, <2>4, <2>5, <2>6
<1> QED
  BY <1>1, <1>2 DEF LifecycleNext

\* A validation finds its blobs where it left them, and its row, unless a
\* deletion met it.
LEMMA ValidationStep ==
  ASSUME TypeOK, TypeOK', BatchTypes, Meetings, Validations, LifecycleNext
  PROVE  Validations'
<1>0. met \subseteq met'
  BY MeetingStep
<1>1. CASE BatchStep
  <2> SUFFICES ASSUME NEW r \in Requests PROVE ValidationKnows(r)'
    BY DEF Validations
  <2> DEFINE f == req[r].file
  <2>1. req' = req /\ raw' = raw /\ ValidationKnows(r)
    BY <1>1 DEF BatchStep, ingestOnly, Validations
  <2>2. CASE req[r].pc = "done"
    BY <2>1, <2>2 DEF ValidationKnows, Inserting, PastWrite
  <2>3. CASE req[r].pc # "done"
    <3>1. f \in Files
      BY <2>3 DEF TypeOK
    <3>2. HasRow(f) => HasRow(f)' \/ f \in met
      <4>1. ASSUME NEW q \in BatchRequests, RowsRemoved(q), HasRow(f), ~HasRow(f)'
            PROVE  f \in met
        <5>1. PICK x \in rows : x.name = f /\ x \notin rows'
          BY <2>1, <4>1 DEF HasRow
        <5>2. f \in Batch!NamesOf(breq[q].rows)
          BY <4>1, <5>1 DEF RowsRemoved, Batch!NamesOf
        <5> QED
          BY <2>3, <3>1, <4>1, <5>2, MeetsDeletion DEF RowsRemoved
      <4>2. (\E q \in BatchRequests : RowsRemoved(q)) \/ UNCHANGED rows
        BY <1>1, BatchKinds DEF QuietStep, DeletionBegins, RequestStops, BlobTaken
      <4>3. UNCHANGED rows /\ HasRow(f) => HasRow(f)'
        BY <2>1 DEF HasRow
      <4> QED
        BY <4>1, <4>2, <4>3
    <3>3. validated[f] # None => validated'[f] # None \/ f \in met
      <4>1. ASSUME NEW q \in BatchRequests, BlobTaken(q, f) PROVE f \in met
        <5>1. f \in Batch!NamesOf(breq[q].rows)
          BY <4>1 DEF BlobTaken, BatchTypes
        <5> QED
          BY <2>3, <3>1, <4>1, <5>1, MeetsDeletion DEF BlobTaken
      <4>2. UNCHANGED validated
              \/ \E q \in BatchRequests : \E g \in Files :
                   BlobTaken(q, g) /\ \A h \in Files : h # g => validated'[h] = validated[h]
        BY <1>1, BatchKinds DEF QuietStep, DeletionBegins, RequestStops, RowsRemoved,
           BlobTaken, TypeOK, BlobMap
      <4> QED
        BY <3>1, <4>1, <4>2
    <3> HIDE DEF f
    <3> QED
      BY <1>0, <2>1, <3>1, <3>2, <3>3 DEF ValidationKnows, Inserting, f
  <2> QED
    BY <2>2, <2>3
<1>2. CASE IngestStep
  <2>0. Next
    BY <1>2 DEF IngestStep
  <2>1. ASSUME NEW q \in Requests, req'[q] = req[q] PROVE ValidationKnows(q)'
    <3>1. ValidationKnows(q)
      BY DEF Validations
    <3>2. CASE req[q].pc = "done"
      BY <2>1, <3>1, <3>2 DEF ValidationKnows, Inserting, PastWrite
    <3>3. CASE req[q].pc # "done"
      <4>1. PICK f \in Files : f = req[q].file
        BY <3>3 DEF TypeOK
      <4>2. /\ raw[f] # None => raw'[f] # None
            /\ validated[f] # None => validated'[f] # None
            /\ HasRow(f) => HasRow(f)'
        BY <2>0, IngestEffect
      <4>3. HasRow(req[q].file)' <=> HasRow(f)'
        BY <2>1, <4>1 DEF HasRow
      <4> QED
        BY <1>0, <2>1, <3>1, <4>1, <4>2, <4>3 DEF ValidationKnows, Inserting
    <3> QED
      BY <3>2, <3>3
  <2>2. ASSUME NEW r \in Requests, req'[r].pc = "done", req'[r].row = None, ~req'[r].known
        PROVE  ValidationKnows(r)'
    BY <2>2 DEF ValidationKnows, Inserting, PastWrite
  <2>3. Idle.pc = "done" /\ Idle.row = None /\ ~Idle.known
    BY DEF Idle
  <2>4. ASSUME NEW r \in Requests, Advance(r) \/ Fail(r) PROVE ValidationKnows(r)'
    <3>0. req[r].pc # "done"
      BY <2>4 DEF Advance, RecordRow, GrantUploadUrl, ValidateStaged, CheckNotValidated,
         ArchiveRaw, WriteValidated, DeleteStaged, FindRow, InsertRow, CheckBatch,
         TriggerSync, Commit, Fail
    <3>1. PICK f \in Files : f = req[r].file
      BY <3>0 DEF TypeOK
    <3>2. /\ req[r].known => HasRow(f) \/ f \in met
          /\ Inserting(r) => req[r].pc \in {"recorded", "checked"}
          /\ req[r].pc \in {"recorded", "checked"} => HasRow(f) \/ Inserting(r) \/ f \in met
          /\ req[r].pc \in PastWrite \cup {"archived"} => raw[f] # None
          /\ req[r].pc \in PastWrite => validated[f] # None \/ f \in met
      BY <3>1 DEF Validations, ValidationKnows
    <3>3. /\ raw[f] # None => raw'[f] # None
          /\ validated[f] # None => validated'[f] # None
          /\ HasRow(f) => HasRow(f)'
      BY <2>0, IngestEffect
    <3>4. ASSUME Abort(r) PROVE ValidationKnows(r)'
      BY <2>2, <2>3, <3>4, SetSlot DEF Abort
    <3>5. ASSUME req'[r].file = f,
                 req'[r].pc # "done",
                 req'[r].known => req[r].known,
                 Inserting(r)' => req'[r].pc \in {"recorded", "checked"},
                 req'[r].pc \in {"recorded", "checked"}
                   => HasRow(f)' \/ Inserting(r)' \/ f \in met',
                 req'[r].pc \in PastWrite \cup {"archived"} => raw'[f] # None,
                 req'[r].pc \in PastWrite => validated'[f] # None \/ f \in met'
          PROVE  ValidationKnows(r)'
      <4>1. HasRow(req[r].file)' <=> HasRow(f)'
        BY <3>5 DEF HasRow
      <4> QED
        BY <1>0, <3>2, <3>3, <3>5, <4>1 DEF ValidationKnows, Inserting
    <3>6. CASE ValidateStaged(r)
      <4>1. CASE ~Abort(r)
        BY <3>1, <3>2, <3>3, <3>5, <3>6, <4>1
           DEF ValidateStaged, TypeOK, RequestType, Inserting, PastWrite
      <4> QED
        BY <3>4, <4>1
    <3>7. CASE CheckNotValidated(r)
      <4>1. CASE ~Abort(r)
        BY <3>1, <3>2, <3>5, <3>7, <4>1, MoveSlot
           DEF CheckNotValidated, Inserting, PastWrite
      <4> QED
        BY <3>4, <4>1
    <3>8. CASE ArchiveRaw(r)
      <4>1. CASE ~Abort(r)
        <5>1. req[r].pc = "cleared" /\ req' = [req EXCEPT ![r].pc = "archived"] /\ raw'[f] # None
          BY <3>1, <3>8, <4>1 DEF ArchiveRaw, TypeOK, BlobMap
        <5> QED
          BY <3>1, <3>2, <3>5, <5>1, MoveSlot DEF Inserting, PastWrite
      <4> QED
        BY <3>4, <4>1
    <3>9. CASE WriteValidated(r)
      <4>1. validated'[f] # None
        BY <3>1, <3>9, IngestAssumption
           DEF WriteValidated, TypeOK, BlobMap, Holding, NormalizedUploads
      <4> QED
        BY <3>1, <3>2, <3>3, <3>5, <3>9, <4>1
           DEF WriteValidated, TypeOK, RequestType, Inserting, PastWrite
    <3>10. CASE DeleteStaged(r) \/ CheckBatch(r)
      <4>1. CASE ~Abort(r)
        BY <1>0, <3>1, <3>2, <3>3, <3>5, <3>10, <4>1, MoveSlot
           DEF DeleteStaged, CheckBatch, Inserting, PastWrite
      <4> QED
        BY <3>4, <4>1
    <3>11. CASE FindRow(r)
      BY <1>0, <3>1, <3>2, <3>3, <3>5, <3>11
         DEF FindRow, TypeOK, RequestType, Inserting, PastWrite
    <3>12. CASE InsertRow(r)
      <4>1. HasRow(f) \/ Inserting(r)'
        BY <3>1, <3>12, InsertEffect DEF Inserting
      <4> QED
        BY <1>0, <3>1, <3>2, <3>3, <3>5, <3>12, <4>1, InsertEffect DEF PastWrite, Inserting
    <3>13. CASE TriggerSync(r)
      BY <1>0, <3>1, <3>2, <3>3, <3>5, <3>13
         DEF TriggerSync, TypeOK, RequestType, Inserting, PastWrite
    <3>14. CASE Commit(r)
      <4>1. req'[r].pc = "done" /\ req'[r].row = None /\ ~req'[r].known
        BY <3>14 DEF Commit, Answer, Idle, TypeOK
      <4> QED
        BY <2>2, <4>1
    <3>15. CASE GrantUploadUrl(r)
      BY <2>2, <2>3, <3>15, SetSlot DEF GrantUploadUrl
    <3> QED
      BY <2>4, <3>4, <3>6, <3>7, <3>8, <3>9, <3>10, <3>11, <3>12, <3>13, <3>14, <3>15
         DEF Advance, RecordRow, Fail
  <2>5. ASSUME NEW r \in Requests, NEW f \in Files, NEW b \in BOOLEAN, StartValidation(r, f, b)
        PROVE  ValidationKnows(r)'
    <3>1. /\ req'[r].pc = "started" /\ req'[r].file = f /\ req'[r].known = HasRow(f)
          /\ req'[r].row = None /\ rows' = rows
      BY <2>5 DEF StartValidation, Idle, TypeOK
    <3> QED
      BY <3>1 DEF ValidationKnows, Inserting, PastWrite, HasRow
  <2>6. ASSUME NEW r \in Requests, NEW f \in Files, AskUploadUrl(r, f)
        PROVE  ValidationKnows(r)'
    <3>1. req'[r].pc = "url_asked" /\ req'[r].row = None /\ ~req'[r].known
      BY <2>6 DEF AskUploadUrl, Idle, TypeOK
    <3> QED
      BY <3>1 DEF ValidationKnows, Inserting, PastWrite
  <2>7. \/ UNCHANGED req
        \/ \E r \in Requests :
             /\ ValidationKnows(r)'
             /\ \A q \in Requests \ {r} : req'[q] = req[q]
    <3>1. \/ \E r \in Requests : Advance(r) \/ Fail(r)
          \/ \E r \in Requests, f \in Files :
               AskUploadUrl(r, f) \/ \E b \in BOOLEAN : StartValidation(r, f, b)
          \/ UNCHANGED req
      BY <2>0 DEF Next, Put, ExpireUrl, ExpireStaged
    <3>2. ASSUME NEW r \in Requests, Advance(r) \/ Fail(r)
          PROVE  \A q \in Requests \ {r} : req'[q] = req[q]
      BY <3>2 DEF Advance, RecordRow, GrantUploadUrl, ValidateStaged, CheckNotValidated,
         ArchiveRaw, WriteValidated, DeleteStaged, FindRow, InsertRow, CheckBatch,
         TriggerSync, Commit, Fail, Abort, Answer, TypeOK
    <3>3. ASSUME NEW r \in Requests, NEW f \in Files,
                 AskUploadUrl(r, f) \/ \E b \in BOOLEAN : StartValidation(r, f, b)
          PROVE  \A q \in Requests \ {r} : req'[q] = req[q]
      BY <3>3 DEF AskUploadUrl, StartValidation, TypeOK
    <3> QED
      BY <2>4, <2>5, <2>6, <3>1, <3>2, <3>3
  <2> QED
    BY <2>1, <2>7 DEF Validations
<1> QED
  BY <1>1, <1>2 DEF LifecycleNext

\* A batch deletion only removes rows, so names stay unique.
LEMMA LifecycleUnique ==
  ASSUME TypeOK, TypeOK', BatchTypes, UniqueRow, Validations, LifecycleNext
  PROVE  UniqueRow'
<1>1. CASE IngestStep
  <2>1. \A r \in Requests : Inserting(r) => req[r].pc \in {"recorded", "checked"}
    BY DEF Validations, ValidationKnows
  <2> QED
    BY <1>1, <2>1, UniqueStep DEF IngestStep
<1>2. CASE BatchStep
  <2>1. rows' \subseteq rows
    BY <1>2, BatchKinds DEF QuietStep, DeletionBegins, RequestStops, RowsRemoved, BlobTaken
  <2>2. req' = req
    BY <1>2 DEF BatchStep, ingestOnly
  <2> QED
    BY <2>1, <2>2 DEF UniqueRow, Inserting, HasRow
<1> QED
  BY <1>1, <1>2 DEF LifecycleNext

\* A validated blob stays in somebody's hands: a request gives it up only by
\* failing or committing, a deletion removes its row only after taking it.
LEMMA BlobsStep ==
  ASSUME TypeOK, BatchTypes, Meetings, Deletions, Validations, BlobsHeld, LifecycleNext
  PROVE  BlobsHeld'
<1>0. met \subseteq met'
  BY MeetingStep
<1>1. SUFFICES ASSUME NEW f \in Files, validated'[f] # None
               PROVE  /\ raw'[f] # None
                      /\ \/ HasRow(f)' \/ f \in aborted' \cup met'
                         \/ \E r \in Requests : req'[r].file = f /\ req'[r].pc \in PastWrite
  BY DEF BlobsHeld
<1>2. CASE IngestStep
  <2>0. Next
    BY <1>2 DEF IngestStep
  <2>1. CASE validated[f] # None
    <3>1. raw'[f] # None
      BY <2>0, <2>1, IngestEffect DEF BlobsHeld
    <3>2. HasRow(f) \/ f \in aborted \cup met => HasRow(f)' \/ f \in aborted' \cup met'
      BY <1>0, <2>0, IngestEffect
    <3>3. ASSUME NEW r \in Requests, req[r].file = f, req[r].pc \in PastWrite
          PROVE  \/ HasRow(f)' \/ f \in aborted' \cup met'
                 \/ req'[r].file = f /\ req'[r].pc \in PastWrite
      <4>1. CASE req[r].pc = "checked" /\ (Inserting(r) => HasRow(f)')
        <5>1. HasRow(f) \/ Inserting(r) \/ f \in met
          BY <3>3, <4>1 DEF Validations, ValidationKnows
        <5> QED
          BY <1>0, <2>0, <4>1, <5>1, IngestEffect
      <4> QED
        BY <2>0, <3>3, <4>1, HolderStep
    <3> QED
      BY <2>1, <3>1, <3>2, <3>3 DEF BlobsHeld
  <2>2. CASE validated[f] = None
    <3>1. PICK r \in Requests : /\ req[r].file = f /\ req'[r].file = f
                                /\ req[r].pc = "archived" /\ req'[r].pc = "written"
      BY <1>1, <2>0, <2>2, IngestEffect
    <3>2. raw'[f] # None
      BY <2>0, <3>1, IngestEffect DEF Validations, ValidationKnows
    <3> QED
      BY <3>1, <3>2 DEF PastWrite
  <2> QED
    BY <2>1, <2>2
<1>3. CASE BatchStep
  <2>1. UNCHANGED <<raw, req, aborted>>
    BY <1>3 DEF BatchStep, ingestOnly
  <2>2. validated[f] # None
    BY <1>1, <1>3, BatchKinds DEF QuietStep, DeletionBegins, RequestStops, RowsRemoved,
       BlobTaken, TypeOK, BlobMap
  <2>3. HasRow(f) => HasRow(f)' \/ f \in met
    <3>1. CASE UNCHANGED rows
      BY <3>1 DEF HasRow
    <3>2. ASSUME NEW q \in BatchRequests, RowsRemoved(q), HasRow(f), ~HasRow(f)'
          PROVE  f \in met
      <4>1. PICK x \in rows : x.name = f /\ x \notin rows'
        BY <3>2 DEF HasRow
      <4>2. f \in Batch!Cleared(q)
        BY <3>2, <4>1 DEF RowsRemoved, Batch!Cleared, Batch!NamesOf
      <4> QED
        BY <2>2, <3>2, <4>2 DEF RowsRemoved, Deletions, DeletionKnows
    <3>3. UNCHANGED rows \/ \E q \in BatchRequests : RowsRemoved(q)
      BY <1>3, BatchKinds DEF QuietStep, DeletionBegins, RequestStops, BlobTaken
    <3> QED
      BY <3>1, <3>2, <3>3
  <2> QED
    BY <1>0, <2>1, <2>2, <2>3 DEF BlobsHeld
<1> QED
  BY <1>2, <1>3 DEF LifecycleNext

\* A listed file loses its blob only to a deletion that has it, fails on it,
\* removes its row, or met a validation of it.
LEMMA ListedStep ==
  ASSUME TypeOK, BatchTypes, Meetings, Deletions, Validations, ListedBacked, LifecycleNext
  PROVE  ListedBacked'
<1>0. met \subseteq met'
  BY MeetingStep
<1>1. SUFFICES ASSUME NEW x \in rows'
               PROVE  /\ raw'[x.name] # None
                      /\ \/ validated'[x.name] # None
                         \/ x.name \in lost' \cup met'
                         \/ \E q \in BatchRequests : x.name \in Batch!Cleared(q)'
  BY DEF ListedBacked, Batch!Cleared, Batch!NamesOf
<1>2. CASE IngestStep
  <2>0. Next /\ breq' = breq
    BY <1>2 DEF IngestStep, batchOnly
  <2>1. CASE x \in rows
    <3>1. x.name \in Files
      BY <2>1 DEF TypeOK
    <3>2. raw'[x.name] # None
      BY <2>0, <2>1, <3>1, IngestEffect DEF ListedBacked
    <3>3. validated[x.name] # None => validated'[x.name] # None
      BY <2>0, <3>1, IngestEffect
    <3>4. x.name \in lost => x.name \in lost' \/ validated'[x.name] # None
      BY <1>2, <3>3 DEF IngestStep
    <3>5. \A q \in BatchRequests : Batch!Cleared(q)' = Batch!Cleared(q)
      BY <2>0 DEF Batch!Cleared, Batch!NamesOf
    <3> QED
      BY <1>0, <2>1, <3>2, <3>3, <3>4, <3>5 DEF ListedBacked
  <2>2. ASSUME NEW r \in Requests, req[r].file = x.name, req[r].pc = "checked"
        PROVE  raw'[x.name] # None /\ (validated'[x.name] # None \/ x.name \in met)
    <3>1. x.name \in Files
      BY <2>2 DEF TypeOK
    <3>2. raw[x.name] # None /\ (validated[x.name] # None \/ x.name \in met)
      BY <2>2 DEF Validations, ValidationKnows, PastWrite
    <3> QED
      BY <2>0, <3>1, <3>2, IngestEffect
  <2> QED
    BY <1>0, <2>0, <2>1, <2>2, IngestEffect
<1>3. CASE BatchStep
  <2>0. raw' = raw
    BY <1>3 DEF BatchStep, ingestOnly
  <2>1. rows' \subseteq rows
    BY <1>3, BatchKinds DEF QuietStep, DeletionBegins, RequestStops, RowsRemoved, BlobTaken
  <2>2. x.name \in Files /\ raw'[x.name] # None
    BY <2>0, <2>1 DEF ListedBacked, TypeOK
  <2>3. lost \subseteq lost'
    BY <1>3, BatchKinds DEF QuietStep, DeletionBegins, RequestStops, RowsRemoved, BlobTaken
  <2>4. CASE validated[x.name] # None
    <3>1. ASSUME NEW q \in BatchRequests, BlobTaken(q, x.name)
          PROVE  x.name \in Batch!Cleared(q)'
      BY <3>1 DEF BlobTaken, Batch!Cleared, BatchTypes, Batch!NamesOf
    <3>2. \/ validated'[x.name] # None
          \/ \E q \in BatchRequests : BlobTaken(q, x.name)
      BY <1>3, <2>2, <2>4, BatchKinds DEF QuietStep, DeletionBegins, RequestStops,
         RowsRemoved, BlobTaken, TypeOK, BlobMap
    <3> QED
      BY <2>2, <3>1, <3>2
  <2>5. ASSUME NEW q \in BatchRequests, x.name \in Batch!Cleared(q)
        PROVE  x.name \in lost' \cup met \cup Batch!Cleared(q)'
    <3>1. breq[q].pc = "deleting"
      BY <2>5 DEF Batch!Cleared
    <3>2. CASE breq'[q] = breq[q]
      BY <2>5, <3>2 DEF Batch!Cleared, Batch!NamesOf
    <3>3. CASE RequestStops(q)
      BY <2>5, <3>3 DEF RequestStops
    <3>4. CASE RowsRemoved(q)
      <4>1. x.name \in Batch!NamesOf(breq[q].rows) /\ x \notin breq[q].rows
        BY <2>5, <3>4 DEF RowsRemoved, Batch!Cleared
      <4> QED
        BY <2>1, <3>1, <4>1 DEF Deletions, DeletionKnows
    <3>5. CASE \E f \in Files : BlobTaken(q, f)
      BY <2>5, <3>5 DEF BlobTaken, Batch!Cleared, Batch!NamesOf
    <3>6. \/ breq'[q] = breq[q] \/ RequestStops(q) \/ RowsRemoved(q)
          \/ \E f \in Files : BlobTaken(q, f)
      BY <1>3, <3>1, BatchKinds DEF QuietStep, DeletionBegins, RequestStops, RowsRemoved,
         BlobTaken, OnlySlot
    <3> QED
      BY <3>2, <3>3, <3>4, <3>5, <3>6
  <2> QED
    BY <1>0, <2>1, <2>2, <2>3, <2>4, <2>5 DEF ListedBacked
<1> QED
  BY <1>2, <1>3 DEF LifecycleNext

\* Every step of uploads, validations and batches preserves the invariant.
LEMMA LifecycleStep ==
  ASSUME LifecycleInv, [LifecycleNext]_lifecycleVars PROVE LifecycleInv'
<1>1. CASE LifecycleNext
  <2>1. TypeOK'
    BY <1>1, TypeStep, BatchTypeOK DEF LifecycleInv, LifecycleNext, IngestStep
  <2>2. Meetings /\ Deletions /\ Validations
    BY DEF LifecycleInv, Meetings, Deletions, Validations
  <2>3. BatchTypes'
    BY <1>1, BatchTypesStep DEF LifecycleInv
  <2>4. Meetings' /\ Deletions' /\ Validations'
    BY <1>1, <2>1, <2>2, <2>3, MeetingStep, DeletionStep, ValidationStep DEF LifecycleInv
  <2>5. UniqueRow' /\ BlobsHeld' /\ ListedBacked'
    BY <1>1, <2>1, <2>2, LifecycleUnique, BlobsStep, ListedStep DEF LifecycleInv
  <2> QED
    BY <2>1, <2>3, <2>4, <2>5 DEF LifecycleInv, Meetings, Deletions, Validations
<1>2. CASE UNCHANGED lifecycleVars
  BY <1>2 DEF lifecycleVars, vars, batchOnly, LifecycleInv, TypeOK, BatchTypes, UniqueRow,
     Meeting, DeletionKnows, ValidationKnows, BlobsHeld, ListedBacked, HasRow, Inserting,
     Batch!Cleared, Batch!NamesOf, Batch!RequestType, Batch!RowType
<1> QED
  BY <1>1, <1>2

\* Empty tables and an empty bucket satisfy it.
LEMMA LifecycleStart == ASSUME LifecycleInit PROVE LifecycleInv
<1>1. TypeOK /\ UniqueRow
  BY IngestInit DEF LifecycleInit, IngestInv
<1>2. Batch!Idle \in Batch!RequestType /\ Batch!Idle.pc = "done" /\ Batch!Idle.left = {}
  BY DEF Batch!Idle, Batch!RequestType
<1>3. BatchTypes
  BY <1>2 DEF LifecycleInit, Batch!Init, BatchTypes
<1>4. \A q \in BatchRequests : breq[q].pc = "done"
  BY <1>2 DEF LifecycleInit, Batch!Init
<1>5. \A r \in Requests : req[r] = Idle
  BY DEF LifecycleInit, Init
<1>6. \A f \in Files : validated[f] = None
  BY DEF LifecycleInit, Init
<1>7. rows = {}
  BY DEF LifecycleInit, Init
<1> QED
  BY <1>1, <1>3, <1>4, <1>5, <1>6, <1>7 DEF LifecycleInv, Meeting, DeletionKnows,
     ValidationKnows, BlobsHeld, ListedBacked, Idle, Inserting, PastWrite

\* The inductive invariant of uploads next to batch deletions.
THEOREM LifecycleInvariance == LifecycleSpec => []LifecycleInv
<1>1. LifecycleInit => LifecycleInv
  BY LifecycleStart
<1>2. LifecycleInv /\ [LifecycleNext]_lifecycleVars => LifecycleInv'
  BY LifecycleStep
<1> QED
  BY <1>1, <1>2, PTL DEF LifecycleSpec

\* A file name keeps at most one row, although deletions remove rows that a
\* running validation has in its snapshot (validation_helper, delete_batch).
THEOREM RowsStayUnique == LifecycleSpec => []UniqueRow
<1>1. LifecycleInv => UniqueRow
  BY DEF LifecycleInv
<1> QED
  BY <1>1, LifecycleInvariance, PTL

\* A listed file has its original, and its validated blob unless a deletion has
\* it, failed on it, or met a second validation of the file (delete_batch).
THEOREM ListedFilesBacked == LifecycleSpec => []ListedBacked
<1>1. LifecycleInv => ListedBacked
  BY DEF LifecycleInv
<1> QED
  BY <1>1, LifecycleInvariance, PTL

\* A validated blob without a row comes from a failed request, or from a
\* validation that a deletion met (validation_helper, delete_batch).
THEOREM OrphansAreTraced == LifecycleSpec => []OrphanTraced
<1>1. LifecycleInv => OrphanTraced
  BY DEF LifecycleInv, BlobsHeld, OrphanTraced, Orphan
<1> QED
  BY <1>1, LifecycleInvariance, PTL
=============================================================================
