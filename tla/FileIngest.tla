----------------------------- MODULE FileIngest -----------------------------
(***************************************************************************)
(* Upload and validation of input files for one institution: the signed    *)
(* upload URL, the client's PUT, the one-day lifecycle rule on             *)
(* unvalidated/, and the validate-upload / validate-sftp request, which    *)
(* moves a file through the bucket in several separate storage calls and   *)
(* then records it in the file table.  Requests run concurrently in the    *)
(* server's thread pool; each action below is one storage call or one      *)
(* database statement of one request.                                      *)
(***************************************************************************)
EXTENDS Naturals, FiniteSets

CONSTANTS
  Files,        \* blob names (without prefix) in the institution's bucket
  Requests,     \* request slots of the server
  Uploads,      \* distinct contents a client may PUT
  GoodUploads,  \* the contents that pass validation for their file name
  RowIds,       \* primary keys uuid4() may produce for file rows
  SyncApplies,  \* bronze sync is configured and the school type takes part
  None

\* What validation writes to validated/: not the upload, but its columns
\* renamed and its values coerced; known by the upload it was made from.
Normalized(c) == [madeFrom |-> c]
NormalizedUploads == {Normalized(c) : c \in GoodUploads}

ASSUME IngestAssumption ==
  /\ GoodUploads \subseteq Uploads
  /\ None \notin Uploads \cup NormalizedUploads \cup Files \cup RowIds
  /\ SyncApplies \in BOOLEAN

VARIABLES
  unvalidated,  \* file -> content staged under unvalidated/
  raw,          \* file -> archived original under raw/
  validated,    \* file -> normalized copy under validated/
  urls,         \* files with an upload URL that has not expired
  rows,         \* committed rows of the file table: [name, id]
  req,          \* request slot -> its progress
  syncs,        \* files a bronze sync was started for
  uploaded,     \* history: file -> contents ever PUT
  aborted       \* history: files of a request that failed after writing validated/

bucketVars == <<unvalidated, raw, validated>>
vars == <<unvalidated, raw, validated, urls, rows, req, syncs, uploaded,
          aborted>>

-----------------------------------------------------------------------------
(* Requests *)

Idle == [pc |-> "done", file |-> None, upload |-> None, known |-> FALSE,
         batch |-> FALSE, row |-> None, result |-> "none"]

\* After WriteValidated a failing request leaves a validated blob behind.
PastWrite == {"written", "stored", "recorded", "checked"}
Holding == {"normalized", "cleared", "archived"}  \* has the normalized copy
PCs == {"done", "url_asked", "started"} \cup Holding \cup PastWrite

\* The request's transaction holds an inserted, uncommitted row.
Inserting(r) == req[r].row # None

HasRow(f) == \E x \in rows : x.name = f

\* uuid4() draws a key no row has.
FreshIds == RowIds \ ({x.id : x \in rows} \cup {req[r].row : r \in Requests})

\* Answer 200 with what became of the row (kept for ReportHonest).
Answer(r) ==
  req' = [req EXCEPT ![r] = [Idle EXCEPT !.file = req[r].file,
                                         !.result = req[r].result]]

\* An exception leaves the handler: get_session rolls the transaction back.
Abort(r) ==
  /\ req' = [req EXCEPT ![r] = Idle]
  /\ aborted' = IF req[r].pc \in PastWrite THEN aborted \cup {req[r].file}
                                           ELSE aborted

-----------------------------------------------------------------------------
(* get_upload_url: two existence checks, then a URL usable for 30 minutes   *)

AskUploadUrl(r, f) ==
  /\ req[r].pc = "done"
  /\ unvalidated[f] = None
  /\ req' = [req EXCEPT ![r] = [Idle EXCEPT !.pc = "url_asked", !.file = f]]
  /\ UNCHANGED <<bucketVars, urls, rows, syncs, uploaded, aborted>>

GrantUploadUrl(r) ==
  /\ req[r].pc = "url_asked"
  /\ IF validated[req[r].file] = None
     THEN urls' = urls \cup {req[r].file}
     ELSE UNCHANGED urls
  /\ req' = [req EXCEPT ![r] = Idle]
  /\ UNCHANGED <<bucketVars, rows, syncs, uploaded, aborted>>

\* The client sends the file to the signed URL; nothing stops it from doing
\* so again before the URL expires, and a PUT replaces the blob.
Put(f, c) ==
  /\ f \in urls
  /\ unvalidated' = [unvalidated EXCEPT ![f] = c]
  /\ uploaded' = [uploaded EXCEPT ![f] = @ \cup {c}]
  /\ UNCHANGED <<raw, validated, urls, rows, req, syncs, aborted>>

ExpireUrl(f) ==
  /\ f \in urls
  /\ urls' = urls \ {f}
  /\ UNCHANGED <<bucketVars, rows, req, syncs, uploaded, aborted>>

\* The bucket's lifecycle rule: unvalidated/ is emptied after a day.
ExpireStaged(f) ==
  /\ unvalidated[f] # None
  /\ unvalidated' = [unvalidated EXCEPT ![f] = None]
  /\ UNCHANGED <<raw, validated, urls, rows, req, syncs, uploaded, aborted>>

-----------------------------------------------------------------------------
(* validation_helper *)

\* The first SELECT fixes the transaction's snapshot (REPEATABLE READ): what
\* the later look-up of the file row sees is decided here.
StartValidation(r, f, b) ==
  /\ req[r].pc = "done"
  /\ req' = [req EXCEPT ![r] = [Idle EXCEPT !.pc = "started", !.file = f,
                                            !.known = HasRow(f), !.batch = b]]
  /\ UNCHANGED <<bucketVars, urls, rows, syncs, uploaded, aborted>>

\* StorageControl.validate_file downloads the staged blob once and validates
\* the copy; a missing blob or a HardValidationError is a 400.
ValidateStaged(r) ==
  LET c == unvalidated[req[r].file] IN
  /\ req[r].pc = "started"
  /\ IF c \in GoodUploads
     THEN /\ req' = [req EXCEPT ![r].pc = "normalized", ![r].upload = c]
          /\ UNCHANGED aborted
     ELSE Abort(r)
  /\ UNCHANGED <<bucketVars, urls, rows, syncs, uploaded>>

\* Fault: validated/ is not looked at.
CheckNotValidatedSkipped(r) ==
  /\ req[r].pc = "normalized"
  /\ req' = [req EXCEPT ![r].pc = "cleared"]
  /\ UNCHANGED <<bucketVars, urls, rows, syncs, uploaded, aborted>>

\* Fault: an existing validated blob is deleted to make room.
CheckNotValidatedMakesRoom(r) ==
  /\ req[r].pc = "normalized"
  /\ validated' = [validated EXCEPT ![req[r].file] = None]
  /\ req' = [req EXCEPT ![r].pc = "cleared"]
  /\ UNCHANGED <<unvalidated, raw, urls, rows, syncs, uploaded, aborted>>

CheckNotValidated(r) ==
  /\ req[r].pc = "normalized"
  /\ IF validated[req[r].file] = None
     THEN req' = [req EXCEPT ![r].pc = "cleared"] /\ UNCHANGED aborted
     ELSE Abort(r)
  /\ UNCHANGED <<bucketVars, urls, rows, syncs, uploaded>>

\* Fault: NotFound while archiving is ignored.
ArchiveRawLenient(r) ==
  LET f == req[r].file IN
  /\ req[r].pc = "cleared"
  /\ raw' = IF unvalidated[f] # None THEN [raw EXCEPT ![f] = unvalidated[f]] ELSE raw
  /\ req' = [req EXCEPT ![r].pc = "archived"]
  /\ UNCHANGED <<unvalidated, validated, urls, rows, syncs, uploaded, aborted>>

\* copy_blob copies whatever unvalidated/ holds now, or raises NotFound.
ArchiveRaw(r) ==
  LET f == req[r].file IN
  /\ req[r].pc = "cleared"
  /\ IF unvalidated[f] # None
     THEN /\ raw' = [raw EXCEPT ![f] = unvalidated[f]]
          /\ req' = [req EXCEPT ![r].pc = "archived"]
          /\ UNCHANGED aborted
     ELSE UNCHANGED raw /\ Abort(r)
  /\ UNCHANGED <<unvalidated, validated, urls, rows, syncs, uploaded>>

\* The upload replaces a blob of that name, if another request wrote one since.
WriteValidated(r) ==
  /\ req[r].pc = "archived"
  /\ validated' = [validated EXCEPT ![req[r].file] = Normalized(req[r].upload)]
  /\ req' = [req EXCEPT ![r].pc = "written", ![r].upload = None]
  /\ UNCHANGED <<unvalidated, raw, urls, rows, syncs, uploaded, aborted>>

\* Fault: the delete is retried until it succeeds.
DeleteStagedRetries(r) ==
  /\ req[r].pc = "written" /\ unvalidated[req[r].file] # None
  /\ unvalidated' = [unvalidated EXCEPT ![req[r].file] = None]
  /\ req' = [req EXCEPT ![r].pc = "stored"]
  /\ UNCHANGED <<raw, validated, urls, rows, syncs, uploaded, aborted>>

DeleteStaged(r) ==
  LET f == req[r].file IN
  /\ req[r].pc = "written"
  /\ IF unvalidated[f] # None
     THEN /\ unvalidated' = [unvalidated EXCEPT ![f] = None]
          /\ req' = [req EXCEPT ![r].pc = "stored"]
          /\ UNCHANGED aborted
     ELSE UNCHANGED unvalidated /\ Abort(r)
  /\ UNCHANGED <<raw, validated, urls, rows, syncs, uploaded>>

\* A row in the snapshot is taken as it is.
FindRow(r) ==
  /\ req[r].pc = "stored" /\ req[r].known
  /\ req' = [req EXCEPT ![r].pc = "recorded", ![r].result = "exists"]
  /\ UNCHANGED <<bucketVars, urls, rows, syncs, uploaded, aborted>>

\* Fault: the table has no unique constraint, so nothing waits.
NameNeverLocked(f) == FALSE

\* Another transaction holds an uncommitted row of that name.
NameLocked(f) == \E q \in Requests : Inserting(q) /\ req[q].file = f

\* Fault: a row another transaction has not committed yet counts as existing.
InsertRowNoWait(r) ==
  LET f == req[r].file IN
  /\ req[r].pc = "stored" /\ ~req[r].known
  /\ IF HasRow(f) \/ NameLocked(f)
     THEN req' = [req EXCEPT ![r].pc = "recorded", ![r].result = "already"]
     ELSE \E id \in FreshIds :
            req' = [req EXCEPT ![r].pc = "recorded",
                               ![r].result = "inserted", ![r].row = id]
  /\ UNCHANGED <<bucketVars, urls, rows, syncs, uploaded, aborted>>

\* add + flush.  The INSERT waits while the name is locked, and breaks
\* the unique constraint if a row of that name is committed: IntegrityError,
\* rollback, "Already exists".
InsertRow(r) ==
  LET f == req[r].file IN
  /\ req[r].pc = "stored" /\ ~req[r].known
  /\ ~NameLocked(f)
  /\ \/ /\ HasRow(f)
        /\ req' = [req EXCEPT ![r].pc = "recorded", ![r].result = "already"]
     \/ /\ ~HasRow(f)
        /\ \E id \in FreshIds :
             req' = [req EXCEPT ![r].pc = "recorded",
                                ![r].result = "inserted", ![r].row = id]
  /\ UNCHANGED <<bucketVars, urls, rows, syncs, uploaded, aborted>>

\* Rows leave only through batches, so while uploads and validations are all
\* there is, a listed file does not get here again; FileLifecycle's do.
RecordRow(r) == IF req[r].known THEN FindRow(r) ELSE InsertRow(r)

\* Fault: a bad batch id only rolls back and is not reported.
CheckBatchSwallows(r) ==
  /\ req[r].pc = "recorded"
  /\ \/ req' = [req EXCEPT ![r].pc = "checked"]
     \/ req[r].batch /\ req' = [req EXCEPT ![r].pc = "checked", ![r].row = None,
                                           ![r].result = "none"]
  /\ UNCHANGED <<bucketVars, urls, rows, syncs, uploaded, aborted>>

\* _load_batch_for_bronze_sync, only when the request names a batch: a batch
\* that is missing or marked deleted is an HTTPException.
CheckBatch(r) ==
  /\ req[r].pc = "recorded"
  /\ \/ req' = [req EXCEPT ![r].pc = "checked"] /\ UNCHANGED aborted
     \/ req[r].batch /\ Abort(r)
  /\ UNCHANGED <<bucketVars, urls, rows, syncs, uploaded>>

\* Fault: the sync is started as soon as the upload passed validation.
TriggerSyncEarly(r) ==
  /\ req[r].pc \in {"normalized", "checked"} /\ req[r].batch /\ SyncApplies
  /\ syncs' = syncs \cup {req[r].file}
  /\ req' = [req EXCEPT ![r].batch = FALSE]
  /\ UNCHANGED <<bucketVars, urls, rows, uploaded, aborted>>

\* _trigger_gcs_bronze_sync_if_applicable swallows every failure of the run.
TriggerSync(r) ==
  /\ req[r].pc = "checked" /\ req[r].batch /\ SyncApplies
  /\ \/ syncs' = syncs \cup {req[r].file}
     \/ UNCHANGED syncs
  /\ req' = [req EXCEPT ![r].batch = FALSE]
  /\ UNCHANGED <<bucketVars, urls, rows, uploaded, aborted>>

\* Fault: the session is closed without a commit.
CommitForgotten(r) ==
  /\ req[r].pc = "checked" /\ ~(req[r].batch /\ SyncApplies)
  /\ Answer(r)
  /\ UNCHANGED <<bucketVars, urls, rows, syncs, uploaded, aborted>>

\* The handler returned: get_session commits, then the response is sent.
Commit(r) ==
  /\ req[r].pc = "checked" /\ ~(req[r].batch /\ SyncApplies)
  /\ rows' = IF Inserting(r) THEN rows \cup {[name |-> req[r].file, id |-> req[r].row]}
                             ELSE rows
  /\ Answer(r)
  /\ UNCHANGED <<bucketVars, urls, syncs, uploaded, aborted>>

\* The instance stops, or a storage or database call raises.
Fail(r) ==
  /\ req[r].pc # "done"
  /\ Abort(r)
  /\ UNCHANGED <<bucketVars, urls, rows, syncs, uploaded>>

-----------------------------------------------------------------------------

Init ==
  /\ unvalidated = [f \in Files |-> None]
  /\ raw = [f \in Files |-> None]
  /\ validated = [f \in Files |-> None]
  /\ urls = {}
  /\ rows = {}
  /\ req = [r \in Requests |-> Idle]
  /\ syncs = {}
  /\ uploaded = [f \in Files |-> {}]
  /\ aborted = {}

\* What the server does next for a request that has begun.
Advance(r) ==
  \/ GrantUploadUrl(r)
  \/ ValidateStaged(r)
  \/ CheckNotValidated(r)
  \/ ArchiveRaw(r)
  \/ WriteValidated(r)
  \/ DeleteStaged(r)
  \/ RecordRow(r)
  \/ CheckBatch(r)
  \/ TriggerSync(r)
  \/ Commit(r)

Next ==
  \/ \E r \in Requests, f \in Files : AskUploadUrl(r, f)
  \/ \E r \in Requests, f \in Files, b \in BOOLEAN : StartValidation(r, f, b)
  \/ \E r \in Requests : Advance(r)
  \/ \E r \in Requests : Fail(r)
  \/ \E f \in Files, c \in Uploads : Put(f, c)
  \/ \E f \in Files : ExpireUrl(f)
  \/ \E f \in Files : ExpireStaged(f)

Spec == Init /\ [][Next]_vars

\* A request thread runs until its handler returns.  The waiting INSERT is
\* woken when the other transaction ends, hence strong fairness there.
Fairness ==
  \A r \in Requests : WF_vars(Advance(r)) /\ SF_vars(InsertRow(r))

FairSpec == Spec /\ Fairness

-----------------------------------------------------------------------------
(* Properties *)

BlobMap(S) == [Files -> S \cup {None}]

Results == {"none", "exists", "already", "inserted"}

RequestType ==
  [pc: PCs, file: Files \cup {None}, upload: GoodUploads \cup {None},
   known: BOOLEAN, batch: BOOLEAN, row: RowIds \cup {None},
   result: Results]

\* Every variable has its type; a request under way names a file, and once
\* its file passed validation it holds that good content until it is written.
TypeOK ==
  /\ unvalidated \in BlobMap(Uploads)
  /\ raw \in BlobMap(Uploads)
  /\ validated \in BlobMap(NormalizedUploads)
  /\ urls \subseteq Files
  /\ rows \subseteq [name: Files, id: RowIds]
  /\ req \in [Requests -> RequestType]
  /\ \A r \in Requests :
       /\ req[r].pc # "done" => req[r].file \in Files
       /\ req[r].pc \in Holding => req[r].upload \in GoodUploads
  /\ syncs \subseteq Files
  /\ uploaded \in [Files -> SUBSET Uploads]
  /\ aborted \subseteq Files

\* A file name has at most one row, committed or about to be, whatever the
\* interleaving of two validations of the same name (FileTable's unique
\* constraint and the flush in _run_validation_and_upsert_file_record).
UniqueRow ==
  /\ \A x, y \in rows : x.name = y.name => x = y
  /\ \A r, q \in Requests :
       Inserting(r) /\ Inserting(q) /\ req[r].file = req[q].file => r = q
  /\ \A r \in Requests : Inserting(r) => ~HasRow(req[r].file)

\* A file that batches and the front end can see has its validated blob and
\* its archived original: the row is committed last (validate_file before the
\* upsert, the upsert before the commit).
RowBacked ==
  \A f \in Files : HasRow(f) => validated[f] # None /\ raw[f] # None

\* While a name is uploaded once, racing validations, expiry and failures
\* cannot make raw/ something else than the original of validated/.
SingleUploadFaithful ==
  \A f \in Files :
    (\A c, d \in uploaded[f] : c = d) /\ validated[f] # None
      => raw[f] # None /\ validated[f] = Normalized(raw[f])

\* A 200 answer is true of the database: the row it reports is committed,
\* also when the INSERT lost the race ("Already exists").
ReportHonest ==
  \A r \in Requests :
    req[r].pc = "done" /\ req[r].result # "none" => HasRow(req[r].file)

\* A validated blob without a row, that no running request will record.
Orphan(f) ==
  /\ validated[f] # None
  /\ ~HasRow(f)
  /\ \A r \in Requests :
       req[r].file = f => req[r].pc \notin {"cleared", "archived"} \cup PastWrite

\* A validated blob is unrecorded only because some request on it failed
\* after the write; no interleaving of successful requests loses the row.
OrphanExplained == \A f \in Files : Orphan(f) => f \in aborted

\* Once orphaned a file stays so: the upload URL is refused, and validation
\* fails either on the missing upload or on the existing validated blob.
OrphanStays == [][\A f \in Files : Orphan(f) => Orphan(f)']_vars

\* A bronze sync is started only for a file whose validated blob exists, and
\* the file is recorded unless a request on it failed or is still running.
SyncBacked ==
  \A f \in syncs :
    /\ validated[f] # None
    /\ HasRow(f) \/ f \in aborted
         \/ \E r \in Requests : req[r].file = f /\ req[r].pc = "checked"

\* A validated blob gets its row unless a request on the file failed.
ValidatedRecorded ==
  \A f \in Files : validated[f] # None ~> (HasRow(f) \/ f \in aborted)

\* Every request is answered: the INSERT's wait for another transaction ends.
RequestsAnswered ==
  \A r \in Requests : req[r].pc # "done" ~> req[r].pc = "done"

-----------------------------------------------------------------------------
(* Inductive strengthening of the invariants *)

\* Where a request stands tells what the bucket holds for its file.
BucketInv ==
  /\ \A f \in Files : validated[f] # None => raw[f] # None
  /\ \A f \in Files : HasRow(f) => validated[f] # None
  /\ \A r \in Requests :
       /\ req[r].pc \in PastWrite \cup {"archived"} => raw[req[r].file] # None
       /\ req[r].pc \in PastWrite => validated[req[r].file] # None

\* What is stored was uploaded under that name.
ProvenanceInv ==
  /\ \A f \in Files :
       /\ unvalidated[f] # None => unvalidated[f] \in uploaded[f]
       /\ raw[f] # None => raw[f] \in uploaded[f]
       /\ validated[f] # None => \E c \in uploaded[f] : validated[f] = Normalized(c)
  /\ \A r \in Requests :
       req[r].pc \in Holding => req[r].upload \in uploaded[req[r].file]

\* The row a request reports is committed or in its own transaction.
RowInv ==
  \A r \in Requests :
    /\ req[r].known => HasRow(req[r].file)
    /\ Inserting(r) => req[r].pc \in {"recorded", "checked"}
    /\ req[r].pc \in {"recorded", "checked"} => req[r].result # "none"
    /\ req[r].result # "none" => HasRow(req[r].file) \/ Inserting(r)

\* A validated blob is recorded, given up, or in the hands of a request.
CustodyInv ==
  \A f \in Files :
    validated[f] # None
      => \/ HasRow(f) \/ f \in aborted
         \/ \E r \in Requests : req[r].file = f /\ req[r].pc \in PastWrite

\* The inductive invariant: together these survive every step.
IngestInv ==
  TypeOK /\ UniqueRow /\ BucketInv /\ ProvenanceInv /\ RowInv /\ CustodyInv /\ SyncBacked

-----------------------------------------------------------------------------
(* Refinement *)

CatalogStatus ==
  [f \in Files |-> IF HasRow(f) THEN "listed"
                   ELSE IF validated[f] # None THEN "stored" ELSE "absent"]

\* What the rest of the system relies on: a file is stored before it is
\* listed, and neither is undone by uploads and validations.
Catalog == INSTANCE FileCatalog WITH status <- CatalogStatus
CatalogSpec == Catalog!Spec
=============================================================================
