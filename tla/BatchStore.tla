----------------------------- MODULE BatchStore -----------------------------
(***************************************************************************)
(* Batches of one institution: creating, changing and deleting a batch     *)
(* while other requests do the same.  A handler reads one snapshot of the  *)
(* database (REPEATABLE READ), talks to the bucket, and writes everything  *)
(* in one flush at its commit, where unique and foreign keys and SQLAlchemy *)
(* row counts can still refuse it.  Uploads appear as the file catalog's    *)
(* two steps.                                                              *)
(***************************************************************************)
EXTENDS Naturals, FiniteSets

CONSTANTS
  Files,        \* file names
  RowIds,       \* primary keys of file rows
  BatchIds,     \* primary keys of batches
  Names,        \* batch names
  Requests,     \* request slots of the server
  SyncApplies,  \* bronze sync is configured and the school type takes part
  None

ASSUME BatchAssumption ==
  /\ None \notin BatchIds \cup Names
  /\ SyncApplies \in BOOLEAN

VARIABLES
  validated,  \* names with a blob under validated/
  rows,       \* committed rows of the file table: [name, id]
  batches,    \* committed rows of the batch table: [name, id]
  links,      \* the association table: <<row id, batch id>>
  req,        \* request slot -> its progress
  syncs,      \* names a bronze sync of a new batch was started for
  flaky,      \* external: storage and instances may still fail
  lost,       \* history: blobs a failed deletion took from their row
  late        \* history: files deleted while a sync call was about to name them

state == <<validated, rows, batches, links, req, syncs, flaky, lost>>
vars == <<state, late>>

-----------------------------------------------------------------------------

Idle == [pc |-> "done", batch |-> None, name |-> None, rows |-> {},
         links |-> {}, left |-> {}, error |-> FALSE]

Ids(R) == {x.id : x \in R}
NamesOf(R) == {x.name : x \in R}
LinksTo(R, b) == {<<x.id, b>> : x \in R}
LinksOf(b) == {l \in links : l[2] = b}
RowsOf(b) == {x \in rows : <<x.id, b>> \in links}
HasRow(f) == f \in NamesOf(rows)

\* uuid4() draws a key that occurs nowhere.
FreshRowIds ==
  RowIds \ (Ids(rows) \cup UNION {Ids(req[q].rows) : q \in Requests})
FreshBatchIds ==
  BatchIds \ (Ids(batches) \cup {req[q].batch : q \in Requests})

\* Names that a deletion has taken from the bucket so far.
Cleared(q) ==
  IF req[q].pc = "deleting" THEN NamesOf(req[q].rows) \ req[q].left ELSE {}

\* The handler raises: the session rolls back, the bucket stays as it is.
Abort(q) ==
  /\ req' = [req EXCEPT ![q] = Idle]
  /\ lost' = lost \cup Cleared(q)
  /\ UNCHANGED <<validated, rows, batches, links, syncs, flaky>>

-----------------------------------------------------------------------------
(* The file catalog: an upload is stored, then listed.                     *)

Store(f) ==
  /\ f \notin validated
  /\ validated' = validated \cup {f}
  /\ lost' = lost \ {f}
  /\ UNCHANGED <<rows, batches, links, req, syncs, flaky>>

List(f) ==
  /\ f \in validated /\ ~HasRow(f)
  /\ \E id \in FreshRowIds : rows' = rows \cup {[name |-> f, id |-> id]}
  /\ UNCHANGED <<validated, batches, links, req, syncs, flaky, lost>>

-----------------------------------------------------------------------------
(* create_batch *)

\* Nothing is written when the name is taken (the batch found is returned)
\* or when no wanted file has a row; wanted files without one are dropped.
StartCreate(q, n, want) ==
  LET found == {x \in rows : x.name \in want} IN
  /\ req[q].pc = "done"
  /\ n \notin NamesOf(batches) /\ found # {}
  /\ req' = [req EXCEPT ![q] = [Idle EXCEPT !.pc = "creating", !.name = n, !.rows = found]]
  /\ UNCHANGED <<validated, rows, batches, links, syncs, flaky, lost>>

\* The insert breaks a key when the name was taken or a file row deleted
\* since the snapshot: IntegrityError.
CommitCreate(q) ==
  /\ req[q].pc = "creating"
  /\ \/ /\ req[q].name \notin NamesOf(batches) /\ req[q].rows \subseteq rows
        /\ \E b \in FreshBatchIds :
             /\ batches' = batches \cup {[name |-> req[q].name, id |-> b]}
             /\ links' = links \cup LinksTo(req[q].rows, b)
        /\ req' = [req EXCEPT ![q].pc = "created"]
        /\ UNCHANGED <<validated, rows, syncs, flaky, lost>>
     \/ /\ req[q].name \in NamesOf(batches) \/ ~(req[q].rows \subseteq rows)
        /\ Abort(q)

\* Fault: the sync is given the files of the request, not the batch's.
ReadCreatedStale(q) ==
  /\ req[q].pc = "created"
  /\ req' = [req EXCEPT ![q] = IF SyncApplies THEN [@ EXCEPT !.pc = "syncing"] ELSE Idle]
  /\ UNCHANGED <<validated, rows, batches, links, syncs, flaky, lost>>

\* After the commit the batch is read again by its name, with its files, in a
\* new snapshot: another batch, if it was replaced meanwhile; none is a 500.
ReadCreated(q) ==
  /\ req[q].pc = "created"
  /\ \/ /\ SyncApplies
        /\ \E b \in batches :
             /\ b.name = req[q].name
             /\ req' = [req EXCEPT ![q].pc = "syncing", ![q].rows = RowsOf(b.id)]
     \/ /\ ~SyncApplies \/ req[q].name \notin NamesOf(batches)
        /\ req' = [req EXCEPT ![q] = Idle]
  /\ UNCHANGED <<validated, rows, batches, links, syncs, flaky, lost>>

\* Databricks is then asked to sync the files read, which other requests may
\* have deleted by now; a failure to start the sync is swallowed.
StartSync(q) ==
  /\ req[q].pc = "syncing"
  /\ syncs' \in {syncs, syncs \cup NamesOf(req[q].rows)}
  /\ req' = [req EXCEPT ![q] = Idle]
  /\ UNCHANGED <<validated, rows, batches, links, flaky, lost>>

-----------------------------------------------------------------------------
(* update_batch *)

\* The snapshot gives the batch's present files and a row for every wanted
\* name, or it is a 404; without a list of files they stay.
StartUpdate(q, b, n, newRows) ==
  /\ req[q].pc = "done"
  /\ req' = [req EXCEPT ![q] = [Idle EXCEPT !.pc = "updating", !.batch = b.id, !.name = n,
                                            !.rows = newRows, !.links = LinksOf(b.id)]]
  /\ UNCHANGED <<validated, rows, batches, links, syncs, flaky, lost>>

\* Fault: the tables have no keys, so no write is refused.
CommitUpdateUnchecked(q) ==
  LET b == req[q].batch  new == LinksTo(req[q].rows, b) IN
  /\ req[q].pc = "updating"
  /\ links' = (links \ (req[q].links \ new)) \cup new
  /\ batches' = {x \in batches : x.id # b} \cup {[name |-> req[q].name, id |-> b]}
  /\ req' = [req EXCEPT ![q] = Idle]
  /\ UNCHANGED <<validated, rows, syncs, flaky, lost>>

\* The flush writes the difference between the collection as loaded and as
\* changed.  It fails if a link to remove is gone (StaleDataError), a link
\* to add is there or its row is gone, the name is taken, or the batch is.
CommitUpdate(q) ==
  LET b == req[q].batch
      new == LinksTo(req[q].rows, b)
      removed == req[q].links \ new
      added == new \ req[q].links
      clean == /\ b \in Ids(batches)
               /\ \A x \in batches : x.name = req[q].name => x.id = b
               /\ removed \subseteq links
               /\ added \cap links = {}
               /\ \A l \in added : l[1] \in Ids(rows)
  IN
  /\ req[q].pc = "updating"
  /\ IF clean
     THEN /\ links' = (links \ removed) \cup added
          /\ batches' = {x \in batches : x.id # b} \cup {[name |-> req[q].name, id |-> b]}
          /\ req' = [req EXCEPT ![q] = Idle]
          /\ UNCHANGED <<validated, rows, syncs, flaky, lost>>
     ELSE Abort(q)

-----------------------------------------------------------------------------
(* delete_batch *)

\* The doomed rows carry the links flush will delete: theirs, to any batch,
\* and the batch's own.
StartDelete(q, b) ==
  LET doomed == RowsOf(b.id) IN
  /\ req[q].pc = "done"
  /\ req' = [req EXCEPT ![q] =
       [Idle EXCEPT !.pc = "deleting", !.batch = b.id, !.rows = doomed,
                    !.links = {l \in links : l[1] \in Ids(doomed)},
                    !.left = NamesOf(doomed)]]
  /\ UNCHANGED <<validated, rows, batches, links, syncs, flaky, lost>>

\* Fault: a blob that is already missing counts as an error.
DeleteBlobStrict(q, f) ==
  /\ f \in req[q].left
  /\ req' = [req EXCEPT ![q].left = @ \ {f},
                        ![q].error = @ \/ flaky \/ f \notin validated]
  /\ validated' = validated \ {f}
  /\ UNCHANGED <<rows, batches, links, syncs, flaky, lost>>

\* delete_batch_files, one blob at a time: deleted, not found (no error), or
\* a storage error that is noted while the loop goes on.
DeleteBlob(q, f) ==
  /\ f \in req[q].left
  /\ \/ /\ validated' = validated \ {f}
        /\ req' = [req EXCEPT ![q].left = @ \ {f}]
     \/ /\ flaky
        /\ req' = [req EXCEPT ![q].left = @ \ {f}, ![q].error = TRUE]
        /\ UNCHANGED validated
  /\ UNCHANGED <<rows, batches, links, syncs, flaky, lost>>

\* Fault: the file rows are left for a clean-up that never comes.
CommitDeleteKeepsRows(q) ==
  /\ req[q].pc = "deleting" /\ req[q].left = {} /\ ~req[q].error
  /\ batches' = {x \in batches : x.id # req[q].batch}
  /\ links' = {l \in links : l[2] # req[q].batch}
  /\ req' = [req EXCEPT ![q] = Idle]
  /\ UNCHANGED <<validated, rows, syncs, flaky, lost>>

\* Fault: the rows of the snapshot are deleted by id, whatever links they
\* have by now.
CommitDeleteById(q) ==
  /\ req[q].pc = "deleting" /\ req[q].left = {} /\ ~req[q].error
  /\ rows' = rows \ req[q].rows
  /\ batches' = {x \in batches : x.id # req[q].batch}
  /\ links' = {l \in links : l[1] \in Ids(rows') /\ l[2] # req[q].batch}
  /\ req' = [req EXCEPT ![q] = Idle]
  /\ UNCHANGED <<validated, syncs, flaky, lost>>

\* Fault: storage errors do not stop the clean-up of the database.
CommitDeleteAnyway(q) ==
  /\ req[q].pc = "deleting" /\ req[q].left = {} /\ req[q].links \subseteq links
  /\ rows' = rows \ req[q].rows
  /\ batches' = {x \in batches : x.id # req[q].batch}
  /\ links' = {l \in links : l[1] \in Ids(rows') /\ l[2] # req[q].batch}
  /\ req' = [req EXCEPT ![q] = Idle]
  /\ UNCHANGED <<validated, syncs, flaky, lost>>

\* All or nothing: with a storage error nothing is deleted from the
\* database, nor when a link the snapshot had is gone (StaleDataError).
\* Links made since go with their row or batch (ON DELETE CASCADE).
CommitDelete(q) ==
  /\ req[q].pc = "deleting" /\ req[q].left = {}
  /\ IF ~req[q].error /\ req[q].links \subseteq links
     THEN /\ rows' = rows \ req[q].rows
          /\ batches' = {x \in batches : x.id # req[q].batch}
          /\ links' = {l \in links : l[1] \in Ids(rows') /\ l[2] # req[q].batch}
          /\ req' = [req EXCEPT ![q] = Idle]
          /\ UNCHANGED <<validated, syncs, flaky, lost>>
     ELSE Abort(q)

-----------------------------------------------------------------------------

\* The instance stops or a call raises in mid-request.
Fail(q) == flaky /\ req[q].pc # "done" /\ Abort(q)

\* External: from now on storage and instances work.
Heal ==
  /\ flaky
  /\ flaky' = FALSE
  /\ UNCHANGED <<validated, rows, batches, links, req, syncs, lost>>

Init ==
  /\ validated = {} /\ rows = {} /\ batches = {} /\ links = {}
  /\ req = [q \in Requests |-> Idle]
  /\ syncs = {} /\ lost = {} /\ late = {}
  /\ flaky = TRUE

\* What the server does next for a request that has begun.
Advance(q) ==
  \/ CommitCreate(q)
  \/ ReadCreated(q) \/ StartSync(q)
  \/ CommitUpdate(q)
  \/ \E f \in Files : DeleteBlob(q, f)
  \/ CommitDelete(q)

DeleteBatch(b) == \E q \in Requests : \E x \in batches : x.id = b /\ StartDelete(q, x)

Step ==
  \/ \E f \in Files : Store(f) \/ List(f)
  \/ \E q \in Requests, n \in Names, want \in SUBSET Files : StartCreate(q, n, want)
  \/ \E q \in Requests, n \in Names : \E b \in batches, R \in SUBSET rows : StartUpdate(q, b, n, R)
  \/ \E b \in BatchIds : DeleteBatch(b)
  \/ \E q \in Requests : Advance(q)
  \/ \E q \in Requests : Fail(q)
  \/ Heal

\* A file that leaves while a request is about to name it to Databricks is late,
\* until the call is made or the file listed again.
NoteLate ==
  late' = {f \in late \cup NamesOf(rows) :
             /\ f \notin NamesOf(rows')
             /\ \E q \in Requests : req'[q].pc = "syncing" /\ f \in NamesOf(req'[q].rows)}

Next == Step /\ NoteLate

Spec == Init /\ [][Next]_vars

\* Request threads run to their end, storage recovers some day, and a client
\* that wants a batch deleted asks again after every error.
FairSpec ==
  /\ Spec
  /\ \A q \in Requests : WF_state(Advance(q))
  /\ \A b \in BatchIds : SF_state(DeleteBatch(b))
  /\ WF_state(Heal)

-----------------------------------------------------------------------------
(* Properties *)

RowType == [name: Files, id: RowIds]

RequestType ==
  [pc: {"done", "creating", "created", "syncing", "updating", "deleting"},
   batch: BatchIds \cup {None}, name: Names \cup {None}, rows: SUBSET RowType,
   links: SUBSET (RowIds \X BatchIds), left: SUBSET Files, error: BOOLEAN]

\* Types, and the foreign keys: a link names a file row and a batch.
TypeOK ==
  /\ validated \subseteq Files
  /\ rows \subseteq RowType
  /\ batches \subseteq [name: Names, id: BatchIds]
  /\ links \subseteq Ids(rows) \X Ids(batches)
  /\ req \in [Requests -> RequestType]
  /\ syncs \subseteq Files
  /\ flaky \in BOOLEAN
  /\ lost \subseteq Files /\ late \subseteq Files

\* A batch name belongs to one batch, however creations and renames race
\* (create_batch's look-up, update_batch and the table's unique constraint).
BatchNamesUnique == \A x, y \in batches : x.name = y.name => x = y

\* A listed file without its blob is being deleted, or was in a deletion that
\* took the blob and then failed; delete_batch leaves no other such file.
MissingBlobExplained ==
  \A x \in rows :
    x.name \in validated \cup lost \cup UNION {Cleared(q) : q \in Requests}

\* Rows keep the two keys of the file table, and the id of a row that a request
\* holds is given to no other row.
RowKeys ==
  /\ \A x, y \in rows : x.id = y.id \/ x.name = y.name => x = y
  /\ \A q \in Requests : \A x \in req[q].rows, y \in rows : x.id = y.id => x = y

\* A request has the name it needs; only a deletion has blobs to delete, of the
\* rows it holds, each of which it saw in its batch.
RequestsWellFormed ==
  \A q \in Requests :
    /\ req[q].pc \in {"creating", "updating"} => req[q].name \in Names
    /\ req[q].pc # "deleting" => req[q].left = {}
    /\ req[q].pc = "deleting" =>
         /\ req[q].left \subseteq NamesOf(req[q].rows)
         /\ LinksTo(req[q].rows, req[q].batch) \subseteq req[q].links

\* A request about to name files to Databricks read them as listed: those that
\* are not are late.
SyncNamesKnown ==
  \A q \in Requests : req[q].pc = "syncing" =>
    \A f \in NamesOf(req[q].rows) : HasRow(f) \/ f \in late

\* The inductive invariant of batches: the properties above hold together, and
\* because the rows a deletion holds keep their ids while it talks to the bucket.
BatchInv ==
  /\ TypeOK
  /\ BatchNamesUnique
  /\ MissingBlobExplained
  /\ RowKeys
  /\ RequestsWellFormed
  /\ SyncNamesKnown

\* A file row only leaves together with a batch it belonged to at that very
\* moment: a file taken out of the batch since the deletion began survives.
RowsLeaveWithBatch ==
  [][\A x \in rows \ rows' :
       \E b \in Ids(batches) \ Ids(batches') : <<x.id, b>> \in links]_vars

\* create_batch's sync names a deleted file only if the deletion committed in
\* between its re-read of the batch and the call: one that committed before the
\* re-read, even after the batch itself, is never synced.
SyncsListed == [][\A f \in syncs' \ syncs : HasRow(f) \/ f \in late]_vars

\* Once clients only ask for deletions, every batch is deleted in the end,
\* although storage errors keep stopping deletions half-way: a blob that an
\* earlier try took is no error to the next (delete_batch_files).
DeletionCompletes ==
  <>[](\A q \in Requests : req[q].pc \in {"done", "deleting"})
    => \A b \in BatchIds : b \in Ids(batches) ~> b \notin Ids(batches)
=============================================================================
