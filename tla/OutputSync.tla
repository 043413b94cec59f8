----------------------------- MODULE OutputSync -----------------------------
(***************************************************************************)
(* Inference outputs of one institution: a run writes its csv and png       *)
(* files to the bucket under approved/ or unapproved/, they are moved       *)
(* between the two when somebody approves them, and update_db_from_bucket   *)
(* copies what it lists into the file table and the job table, while runs   *)
(* are triggered, added by hand and deleted by other requests.              *)
(***************************************************************************)
EXTENDS Naturals, FiniteSets

CONSTANTS
  Runs,      \* run ids, of Databricks and of the job table
  Kinds,     \* kinds of output of a run
  Requests,  \* request slots of the server
  MaxMoves,  \* bound: how often files are moved between the prefixes or lose their row
  None

\* A run writes one file of each kind, named <run id>/...
Outputs == Runs \X Kinds
RunOf(f) == f[1]
IsCsv(f) == f[2] = "csv"
Labels == {"approved", "unapproved"}  \* a prefix; also the valid flag it stands for

ASSUME OutputAssumption ==
  /\ Kinds \subseteq {"csv", "png"}
  /\ MaxMoves \in Nat
  /\ None \notin Labels \cup Runs \cup [completed: BOOLEAN, valid: Labels]

VARIABLES
  started,  \* external: runs that Databricks started
  written,  \* external: outputs that were written to the bucket
  blob,     \* output -> the prefixes it is found under
  moves,    \* moves begun and rows lost so far, at most MaxMoves
  rows,     \* committed file rows: output -> its valid flag, as a label, or None
  jobs,     \* committed job rows: run -> [completed, valid], or None
  req,      \* request slot -> its progress
  flaky,    \* external: calls and instances may still fail
  early,    \* history: runs whose csv got its row before the run had its job
  byHand,   \* history: runs with a job added by hand, or an output taken by delete_batch
  leftover  \* history: outputs a deletion of the run may have left half-deleted

vars == <<started, written, blob, moves, rows, jobs, req, flaky, early, byHand, leftover>>
external == <<started, written, blob, moves, flaky>>

-----------------------------------------------------------------------------

NoRows == [f \in Outputs |-> None]
Idle == [pc |-> "done", run |-> None, snap |-> NoRows,
         seen |-> [p \in Labels |-> {}], prefix |-> None, left |-> {}, gone |-> {}]

OutputsOf(r) == {f \in Outputs : RunOf(f) = r}
HasCsvRow(r) == \E f \in OutputsOf(r) : IsCsv(f) /\ rows[f] # None
DeletingRun(r) == \E q \in Requests : req[q].pc \in {"listing", "deleting"} /\ req[q].run = r
Syncing == \E q \in Requests : req[q].pc \in {"sync", "half_listed", "listed"}

Abort(q) ==
  /\ req' = [req EXCEPT ![q] = Idle]
  /\ leftover' = leftover \cup req[q].gone
  /\ UNCHANGED <<external, rows, jobs, early, byHand>>

-----------------------------------------------------------------------------
(* Databricks and whoever approves outputs: external                        *)

\* Somebody starts a run in the Databricks workspace, past this server.
RunByHand(r) ==
  /\ r \notin started
  /\ started' = started \cup {r}
  /\ UNCHANGED <<written, blob, moves, rows, jobs, req, flaky, early, byHand, leftover>>

Publish(f, p) ==
  /\ RunOf(f) \in started /\ f \notin written
  /\ written' = written \cup {f}
  /\ blob' = [blob EXCEPT ![f] = {p}]
  /\ UNCHANGED <<started, moves, rows, jobs, req, flaky, early, byHand, leftover>>

\* A blob is moved by copying it and then deleting the original.
MoveCopy(f) ==
  /\ \E p \in Labels : blob[f] = {p}
  /\ moves < MaxMoves
  /\ blob' = [blob EXCEPT ![f] = Labels]
  /\ moves' = moves + 1
  /\ UNCHANGED <<started, written, rows, jobs, req, flaky, early, byHand, leftover>>

MoveDelete(f) ==
  /\ blob[f] = Labels
  /\ \E p \in Labels : blob' = [blob EXCEPT ![f] = {p}]
  /\ UNCHANGED <<started, written, moves, rows, jobs, req, flaky, early, byHand, leftover>>

-----------------------------------------------------------------------------
(* trigger_inference_run: the run is started before anything is recorded    *)

StartRun(q, r) ==
  /\ req[q].pc = "done" /\ r \notin started
  /\ started' = started \cup {r}
  /\ req' = [req EXCEPT ![q] = [Idle EXCEPT !.pc = "run_started", !.run = r]]
  /\ UNCHANGED <<written, blob, moves, rows, jobs, flaky, early, byHand, leftover>>

\* fetch_model_version answered; the job row is committed with the session,
\* unless the id has one by now (IntegrityError).
RecordJob(q) ==
  /\ req[q].pc = "run_started"
  /\ IF jobs[req[q].run] = None
     THEN /\ jobs' = [jobs EXCEPT ![req[q].run] = [completed |-> FALSE, valid |-> "unapproved"]]
          /\ early' = early \cup {r \in {req[q].run} : HasCsvRow(r)}
          /\ req' = [req EXCEPT ![q] = Idle]
          /\ UNCHANGED <<external, rows, byHand, leftover>>
     ELSE Abort(q)

-----------------------------------------------------------------------------
(* Other requests that write the two tables                                 *)

\* add_custom_school_job: a completed, approved job for the run id in the URL,
\* whatever run that is, if the id has no job yet; no file row is written.
AddCustomJob(r) ==
  /\ jobs[r] = None
  /\ jobs' = [jobs EXCEPT ![r] = [completed |-> TRUE, valid |-> "approved"]]
  /\ byHand' = byHand \cup {r}
  /\ UNCHANGED <<external, rows, req, early, leftover>>

\* delete_model: the jobs of the model go with it.
DropJob(r) ==
  /\ jobs[r] # None
  /\ jobs' = [jobs EXCEPT ![r] = None]
  /\ UNCHANGED <<external, rows, req, early, byHand, leftover>>

\* delete_batch: a PATCH may put an output into a batch, and with the batch goes
\* its row; the blob is looked for under validated/ and stays.
LoseRow(f) ==
  /\ rows[f] # None /\ moves < MaxMoves
  /\ rows' = [rows EXCEPT ![f] = None]
  /\ moves' = moves + 1
  /\ byHand' = byHand \cup {RunOf(f)}
  /\ UNCHANGED <<started, written, blob, jobs, req, flaky, early, leftover>>

-----------------------------------------------------------------------------
(* update_db_from_bucket *)

StartSync(q) ==
  /\ req[q].pc = "done"
  /\ req' = [req EXCEPT ![q] = [Idle EXCEPT !.pc = "sync", !.snap = rows]]
  /\ leftover' = leftover \cup {f \in Outputs : DeletingRun(RunOf(f))}
  /\ UNCHANGED <<external, rows, jobs, early, byHand>>

ListApproved(q) ==
  /\ req[q].pc = "sync"
  /\ req' = [req EXCEPT ![q].pc = "half_listed",
                        ![q].seen["approved"] = {f \in Outputs : "approved" \in blob[f]}]
  /\ UNCHANGED <<external, rows, jobs, early, byHand, leftover>>

ListUnapproved(q) ==
  /\ req[q].pc = "half_listed"
  /\ req' = [req EXCEPT ![q].pc = "listed",
                        ![q].seen["unapproved"] = {f \in Outputs : "unapproved" \in blob[f]}]
  /\ UNCHANGED <<external, rows, jobs, early, byHand, leftover>>

\* Files listed under a prefix whose flag the snapshot does not have; those
\* under approved/ are processed first, so the last one decides.
Seen(q) == UNION {req[q].seen[p] : p \in Labels}
New(q) == {f \in Seen(q) : req[q].snap[f] = None}
ChangedNever(q) == {}  \* Fault: a file that has a row is not looked at again.
Changed(q) ==
  {f \in Seen(q) \ New(q) : \E p \in Labels : f \in req[q].seen[p] /\ req[q].snap[f] # p}
LastSeen(q, F) ==
  IF F \cap req[q].seen["unapproved"] # {} THEN "unapproved" ELSE "approved"

\* Of the new files only the csv writes the job, of the changed ones any.
JobWriters(q, r) == {f \in New(q) : IsCsv(f) /\ RunOf(f) = r} \cup {f \in Changed(q) : RunOf(f) = r}

\* Two rows of one name break the unique key: a new file seen under both
\* prefixes, or one that another sync inserted since the snapshot.
Clashes(q) ==
  \/ New(q) \cap req[q].seen["approved"] \cap req[q].seen["unapproved"] # {}
  \/ \E f \in New(q) : rows[f] # None

\* Fault: the flag of a job is not written with that of its file.
SaveSyncNewOnly(q) ==
  /\ req[q].pc = "listed" /\ ~Clashes(q)
  /\ rows' = [f \in Outputs |-> IF f \in New(q) \/ (f \in Changed(q) /\ rows[f] # None)
                                THEN LastSeen(q, {f}) ELSE rows[f]]
  /\ jobs' = [r \in Runs |->
       IF jobs[r] # None /\ \E f \in New(q) : IsCsv(f) /\ RunOf(f) = r
       THEN [completed |-> TRUE, valid |-> LastSeen(q, JobWriters(q, r))] ELSE jobs[r]]
  /\ req' = [req EXCEPT ![q] = Idle]
  /\ UNCHANGED <<external, early, byHand, leftover>>

\* Fault: a job without its file row yet is not completed.
SaveSyncLate(q) ==
  /\ req[q].pc = "listed" /\ ~Clashes(q)
  /\ rows' = [f \in Outputs |-> IF f \in New(q) \/ (f \in Changed(q) /\ rows[f] # None)
                                THEN LastSeen(q, {f}) ELSE rows[f]]
  /\ jobs' = [r \in Runs |->
       IF jobs[r] # None /\ JobWriters(q, r) # {}
       THEN [completed |-> jobs[r].completed \/ HasCsvRow(r),
             valid |-> LastSeen(q, JobWriters(q, r))]
       ELSE jobs[r]]
  /\ req' = [req EXCEPT ![q] = Idle]
  /\ UNCHANGED <<external, early, byHand, leftover>>

\* An UPDATE of a row that is not there (any more, or yet) changes nothing.
SaveSync(q) ==
  /\ req[q].pc = "listed"
  /\ \/ Clashes(q) /\ Abort(q)
     \/ /\ ~Clashes(q)
        /\ rows' = [f \in Outputs |-> IF f \in New(q) \/ (f \in Changed(q) /\ rows[f] # None)
                                      THEN LastSeen(q, {f}) ELSE rows[f]]
        /\ jobs' = [r \in Runs |->
             IF jobs[r] # None /\ JobWriters(q, r) # {}
             THEN [completed |-> jobs[r].completed \/ \E f \in New(q) : IsCsv(f) /\ RunOf(f) = r,
                   valid |-> LastSeen(q, JobWriters(q, r))]
             ELSE jobs[r]]
        /\ req' = [req EXCEPT ![q] = Idle]
        /\ UNCHANGED <<external, early, byHand, leftover>>

-----------------------------------------------------------------------------
(* delete_model_run *)

StartDeleteRun(q, r) ==
  /\ req[q].pc = "done" /\ jobs[r] # None
  /\ req' = [req EXCEPT ![q] = [Idle EXCEPT !.pc = "listing", !.run = r,
                                            !.snap = rows, !.prefix = "approved"]]
  /\ leftover' = IF Syncing THEN leftover \cup OutputsOf(r) ELSE leftover
  /\ UNCHANGED <<external, rows, jobs, early, byHand>>

ListPrefix(q) ==
  /\ req[q].pc = "listing"
  /\ req' = [req EXCEPT ![q].pc = "deleting",
                        ![q].left = {f \in OutputsOf(req[q].run) : req[q].prefix \in blob[f]}]
  /\ UNCHANGED <<external, rows, jobs, early, byHand, leftover>>

\* A blob that is gone by now is passed over, and so is its row.
DeleteOutput(q, f) ==
  /\ req[q].pc = "deleting" /\ f \in req[q].left
  /\ blob' = [blob EXCEPT ![f] = @ \ {req[q].prefix}]
  /\ req' = [req EXCEPT ![q].left = @ \ {f},
                        ![q].gone = @ \cup {g \in {f} : req[q].prefix \in blob[f]}]
  /\ UNCHANGED <<started, written, moves, rows, jobs, flaky, early, byHand, leftover>>

NextPrefix(q) ==
  /\ req[q].pc = "deleting" /\ req[q].left = {} /\ req[q].prefix = "approved"
  /\ req' = [req EXCEPT ![q].pc = "listing", ![q].prefix = "unapproved"]
  /\ UNCHANGED <<external, rows, jobs, early, byHand, leftover>>

\* Fault: the rows of the outputs stay.
CommitDeleteRunKeepsRows(q) ==
  /\ req[q].pc = "deleting" /\ req[q].left = {} /\ req[q].prefix = "unapproved"
  /\ jobs' = [jobs EXCEPT ![req[q].run] = None]
  /\ req' = [req EXCEPT ![q] = Idle]
  /\ UNCHANGED <<external, rows, early, byHand, leftover>>

\* Fault: the job stays.
CommitDeleteRunKeepsJob(q) ==
  /\ req[q].pc = "deleting" /\ req[q].left = {} /\ req[q].prefix = "unapproved"
  /\ rows' = [f \in Outputs |-> IF f \in req[q].gone THEN None ELSE rows[f]]
  /\ req' = [req EXCEPT ![q] = Idle]
  /\ UNCHANGED <<external, jobs, early, byHand, leftover>>

\* The rows of the snapshot whose blob was deleted go, with the job.
CommitDeleteRun(q) ==
  /\ req[q].pc = "deleting" /\ req[q].left = {} /\ req[q].prefix = "unapproved"
  /\ rows' = [f \in Outputs |->
                IF f \in req[q].gone /\ req[q].snap[f] # None THEN None ELSE rows[f]]
  /\ jobs' = [jobs EXCEPT ![req[q].run] = None]
  /\ req' = [req EXCEPT ![q] = Idle]
  /\ UNCHANGED <<external, early, byHand, leftover>>

\* The instance stops, or a storage, Databricks or database call raises.
Fail(q) == flaky /\ req[q].pc # "done" /\ Abort(q)

\* External: from now on calls and instances work.
Heal ==
  /\ flaky
  /\ flaky' = FALSE
  /\ UNCHANGED <<started, written, blob, moves, rows, jobs, req, early, byHand, leftover>>

-----------------------------------------------------------------------------

Init ==
  /\ started = {} /\ written = {} /\ moves = 0
  /\ blob = [f \in Outputs |-> {}]
  /\ rows = NoRows
  /\ jobs = [r \in Runs |-> None]
  /\ req = [q \in Requests |-> Idle]
  /\ flaky = TRUE
  /\ early = {} /\ byHand = {} /\ leftover = {}

\* What the server does next for a request that has begun.
Advance(q) ==
  \/ RecordJob(q)
  \/ ListApproved(q)
  \/ ListUnapproved(q)
  \/ SaveSync(q)
  \/ ListPrefix(q)
  \/ \E f \in Outputs : DeleteOutput(q, f)
  \/ NextPrefix(q)
  \/ CommitDeleteRun(q)

Sync == \E q \in Requests : StartSync(q)

Next ==
  \/ \E f \in Outputs, p \in Labels : Publish(f, p)
  \/ \E f \in Outputs : MoveCopy(f) \/ MoveDelete(f) \/ LoseRow(f)
  \/ \E r \in Runs : RunByHand(r) \/ AddCustomJob(r) \/ DropJob(r)
  \/ \E q \in Requests, r \in Runs : StartRun(q, r) \/ StartDeleteRun(q, r)
  \/ Sync
  \/ \E q \in Requests : Advance(q)
  \/ \E q \in Requests : Fail(q)
  \/ Heal

Spec == Init /\ [][Next]_vars

\* Request threads run to their end, moves are finished, outputs are looked at
\* again and again, and errors stop some day.
FairSpec ==
  /\ Spec
  /\ \A q \in Requests : WF_vars(Advance(q))
  /\ \A f \in Outputs : WF_vars(MoveDelete(f))
  /\ SF_vars(Sync)
  /\ WF_vars(Heal)

-----------------------------------------------------------------------------
(* Properties *)

RowsType == [Outputs -> Labels \cup {None}]

RequestType ==
  [pc: {"done", "run_started", "sync", "half_listed", "listed", "listing", "deleting"},
   run: Runs \cup {None}, snap: RowsType, seen: [Labels -> SUBSET Outputs],
   prefix: Labels \cup {None}, left: SUBSET Outputs, gone: SUBSET Outputs]

\* Types; and a file or job row stands for a run that was started or named by hand.
TypeOK ==
  /\ started \subseteq Runs
  /\ written \subseteq {f \in Outputs : RunOf(f) \in started}
  /\ blob \in [Outputs -> SUBSET Labels]
  /\ moves \in 0..MaxMoves
  /\ rows \in RowsType
  /\ jobs \in [Runs -> [completed: BOOLEAN, valid: Labels] \cup {None}]
  /\ req \in [Requests -> RequestType]
  /\ flaky \in BOOLEAN
  /\ early \subseteq Runs /\ byHand \subseteq Runs
  /\ leftover \subseteq Outputs
  /\ \A r \in Runs : jobs[r] # None => r \in started \cup byHand
  /\ \A f \in Outputs : blob[f] # {} \/ rows[f] # None => f \in written

\* What a request may rely on: a synchronisation lists only outputs that are there
\* or that a deletion took while it ran, and a deletion that a synchronisation
\* overlaps has its outputs on record.
RequestKnows(x) ==
  /\ x.pc = "run_started" => x.run \in started
  /\ x.gone \cup x.left \subseteq OutputsOf(x.run)
  /\ x.pc \notin {"half_listed", "listed"} => \A p \in Labels : x.seen[p] = {}
  /\ \A p \in Labels : x.seen[p] \subseteq {f \in written : blob[f] # {} \/ f \in leftover}
  /\ x.pc \notin {"listing", "deleting"} => x.gone = {}
  /\ x.pc \in {"listing", "deleting"} =>
       /\ x.run \in Runs /\ x.prefix \in Labels
       /\ Syncing => OutputsOf(x.run) \subseteq leftover
       /\ \A f \in OutputsOf(x.run) :
            rows[f] # None => x.snap[f] # None \/ f \in leftover

\* A completed job has the row of its csv, which is what its output_filename
\* names: update_db_from_bucket and delete_model_run write both or neither.
\* Only add_custom_school_job and delete_batch part the two.
CompletedHasOutput ==
  \A r \in Runs :
    jobs[r] # None /\ jobs[r].completed => HasCsvRow(r) \/ r \in byHand

\* The docstring of update_db_from_bucket gives a job the flag of its csv; any
\* output that changes its prefix, a png too, sets it.  What holds is that the
\* flag of a completed job is the one an output of the run is listed with, so
\* that no flag outlives all the files it was read from.
JobFlagFromOutput ==
  \A r \in Runs :
    jobs[r] # None /\ jobs[r].completed =>
      r \in byHand \/ \E f \in OutputsOf(r) : rows[f] = jobs[r].valid

\* A row without any blob was left by a deletion of the run that failed, that
\* a sync overlapped, or that is still going on; no sync alone makes one.
RowHasBlob ==
  \A f \in Outputs :
    rows[f] # None => blob[f] # {} \/ f \in leftover
                      \/ \E q \in Requests : f \in req[q].gone

\* What only time shows of a run: its job is recorded once, before anything
\* deletes it, and never again when a deletion took rows that a sync still knows.
Pending(r) == \E q \in Requests : req[q].pc = "run_started" /\ req[q].run = r
Settled(r) == r \in byHand \/ (r \in started /\ ~Pending(r))
RunHistory ==
  /\ \A q, o \in Requests :
       req[q].pc = "run_started" /\ req[o].pc = "run_started" /\ req[q].run = req[o].run => q = o
  /\ \A q \in Requests :
       /\ req[q].pc = "run_started" => jobs[req[q].run] = None \/ req[q].run \in byHand
       /\ req[q].pc \in {"listing", "deleting"} => Settled(req[q].run)
       /\ req[q].pc \in {"sync", "half_listed", "listed"} =>
            \A f \in Outputs : req[q].snap[f] # None =>
              /\ f \in written
              /\ rows[f] = None =>
                   \/ RunOf(f) \in byHand
                   \/ jobs[RunOf(f)] = None /\ Settled(RunOf(f))

\* The inductive invariant of outputs.
SyncInv ==
  /\ TypeOK
  /\ \A q \in Requests : RequestKnows(req[q])
  /\ RunHistory
  /\ CompletedHasOutput /\ JobFlagFromOutput /\ RowHasBlob

\* A run whose job and csv are there is completed by the next undisturbed
\* sync, unless the csv got its row before the job was committed.
JobCompletes ==
  \A r \in Runs :
    (jobs[r] # None /\ \E f \in OutputsOf(r) : IsCsv(f) /\ blob[f] # {})
      ~> (jobs[r] = None \/ jobs[r].completed \/ r \in early
            \/ \A f \in OutputsOf(r) : IsCsv(f) => blob[f] = {})

\* Once an output stays under one prefix the file table comes to agree, though
\* listings taken during a move were wrong and syncs overlap.
RowsFollowBucket ==
  \A f \in Outputs, p \in Labels :
    <>[](blob[f] = {p} /\ f \notin leftover) => <>[](rows[f] = p)
=============================================================================
