# A TLA+ model of edvise-api

edvise-api is the web backend through which institutions upload student data,
group files into batches, and run Databricks inference jobs on them. Its state
lives in four places that no transaction spans: a MySQL database, one Cloud
Storage bucket per institution, Databricks, and the memory of each Cloud Run
instance. Endpoints are synchronous functions that FastAPI runs in a thread
pool; several instances may run, and clients may have any number of requests
under way. Most of what can go wrong is an interleaving of two requests, or a
request that stops between a storage call and the database commit.

Paths below are relative to the repository root (`src/webapp/...`).

## 1. Inventory

| Component | State it keeps | Operations | Modules |
|---|---|---|---|
| Upload and validation (`routers/data.py`, `gcsutil.py`) | blobs under `unvalidated/`, `raw/`, `validated/`; rows of `file`; upload URLs in clients' hands | `get_upload_url`, PUT, `validate_file_manual_upload`, `validate_file_sftp`; URL expiry, lifecycle rule | FileIngest, FileCatalog, FileIngestProofs |
| Batches (`routers/data.py`) | rows of `batch`, association table, `file` | `create_batch`, `update_batch`, `delete_batch` | BatchStore, FileLifecycle, BatchStoreProofs |
| Output synchronisation (`gcsdbutils.py`) | blobs under `approved/`, `unapproved/`; rows of `file`, `job` | `update_db_from_bucket`, run by five listing endpoints | OutputSync, OutputSyncProofs |
| Models and inference runs (`routers/models.py`, `databricks.py`) | rows of `model`, `job`; runs and model versions in Databricks | `create_model`, `delete_model`, `archive_model`, `trigger_inference_run`, `delete_model_run`, `backfill_model_runs`, `add_custom_school_job` | InferenceRuns, SchemaRules, OutputSync (deleting a run), InferenceRunsProofs |
| Institutions (`routers/institutions.py`) | rows of `inst`; a bucket; Databricks schemas and volumes | `create_institution`, `update_inst`, `delete_inst` | Institutions, InstitutionsProofs |
| EDA cache (`routers/data.py`) | an in-memory TTL cache | `get_eda_data` | Reads, ReadsProofs |
| Schema rules (`routers/models.py`, `routers/data.py`) | none (pure functions) | matching files to schema configurations, inferring schemas from file names | SchemaRules, Validation |
| Accounts, tokens, access (`main.py`, `utilities.py`, `authn.py`, `routers/users.py`) | rows of `apikey`, `users`, `account_history`; tokens in clients' hands | `access_token_from_api_key`, `generate_api_key`, `set_datakinders`, `get_user` | Access, ReadsProofs |
| Worker (`src/worker`) | a bucket with the SFTP file and its parts | `execute_pdp_pull`, `process_file` | WorkerPull, WorkerPullProofs |
| Validation engine (`validation*.py`) | none | `validate_dataset` and its helpers | Validation, ValidationProofs; a constant of FileIngest |
| Databricks client (`databricks.py`) | caches of table versions and rows, in memory and in a bucket | start a run, start a sync, set up or delete an institution, read a table | steps of the modules that call it; Reads |
| Front-end tables | none | queries of Databricks tables | Reads |
| Migrations, Terraform, configuration | none | | not modelled |

How they interact. Validation writes the blob and then the row that batches
are made of. A batch deletion removes blobs and rows that a validation may be
writing at the same time. An inference run is started on a batch in
Databricks, whose job writes outputs straight to the bucket; only the next
listing endpoint copies them into `file` and `job`. The worker uses the same
upload and validation endpoints as a browser. Bronze syncs are started by
validation and by batch creation.

What makes each component correct:

* upload and validation: no file name has two rows; a listed file has its blob
  and its original; a successful answer is true; a blob without a row can be
  traced to a failure; every request is answered;
* batches: names are unique, links never dangle, no file disappears except with
  its batch, a deletion that fails can be repeated;
* outputs: rows and jobs follow the bucket, a completed job has its output;
* institutions: exactly one school type; row, bucket and schemas exist together;
* runs: no run starts on files that do not fit the model, every run is recorded
  with a version that was current;
* validation: a file passes exactly when it should, through the converters its
  institution has;
* cached reads: a summary is of files the batch had, rows are of the version
  they are kept under or of a later one, and are complete;
* accounts: who was promoted by whom is on record;
* worker: an institution gets its own part of the file, and gets it in the end.

Which behaviours are hard: several storage calls that are not atomic, checks
separated from the writes they guard, snapshots of the database that are stale
at commit (REPEATABLE READ), INSERTs that wait for another transaction, commits
that come after outside calls, deletions that fail half-way, clients that retry,
outputs that move while they are listed, and caches filled from what was read
earlier. `PROJECT.json` lists these hazards at their lines.

## 2. The modules

### FileIngest

One institution's input files. State: what is stored for each file name under
each prefix (`unvalidated`, `raw`, `validated`), the names with an unexpired
upload URL (`urls`), the committed rows of the file table (`rows`), the requests
under way (`req`), and the files whose bronze sync was started (`syncs`). Two
history variables appear in properties only: `uploaded` (what was ever PUT) and
`aborted` (names on which a request failed after the write of `validated/`).

Each action is one storage call or one SQL statement of one request:

| Action | Code |
|---|---|
| AskUploadUrl, GrantUploadUrl | `generate_upload_signed_url`: the existence checks of `unvalidated/` and `validated/`, then the URL |
| Put, ExpireUrl, ExpireStaged | the client's PUT; 30 minutes; the bucket's one-day lifecycle rule |
| StartValidation | `validation_helper`: its first SELECT fixes the snapshot |
| ValidateStaged, CheckNotValidated, ArchiveRaw, WriteValidated, DeleteStaged | `StorageControl.validate_file` |
| FindRow, InsertRow | `_run_validation_and_upsert_file_record` after validation |
| CheckBatch, TriggerSync | the bronze sync, after the flush and before the commit |
| Commit, Fail | `get_session`: commit before the response is sent, or rollback |

Three facts about the environment are part of the actions. MySQL's REPEATABLE
READ decides in StartValidation what the later look-up of the row will see
(`known`). An INSERT of a name that an open transaction has inserted waits for
that transaction (`NameLocked`). No storage call pins a blob generation, so a
copy copies and a write replaces whatever is there by then. The contents of
files are abstracted to distinct uploads, of which `GoodUploads` pass
validation; `validated/` holds `Normalized(c)` and never the upload itself,
because validation renames columns and coerces values.

FileCatalog is the abstract specification: each name goes from absent to
stored to listed and never back. FileIngest implements it under the mapping
`CatalogStatus`.

### BatchStore

Batches of one institution. A handler reads one snapshot (`Start...`), calls
storage, and writes everything in one flush (`Commit...`), where unique keys,
foreign keys, and the number of rows SQLAlchemy expects a DELETE to match
(StaleDataError) can still refuse it. `create_batch` reads a new snapshot after its
commit (`ReadCreated`) and starts the sync with the names it saw there
(`StartSync`); a deletion may commit in between, and `late` remembers the names of
files that were gone by then. `update_batch` writes the difference
between the collection it loaded and the new one. `delete_batch` deletes the
blobs one by one, goes on after a storage error, and then writes nothing to the
database; ON DELETE CASCADE removes links made since the snapshot. `flaky` says
that storage and instances can still fail; `lost` is history: names whose blob
a failed deletion took. No code path ever sets the `deleted` column of a batch,
so the model has none. The file catalog's two steps supply the files.

### FileLifecycle

FileIngest and BatchStore on the same bucket and file table: the module extends
FileIngest and instantiates BatchStore with `validated` mapped to the set of names
that have a blob and `req` to slots of its own (`breq`). A step is one of
FileIngest (`IngestStep`) or one of a batch operation (`BatchStep`). The module
only adds which steps leave what alone, and the history `met`: files that were validated
and deleted at the same time. Its properties say what is left of the two
components' own invariants when they meet: uniqueness of rows survives, the
other two need `met`. Checking it showed two ways a deletion and a second
validation of the same name can disagree. A validation that wrote `validated/`
but not yet its row can have the blob deleted under it, and then lists a file
without a blob. And a validation that found the row in its snapshot answers
"exists" although the deletion removed the row and the new blob stays.

### OutputSync

Outputs of inference runs. Databricks publishes a csv and a png per run under
one prefix; an approval moves a file by copy and delete (no endpoint does it;
`Publish`, `MoveCopy` and `MoveDelete` are external). `update_db_from_bucket` is
four steps: read the rows and jobs, list `approved/`, list `unapproved/`, and
write. New files and changed flags are computed from the snapshot; a name added
by another sync since, or listed under both prefixes during a move, breaks the
unique key and fails the request. A run's job is completed only when its csv is
*new*; any file of the run that changed prefix, a png too, overwrites the job's
validity, though the docstring (`gcsdbutils.py:53`) speaks of the csv.
`trigger_inference_run` starts the run before it commits the job row
(`StartRun`, `RecordJob`); a run started in the Databricks workspace passes the
server by (`RunByHand`). `add_custom_school_job` commits a job that is completed
and valid from the start, with the name of an output nobody looks for, for whatever
run id the client names (`AddCustomJob`). `delete_model_run` lists and deletes the
blobs of each prefix in turn and then the rows it had loaded; the end of a model
takes the job and leaves the outputs (`DropJob`), and the deletion of a batch may
take the row (`LoseRow`). `early`, `leftover` and `byHand` are history variables;
`byHand` has the runs with a custom job or with an output that lost its row to a
batch.

### Institutions

Rows, buckets (named after the id) and Databricks schemas and volumes (named
after a simplified name, `DbName`). Creation inserts and commits the row, reads
it again by name, creates the bucket, grants Databricks access to it, and
creates the pieces one by one; an existing piece is an error. Deletion takes
row, bucket, volumes and schemas in that order; it stops when the bucket cannot
be deleted and passes over errors in Databricks. Any step can be the last one.
PATCH is two steps, since what it writes (the columns that changed) was judged by the
row it loaded. Which school-type ids result from a request is `Merged` and
`OneType`. `GET` and refused requests change nothing. Histories: `promised`
(creation answered 200), `failed`, `doomed` (deleted, or a deletion under the
same Databricks name ran), `raced` (two PATCHes at once), `adopted` (set up by
the creation of another row of the same name).

### SchemaRules and InferenceRuns

SchemaRules has the rules by which a model accepts a batch, as operators:
configurations are sequences of entries, files are sets of schema types, and
`BatchTypes` merges the files of a batch into one, as the router does.
InferenceRuns adds the requests. `StartTrigger` holds every check of
`trigger_inference_run` and of the client it calls, judged in one snapshot;
`StartRun` starts the run and may lose its answer; `FetchVersion` and `RecordJob` follow,
and each of them may fail. `add_custom_school_job` records a job under the id in the
client's URL, which may be that of a run Databricks has started, or starts later: the
primary key then refuses the second of the two jobs. A job goes with its
model (`CommitDelete`) or by `delete_model_run` (`StartDeleteRun`, `CommitDeleteRun`), the
model staying. Which Databricks job runs is `PipelineJob`: the one of
the exact name if it has an id, else the first whose name has a Cloud Run
suffix, else the first match. Backfill looks the latest version up once and
writes it, in its own transaction, to the jobs that still lack one. `lost`,
`dropped` and `foretold` are history: runs whose request failed, jobs that were
deleted, and whether a client had used a run's id before Databricks did.

### Validation

One upload from its name to its answer: schemas inferred from the name, the
institution's namespace, the encoding sniff, the three routes, converters and
grade map from the bronze volume, and the attempts at reading. Each download
and each read may fail. Data frames are left out; how an attempt ends is a free
choice (`Outcomes`), since the schema classes belong to the edvise package.
`Acceptable` is the definition to compare with: it says in terms of the upload, the
school type and the attempts what should pass, without the routes and without the
sniff. The two differ in one case, which `CutInCharacter` names: the sniff reads the
first megabyte, so a valid UTF-8 file with a character across that boundary is
refused as `decode_error`.

### WorkerPull

One pull of the worker: copy the SFTP file to the bucket of `ENV` unless a file of that
name is there, read it from the bucket of `BUCKET_ENV` (`sameBucket`: are these one),
split it into a part per institution under a folder named after the hour, look the institutions up by `pdp_id`, and for each one ask for an
upload URL, transfer, and validate. Pulls do not overlap: the service is
limited to one instance and its handler is a coroutine that never awaits. The ids are
the texts of what pandas infers (`Ids`): a column of numbers loses leading zeros, an
empty cell in it makes `123` into `123.0`, and is itself `nan`, which equals nothing.
An institution whose `pdp_id` is written otherwise is not found; a pull by name
compares text with the column and finds no row in a column of numbers. The web
app's side is one step per request, and `accepts` says which files it validates. Around the worker, clients upload and
validate a file of the same name, PATCHes move a `pdp_id` from one
institution to another, the sender replaces the file, the hour changes, the
lifecycle rule removes what is staged, and the process crashes. `named` and
`owned` are history.

### Access and Reads

Access has accounts (which the front end writes), API keys, names in tokens, and
the requests of `main.py` that change any of them. `set_datakinders` is two steps: the
snapshot of its transaction, in which the caller is looked up, and UPDATE,
history rows and commit. Reads extends it with two cached reads, each admitted by
Access: `get_eda_data` (look up, read file by file, store) and
`fetch_table_data` (version cache, `DESCRIBE HISTORY`, rows in memory, rows in
the bucket, `SELECT`, store), which the endpoints of `front_end_tables.py` share. A
SELECT reads the table as it is by then, so rows may be newer than the version they
are kept under. A link without an address is passed over, which is noticed only by
the manifest's row count, where it has one (`asCounted`). Entries expire, the service restarts, files fail to be read,
and the bucket fails to answer. `promoted` and `had` are history. The module assumes
that a table keeps counting versions: nothing is modelled of a table dropped and
made anew.

The `Fault` operators in the modules are variants of an action with a plausible
bug. No specification uses them; each shows that some property notices the bug.

## 3. Runs

| Run | Question | Bounds |
|---|---|---|
| FileIngest_live | every invariant of ingest and the inductive one under races on one name; does it implement the catalog; are requests answered and stored files recorded | 1 name, 2 requests, 2 good uploads and a bad one, 2 row ids |
| BatchStore_race | names, links and rows under two concurrent batch operations; does a deletion that is asked for again complete | 1 file, 2 row ids, 2 batches, 2 names, 2 requests |
| FileLifecycle_race | what holds when a deletion meets a validation | 1 file, 2 validations, 1 batch operation; 0.5 million states |
| OutputSync_both | rows, jobs, flags and blobs of a run with csv and png | 1 run, 2 requests, 1 move; 3.6 million states |
| OutputSync_live | completion and convergence | 1 run, csv only, 2 requests, 2 moves; 0.5 million states |
| Institutions_race | are half-made institutions and leftovers explained; do types follow the rules | 2 names that Databricks sees as one, 2 ids, 2 types, 1 level, 2 requests; 0.2 million states |
| Institutions_types | refutes ExactlyOneType | 1 institution, all 4 types, 2 requests |
| Validation_verdict | does a file pass exactly when it should, through the right converters | 6 keywords, at most 2 school types, every encoding and every outcome; 0.8 million states |
| InferenceRuns_race | are runs well posed and on record, with the right version | 2 requests, 2 model ids, 1 run, whose id a client may use, 2 versions, 8 setups; 0.9 million states |
| InferenceRuns_types | refutes OneFilePerType | 1 request, 1 run, 1 version |
| WorkerPull_live | does every institution get its own part, and get it in the end | 2 institutions, 1 known id written in three ways, an unknown one and an empty cell, 2 versions of the file, 1 failure, 1 client upload, 6 setups; 0.7 million states |
| Reads_race | promotions, EDA summaries and table rows under races | 2 threads, see below; 3.4 million states |

Why these are enough. The conflicts are about one name, so one name with as
many requests as the space allows is the hard case; for FileIngest the proofs
cover any number of names and requests. Two contents are what it takes to tell
an archived original from another. Request slots are reused, so the number of
requests over time is not bounded, only how many are open at once. The bounds
on row and batch ids limit how many rows exist at once, not how many are ever
made: a deleted row's id can be drawn again (Institutions draws every id once,
so its run makes at most two rows). Two moves cover a file approved and
withdrawn again. Larger instances of FileIngest (two names, or three requests)
and of BatchStore (two files, two names, two batches, two requests, 2.4 million
states) passed too, and are left out for their running time, as is an
Institutions whose ids are also generated (1.1 million).

Validation is sequential, so its run covers every input the abstraction tells
apart. The eight setups of InferenceRuns take one way each through
routes, configurations and job names: two cohort files, old schema names, an
optional type, an any-format model, and four that are refused. A larger one
with a custom job under another id as well (10.6 million states) passed too. In WorkerPull an
id that nobody has (`8`, or an empty cell) comes before the known one (`7`); the six
setups are columns of text, of whole numbers and of decimals, with nothing refused, or
parts without rows, clients' files or full parts refused, and two buckets instead of one; each institution gets an id at most once, each id is pulled by
name at most once (whole pulls are not bounded), and one failure may hit any call
of any pull. In Reads the threads serve two promotions, a promotion and an EDA
summary, two EDA summaries, or two table reads (`Loads`), as requests of other
kinds share no state; two things may change around them (accounts, keys and tokens only next to a
promotion), one in the mixed case; caches expire at any time without a bound.

Symmetry is used in safety runs only. `CHECK_DEADLOCK FALSE` is set where
the system really stops: one validation ends, and bounded changes run out.

### Properties

FileIngest: `UniqueRow`, `RowBacked` (a listed file has its blob and original),
`SingleUploadFaithful` (with one upload, racing validations and failures never
make `raw/` and `validated/` differ), `ReportHonest` (a 200 answer is true, also
when the INSERT lost the race), `OrphanExplained`, `OrphanStays` (a blob
without a row is never repaired: the URL is refused and validation fails),
`SyncBacked`, `CatalogSpec`, `ValidatedRecorded`, `RequestsAnswered`, and
`IngestInv`, the invariant the proofs rest on.

BatchStore: `BatchNamesUnique`, `MissingBlobExplained`, `RowsLeaveWithBatch` (a
file taken out of a batch while the batch is being deleted survives),
`SyncsListed` (a sync `create_batch` starts is of files with rows, unless a deletion
took them after its snapshot), `DeletionCompletes`, and `BatchInv`, the invariant the proofs rest on,
which contains the foreign keys: no link dangles.

FileLifecycle: `UniqueRow`, `ListedBacked`, `OrphanTraced`.

OutputSync: `CompletedHasOutput` (a completed job has its csv's row, but for jobs added
by hand and rows that went with a batch), `JobFlagFromOutput` (its flag is that of
one of the run's listed outputs, csv or png), `RowHasBlob`, `JobCompletes`, `RowsFollowBucket`.

Institutions: `MadeIsComplete`, `HalfMadeExplained`, `BucketsTraced`,
`TypeFollowsRules`.

InferenceRuns: `RunTraced` (a run without a job has a failed request, a deleted
model or a deleted run behind it), `VersionNotOlder` (no job has a version that was superseded
before its run started, but for versions without an MLflow run, which a backfill
writes again, and jobs a client added before the run had its id), `RunWellPosed` (router and client together leave no run without
its files or on the wrong Databricks job), `RecordedStays` (a backfill never
touches a complete job; it goes with its model or by a `delete_model_run` for its id).

Validation: `VerdictIsRight` (a file passes exactly when it should, but for the UTF-8
files the sniff cuts inside a character), `ConvertersApplied`.

WorkerPull: `DeliveredAsPulled` (an institution's bucket only gets parts of an id
it has had, of one version of the file, and without rows only after a pull by
name), `EveryInstitutionServed` (an institution in the file gets its own part with all
rows, if the web app validates it and the two buckets are one, unless its name in
`validated/` is taken for good: by a client's file, a part without rows, or a part of
an earlier id).

Reads: `PromotionsRecorded`, `EdaAnswerHonest` (a summary is of files the batch had
together at some time; it may be of fewer, when a file could not be read, and it
may be ten minutes old), `TableCacheSound` (rows are of their version or a later one,
and all there are wherever the manifest counts them).

### Refuted claims

* `ExactlyOneType`: `update_inst`'s docstring. Two PATCHes judged by the same
  row each keep one type and together leave two.
* `OneFilePerType`: the comment on `SchemaConfigObj`. The types of a batch are
  merged before they are matched, so two cohort files count as one.

### Fairness

A request thread that has begun runs to its end: weak fairness of each request's
`Advance`. In FileIngest an INSERT that waits for another transaction is
disabled and enabled again while others come and go, and MySQL serves the
waiting lock: strong fairness of `InsertRow`. In BatchStore the client of a
deletion asks again after each error (strong fairness of `DeleteBatch`) and
storage recovers some day (weak fairness of `Heal`); a client that keeps
changing batches can make the deletion lose for ever, so `DeletionCompletes`
speaks of behaviours in which, from some time on, only deletions are under way. In OutputSync somebody lists outputs again and again (strong
fairness of `Sync`), a move that was begun is finished (`MoveDelete`), and
errors stop some day (`Heal`). In WorkerPull the worker's steps go on, somebody
keeps pulling the whole file (a scheduler outside this repository), the clock moves
(`NewHour`) and the bucket's lifecycle rule works (`ExpireStaged`); a
split takes less than an hour and a pull less than a day. No fairness is assumed for clients that start
anything else. Where failures are not limited, the liveness properties allow
for them (`aborted`, `early`, `leftover`).

## 4. Proofs

Every safety property of the runs, invariants and action properties alike, is a
theorem for all values of the constants; the bounds of section 3 do not enter.
The proofs rest on the named assumptions of the modules and nothing else:

| Assumption | Why the code justifies it |
|---|---|
| `IngestAssumption`, `BatchAssumption`, `OutputAssumption`, `PullAssumption`, `ValidationAssumption` | typing: good uploads are uploads, known ids are ids, bounds are numbers, `None` is none of the values |
| `InferenceAssumption` | the same; a missing id or version is no id and no text; Databricks jobs are of the three kinds their names tell apart |
| `InstitutionAssumption` | the same; a PATCH's special values are not ids; there is at least one medallion level |
| `AccessAssumption` | the same; the accounts the front end starts with have different ids (a primary key) |
| `ReadsAssumption` | a table has a first version; batches start with files of the institution |

Each proof has the same shape. An inductive invariant, defined in the component's
module next to its properties, implies them; the initial states satisfy it; one
lemma per conjunct shows that every action keeps it; PTL lifts the step to the
temporal theorem. TLC checked each invariant before it was proved: `IngestInv` and
`BatchInv` belong to their runs; the others were checked on the instance of the
run in the last column, and `LifecycleInv` also with two batches, two names and two
batch operations next to one validation (6.7 million states).

| Module | Invariant | What it proves | Checked on |
|---|---|---|---|
| FileIngestProofs | `IngestInv` | the seven invariants of FileIngest, `OrphanStays`, `CatalogSpec` | FileIngest_live |
| FileIngestProofs | `LifecycleInv` | `UniqueRow`, `ListedBacked`, `OrphanTraced` under `LifecycleSpec` | FileLifecycle_race, 0.5 million |
| BatchStoreProofs | `BatchInv` | `BatchNamesUnique`, `MissingBlobExplained`, `RowsLeaveWithBatch`, `SyncsListed` | BatchStore_race |
| InferenceRunsProofs | `RunsInv` | `RunTraced`, `VersionNotOlder`, `RunWellPosed`, `RecordedStays` | InferenceRuns_race, 0.9 million |
| ReadsProofs | `ReadsInv` | `PromotionsRecorded`, `EdaAnswerHonest`, `TableCacheSound` | Reads_race, 3.4 million |
| WorkerPullProofs | `PullInv` | `DeliveredAsPulled` | WorkerPull_live, 0.7 million |
| ValidationProofs | `ValidationInv` | `VerdictIsRight`, `ConvertersApplied` | Validation_verdict, 0.8 million |
| OutputSyncProofs | `SyncInv` | `CompletedHasOutput`, `RowHasBlob`, `JobFlagFromOutput` | OutputSync_both, 3.6 million |
| InstitutionsProofs | `InstInv` | `MadeIsComplete`, `HalfMadeExplained`, `BucketsTraced`, `TypeFollowsRules` | Institutions_race, 0.2 million |

Why the strengthening is needed, and the argument it carries:

* **FileIngest.** `IngestInv` adds what a request's program counter says about the
  bucket (`BucketInv`: past the write, `validated/` and `raw/` hold the file), where
  contents come from (`ProvenanceInv`: only what was uploaded under the name), what
  an answer rests on (`RowInv`: a known row is committed; an inserted row lives between
  InsertRow and Commit) and who is responsible for a blob without a row
  (`CustodyInv`). Row uniqueness needs `NameLocked`: without the wait a second
  insert passes while the first is uncommitted, which is the mutant
  `NameNeverLocked`. `SingleUploadFaithful` follows from ProvenanceInv: one upload
  leaves one possible value for both blobs. The refinement has one lemma for each
  step the catalog can see (`WriteStores`, `CommitLists`).
* **FileLifecycle.** Next to deletions RowInv, BucketInv and CustodyInv are false. What
  remains of them is `ValidationKnows` and `BlobsHeld`, each with the way out `met`,
  and `DeletionKnows`: a deletion has every row of the names in its hands, and the
  blobs it took stay away, unless a validation met it. The key is that a validation
  under way on a name that a deletion holds is a meeting in that very state, so
  whatever either does to the other is already in `met`. A batch step is reduced first
  to one of five kinds (`BatchKinds`), an ingest step to what it may do to blobs
  and rows (`IngestEffect`), so that the conjuncts never look at single actions again.
* **BatchStore.** `RowKeys` (ids and names are keys, and the ids of the rows a request
  holds are not given away) is why rows that a deletion read before its storage calls
  are still the rows of those names at commit. `RequestsWellFormed` says that a deletion saw
  the links it will remove; since the flush refuses when one of them is gone, no
  row leaves without its batch.
* **InferenceRuns.** `RequestsKnow` says what each step of a trigger may rely on
  after the checks: the route, the inputs, that the run exists, and that the version
  fetched is at least the one current when the run started, unless the id was in use
  before (`foretold`). `JobsKnow` says that a job lacks its run id only if its version
  has none.
* **Reads.** `AccountsInv` (an id names one account for ever, also in promotions under
  way), `EdaInv` (what a request has read or still wants is a subset of files the batch
  once had) and `TableInv` (no version held anywhere is ahead of the table).
* **WorkerPull.** Every part, in a folder, behind a URL or in a bucket, is of the one version
  that was copied; `PullKnows` ties the pull's own record to the ids
  institutions have had.
* **Validation.** `StepKnows` says what the judgement has established at each step;
  `VerdictIsRight` then compares the last step with `Acceptable`.
* **OutputSync.** `RequestKnows` says of a snapshot that goes stale what is still
  true of it at the write. `RunHistory` says that a job is recorded once, before
  anything deletes it, and why a row of a snapshot can be missing by now: without it a
  sync with an old snapshot could complete a job whose csv row a deletion took.
* **Institutions.** `SetUpKnows` follows a creation through bucket, permission and pieces,
  with `adopted` and `doomed` for the creations and deletions that interfere;
  `PatchKnows` says that a PATCH that is alone on its row finds what it loaded;
  `DrawnIdFresh`, `HalfMadeInWork` and `BucketsInWork` name who is responsible for what
  is not finished.

Only model-checked: the six liveness properties (`ValidatedRecorded`,
`RequestsAnswered`, `DeletionCompletes`, `JobCompletes`, `RowsFollowBucket`,
`EveryInstitutionServed`), whose proofs need ENABLED, which is outside the prover's
reach. The proof about runs takes the rules of SchemaRules as they are; that a rule
says what it should is seen in the runs only.

## 5. Not modelled

* What validation finds in data frames, EDA summaries and their wording.
* Reads without effect: download URLs, listings, term filters, model cards,
  training configurations, the endpoints of `users.py`.
* Databricks and the worker's SFTP server, except for what this code can see.
* Password hashes and the form login of local environments.
* `upload_unvalidated_csv_from_file` and `move_file`: only tests call them.
* More than one institution in modules whose buckets and unique keys are per
  institution anyway.
* Migrations, Terraform, configuration: no run-time behaviour.

Three hazards of `PROJECT.json` have no property: the models contain the steps, but
no text of the repository says what must hold. Generated school ids may repeat,
two PATCHes of a batch may leave less than either asked for, and an output that
moves while its run is deleted may survive it.

## 6. Plan

Modelled and checked: all of the above. Proved: every safety property. What
is left to prove, most important first:

1. Abstract specifications of batches and of outputs, as FileCatalog is one of
   input files, and that BatchStore and OutputSync implement them.
2. That a batch of which a run was started is accepted by the configurations of its
   model, as a theorem about InferenceRuns, and the lemmas about SchemaRules
   it needs.
3. How FileLifecycle differs from its parts: that a behaviour in which no
   validation meets a deletion keeps FileIngest's `OrphanExplained` and BatchStore's
   `MissingBlobExplained`.
