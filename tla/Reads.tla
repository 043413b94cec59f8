------------------------------- MODULE Reads --------------------------------
(***************************************************************************)
(* The cached reads: the EDA summary of a batch (EDA_CACHE), and a table of *)
(* Databricks (version and response caches in memory, objects in a bucket). *)
(* Every request is admitted by Access first.  The endpoints run in threads *)
(* of one process; between looking a cache up and filling it anything may   *)
(* happen to the batch, its blobs, the table and the callers.               *)
(***************************************************************************)
EXTENDS Access

CONSTANTS
  FirstBatches,  \* batch -> its files, all batches of one institution
  BatchFiles,    \* the sets of files a batch may be given
  Home,          \* that institution
  Students,      \* files with the STUDENT schema
  Generated,     \* output files
  MaxVersions    \* bound on versions of the table

Batches == DOMAIN FirstBatches
Files == UNION BatchFiles
Versions == 1..MaxVersions

ASSUME ReadsAssumption ==
  /\ MaxVersions \in Nat \ {0}
  /\ FirstBatches \in [Batches -> BatchFiles]

VARIABLES
  batches,   \* batch -> its files, None once it is deleted
  blobs,     \* files there are under validated/
  eda,       \* EDA_CACHE: batch -> the files its summary was made from
  had,       \* history: <<batch, files>> pairs there have been
  version,   \* the table's version
  verCache,  \* L1_VER_CACHE
  l1,        \* L1_RESP_CACHE: version -> rows
  l2         \* the cache bucket: version -> rows

files == <<batches, blobs, had>>
caches == <<verCache, l1, l2>>
vars == <<who, req, changes, files, eda, version, caches>>

\* What the checks of the reads ask of a user.
Rights(u) == [role |-> u.role, inst |-> u.inst]

Goto(r, pc) == req' = [req EXCEPT ![r].pc = pc]

-----------------------------------------------------------------------------
(* get_eda_data                                                             *)

\* Both access checks and the batch's row and files come from the snapshot.
\* What is refused here has no effect.
StartEda(r) ==
  /\ req[r].pc = "done" /\ load[r] = "eda"
  /\ \E n \in tokens, b \in Batches, clear \in BOOLEAN : \E u \in Caller(n) :
       /\ MayRead(u, Home) /\ FullAccess(u) /\ batches[b] # None
       /\ req' = [req EXCEPT ![r] =
            [pc |-> IF clear THEN "clear" ELSE "look_up", user |-> Rights(u), batch |-> b,
             todo |-> batches[b] \ Generated, got |-> {}]]
  /\ UNCHANGED <<who, changes, files, eda, version, caches>>

ClearEda(r) ==
  /\ req[r].pc = "clear" /\ Goto(r, "look_up")
  /\ eda' = [eda EXCEPT ![req[r].batch] = None]
  /\ UNCHANGED <<who, changes, files, version, caches>>

AnswerEda(r, summary) ==
  req' = [req EXCEPT ![r] = [pc |-> "eda", user |-> @.user, batch |-> @.batch,
                             summary |-> summary]]

\* Fault: the key is the institution's id alone.
LookUpEdaByInst(r) ==
  /\ req[r].pc = "look_up"
  /\ IF \E b \in Batches : eda[b] # None
     THEN \E b \in Batches : eda[b] # None /\ AnswerEda(r, eda[b])
     ELSE Goto(r, "read")
  /\ UNCHANGED <<who, changes, files, eda, version, caches>>

LookUpEda(r) ==
  LET cached == eda[req[r].batch] IN
  /\ req[r].pc = "look_up"
  /\ IF cached # None THEN AnswerEda(r, cached) ELSE Goto(r, "read")
  /\ UNCHANGED <<who, changes, files, eda, version, caches>>

\* read_batch_files_as_dataframes: a file that is missing, or whose reading
\* fails, is left out.
ReadFile(r) ==
  /\ req[r].pc = "read"
  /\ \E f \in req[r].todo :
       \/ /\ f \in blobs
          /\ req' = [req EXCEPT ![r].todo = @ \ {f}, ![r].got = @ \cup {f}]
       \/ req' = [req EXCEPT ![r].todo = @ \ {f}]
  /\ UNCHANGED <<who, changes, files, eda, version, caches>>

\* Without a STUDENT file the answer is a 404 and nothing is cached.
StoreEda(r) ==
  /\ req[r].pc = "read" /\ req[r].todo = {}
  /\ IF req[r].got \cap Students = {}
     THEN UNCHANGED eda /\ req' = [req EXCEPT ![r] = Idle]
     ELSE /\ eda' = [eda EXCEPT ![req[r].batch] = req[r].got]
          /\ AnswerEda(r, req[r].got)
  /\ UNCHANGED <<who, changes, files, version, caches>>

-----------------------------------------------------------------------------
(* fetch_table_data, for the endpoints of front_end_tables.py               *)

\* What a SELECT gave: the table at a version, and whether no row is missing of
\* those the manifest counted; it need not count them (total_row_count).
Rows(v, asCounted) == [version |-> v, asCounted |-> asCounted]

AnswerTable(r, rows) ==
  req' = [req EXCEPT ![r] = [pc |-> "table", user |-> @.user, version |-> @.version,
                             rows |-> rows]]

StartTable(r) ==
  /\ req[r].pc = "done" /\ load[r] = "table"
  /\ \E n \in tokens : \E u \in Caller(n) :
       /\ MayRead(u, Home)
       /\ req' = [req EXCEPT ![r] = [pc |-> "version", user |-> Rights(u), version |-> None]]
  /\ UNCHANGED <<who, changes, files, eda, version, caches>>

LookUpVersion(r) ==
  /\ req[r].pc = "version"
  /\ req' = [req EXCEPT ![r].version = verCache,
               ![r].pc = IF verCache = None THEN "describe" ELSE "l1"]
  /\ UNCHANGED <<who, changes, files, eda, version, caches>>

\* DESCRIBE HISTORY, then the cache.
Describe(r) ==
  /\ req[r].pc = "describe"
  /\ \/ req[r].version = None /\ req' = [req EXCEPT ![r].version = version]
        /\ UNCHANGED verCache
     \/ req[r].version # None /\ Goto(r, "l1") /\ verCache' = req[r].version
  /\ UNCHANGED <<who, changes, files, eda, version, l1, l2>>

LookUpL1(r) ==
  LET cached == l1[req[r].version] IN
  /\ req[r].pc = "l1"
  /\ IF cached # None THEN AnswerTable(r, cached) ELSE Goto(r, "l2")
  /\ UNCHANGED <<who, changes, files, eda, version, caches>>

\* Any error of the bucket counts as a miss.
LookUpL2(r) ==
  LET cached == l2[req[r].version] IN
  /\ req[r].pc = "l2"
  /\ \/ /\ cached # None
        /\ l1' = [l1 EXCEPT ![req[r].version] = cached]
        /\ AnswerTable(r, cached)
     \/ Goto(r, "select") /\ UNCHANGED l1
  /\ UNCHANGED <<who, changes, files, eda, version, verCache, l2>>

\* The rows go to the cache in memory, and on to the bucket.
Take(r, rows) ==
  /\ l1' = [l1 EXCEPT ![req[r].version] = rows]
  /\ req' = [req EXCEPT ![r] = [pc |-> "store", user |-> @.user, version |-> @.version,
                               rows |-> rows]]

\* Fault: the number of rows is not compared with the manifest's.
SelectUnchecked(r) ==
  /\ req[r].pc = "select"
  /\ \E asCounted \in BOOLEAN : Take(r, Rows(version, asCounted))
  /\ UNCHANGED <<who, changes, files, eda, version, verCache, l2>>

\* SELECT * reads the table as it is now; rows of a link that is missing make
\* the number differ from the manifest's, if it has one, which is an error.
Select(r) ==
  /\ req[r].pc = "select"
  /\ \/ Take(r, Rows(version, TRUE))
     \/ UNCHANGED l1 /\ req' = [req EXCEPT ![r] = Idle]
  /\ UNCHANGED <<who, changes, files, eda, version, verCache, l2>>

\* if_generation_match=0: an object that is there stays; errors are ignored.
StoreL2(r) ==
  /\ req[r].pc = "store"
  /\ \/ l2' = (IF l2[req[r].version] = None
               THEN [l2 EXCEPT ![req[r].version] = req[r].rows] ELSE l2)
     \/ UNCHANGED l2
  /\ AnswerTable(r, req[r].rows)
  /\ UNCHANGED <<who, changes, files, eda, version, verCache, l1>>

Reply(r) ==
  /\ req[r].pc \in {"eda", "table"}
  /\ req' = [req EXCEPT ![r] = Idle]
  /\ UNCHANGED <<who, changes, files, eda, version, caches>>

-----------------------------------------------------------------------------
(* Around the requests: other endpoints and Databricks jobs (external)      *)

ChangeBatch ==
  /\ \E b \in Batches, fs \in BatchFiles \cup {None} :
       /\ batches[b] # None /\ fs # batches[b]
       /\ batches' = [batches EXCEPT ![b] = fs]
       /\ had' = IF fs = None THEN had ELSE had \cup {<<b, fs>>}
  /\ Change /\ UNCHANGED <<who, req, blobs, eda, version, caches>>

RemoveBlob ==
  /\ \E f \in blobs : blobs' = blobs \ {f}
  /\ Change /\ UNCHANGED <<who, req, batches, had, eda, version, caches>>

WriteTable ==
  /\ version < MaxVersions /\ version' = version + 1
  /\ Change /\ UNCHANGED <<who, req, files, eda, caches>>

\* Entries of the caches in memory expire, each after its time.
ExpireEda(b) ==
  /\ eda[b] # None /\ eda' = [eda EXCEPT ![b] = None]
  /\ UNCHANGED <<who, req, changes, files, version, caches>>

ExpireVersion ==
  /\ verCache # None /\ verCache' = None
  /\ UNCHANGED <<who, req, changes, files, eda, version, l1, l2>>

ExpireL1(v) ==
  /\ l1[v] # None /\ l1' = [l1 EXCEPT ![v] = None]
  /\ UNCHANGED <<who, req, changes, files, eda, version, verCache, l2>>

\* A new instance of the service starts with the bucket only.
Restart ==
  /\ Change /\ req' = [r \in Requests |-> Idle]
  /\ eda' = [b \in Batches |-> None]
  /\ verCache' = None /\ l1' = [v \in Versions |-> None]
  /\ UNCHANGED <<who, files, version, l2>>

Init ==
  /\ AccessInit
  /\ batches = FirstBatches /\ blobs = Files
  /\ had = {<<b, FirstBatches[b]>> : b \in Batches}
  /\ eda = [b \in Batches |-> None]
  /\ version = 1 /\ verCache = None
  /\ l1 = [v \in Versions |-> None] /\ l2 = [v \in Versions |-> None]

Read(r) ==
  \/ StartEda(r) \/ ClearEda(r) \/ LookUpEda(r) \/ ReadFile(r) \/ StoreEda(r)
  \/ StartTable(r) \/ LookUpVersion(r) \/ Describe(r) \/ LookUpL1(r) \/ LookUpL2(r)
  \/ Select(r) \/ StoreL2(r) \/ Reply(r)

Next ==
  \/ AccessNext /\ UNCHANGED <<files, eda, version, caches>>
  \/ \E r \in Requests : Read(r)
  \/ ChangeBatch \/ RemoveBlob \/ WriteTable
  \/ \E b \in Batches : ExpireEda(b)
  \/ ExpireVersion \/ \E v \in Versions : ExpireL1(v)
  \/ Restart

Spec == Init /\ [][Next]_vars

-----------------------------------------------------------------------------
(* Properties *)

\* A summary, fresh or cached, cleared or expired in between, is of input
\* files that the batch asked for had together at some time, of a student file
\* at least, and goes to a caller whom the request's snapshot lets read them
\* (get_eda_data).
EdaAnswerHonest ==
  \A r \in Requests : req[r].pc = "eda" =>
    /\ \E h \in had : h[1] = req[r].batch /\ req[r].summary \subseteq h[2] \ Generated
    /\ req[r].summary \cap Students # {}
    /\ MayRead(req[r].user, Home) /\ FullAccess(req[r].user)

\* What the caches hold under a version, and what is answered, is the table as
\* it was at that version or later, however the steps of requests, writes to the
\* table, expiries and restarts interleave, and no row is missing of those the
\* manifest counted; a manifest without a count lets any pass (fetch_table_data).
TableCacheSound ==
  LET Sound(rows, v) == rows = None \/ (rows.asCounted /\ rows.version >= v) IN
  /\ \A v \in Versions : Sound(l1[v], v) /\ Sound(l2[v], v)
  /\ \A r \in Requests : req[r].pc = "table" => Sound(req[r].rows, req[r].version)

UserRights == [role: Roles, inst: Insts \cup {None}]
RowsType == [version: Versions, asCounted: BOOLEAN]

EdaRequest ==
  [pc: {"clear", "look_up", "read"}, user: UserRights, batch: Batches,
   todo: SUBSET Files, got: SUBSET Files]
EdaAnswer == [pc: {"eda"}, user: UserRights, batch: Batches, summary: SUBSET Files]
TableRequest ==
  [pc: {"version", "describe", "l1", "l2", "select"}, user: UserRights,
   version: Versions \cup {None}]
TableAnswer ==
  [pc: {"store", "table"}, user: UserRights, version: Versions \cup {None}, rows: RowsType]

RequestType ==
  {Idle} \cup Promotion \cup EdaRequest \cup EdaAnswer \cup TableRequest \cup TableAnswer

\* Types of what the reads keep; callers have theirs in AccountsInv.
TypeOK ==
  /\ req \in [Requests -> RequestType]
  /\ batches \in [Batches -> BatchFiles \cup {None}]
  /\ eda \in [Batches -> (SUBSET Files) \cup {None}]
  /\ version \in Versions /\ verCache \in Versions \cup {None}
  /\ l1 \in [Versions -> RowsType \cup {None}]
  /\ l2 \in [Versions -> RowsType \cup {None}]

\* Files the batch had together at some time, generated ones left out.
InputOf(b, fs) == \E h \in had : h[1] = b /\ fs \subseteq h[2] \ Generated

\* The inductive invariant of the EDA reads: requests on their way and the cache
\* hold nothing but input the batch once had, for callers who may read it.
EdaInv ==
  /\ \A b \in Batches : batches[b] # None => <<b, batches[b]>> \in had
  /\ \A b \in Batches :
       eda[b] # None => InputOf(b, eda[b]) /\ eda[b] \cap Students # {}
  /\ \A r \in Requests : req[r].pc \in {"clear", "look_up", "read"} =>
       /\ InputOf(req[r].batch, req[r].todo \cup req[r].got)
       /\ MayRead(req[r].user, Home) /\ FullAccess(req[r].user)
  /\ EdaAnswerHonest

\* The inductive invariant of the table reads: no version that a cache or a
\* request holds is ahead of the table, and rows on their way to the caches are
\* as sound as those in them.
TableInv ==
  /\ verCache # None => verCache <= version
  /\ \A r \in Requests :
       req[r].pc \in {"describe", "l1", "l2", "select", "store", "table"} =>
         req[r].version = None \/ req[r].version <= version
  /\ \A r \in Requests :
       req[r].pc \in {"l1", "l2", "select", "store", "table"} => req[r].version # None
  /\ \A r \in Requests : req[r].pc = "store" =>
       req[r].rows.asCounted /\ req[r].rows.version >= req[r].version
  /\ TableCacheSound

ReadsInv == TypeOK /\ AccountsInv /\ EdaInv /\ TableInv
=============================================================================
