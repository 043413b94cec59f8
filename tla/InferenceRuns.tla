--------------------------- MODULE InferenceRuns ---------------------------
(***************************************************************************)
(* Models of one institution, under one name, and their inference runs.     *)
(* Requests create, archive and delete the model, trigger and delete runs,  *)
(* add jobs of custom schools and backfill job metadata.  Each works from   *)
(* the snapshot its first read takes; Databricks starts runs and knows the versions of   *)
(* the registered model, and is no part of the database transaction.        *)
(***************************************************************************)
EXTENDS SchemaRules

CONSTANTS
  Requests,      \* request threads, each serving one request at a time
  ModelIds,      \* ids a model row may get
  RunIds,        \* ids of the runs Databricks starts for a request
  CustomRuns,    \* ids a client may add a job under, of whichever runs
  MaxVersions,   \* bound on registered versions of the model
  Setups,        \* what a trigger finds, see setup
  None

ASSUME InferenceAssumption ==
  /\ MaxVersions \in Nat
  /\ None \notin RunIds \cup CustomRuns
  /\ None \notin {"mlflow", "None"}
  /\ \A s \in Setups :
       /\ \A f \in s.batch : f.types \subseteq SchemaType
       /\ \A p \in s.pipelines : p.kind \in {"exact", "cloudrun", "dev"}

VARIABLES
  setup,     \* the institution's school types and schemas, the model's stored
             \* configs, the batch's files, the Databricks jobs whose name
             \* contains the pipeline's; none of these requests changes them
  models,    \* committed model rows
  jobs,      \* committed job rows
  versions,  \* run ids of the registered versions, the latest last
  runs,      \* inference runs Databricks has started
  req,       \* what each request thread does
  lost,      \* runs whose request failed before their job was recorded
  dropped    \* runs whose job was deleted, with its model or on request

vars == <<setup, models, jobs, versions, runs, req, lost, dropped>>

Idle == [pc |-> "done", model |-> None, run |-> None, version |-> 0, runId |-> None]

\* The thread goes on, and nothing else changes but what the action says.
Goto(q, pc) == req' = [req EXCEPT ![q].pc = pc]

\* get_session rolls back; a run Databricks has started goes on.
Abort(q) ==
  /\ req' = [req EXCEPT ![q] = Idle]
  /\ lost' = IF req[q].pc = "started" THEN lost \cup {req[q].run} ELSE lost
  /\ UNCHANGED <<setup, models, jobs, versions, runs, dropped>>

Unused(ids, rows) == ids \ {x.id : x \in rows}

\* Ids are never given twice: neither in the table nor held by a request.
NewModelIds == Unused(ModelIds, models) \ {req[q].model : q \in Requests}

Last(s) == s[Len(s)]

\* Job rows of a model.
JobsOf(m) == {j \in jobs : j.model = m}

\* The columns model_run_id and model_version, null in old rows.
Complete(j) == j.version # 0 /\ j.runId # None

-----------------------------------------------------------------------------
(* create_model, archive_model, delete_model                                *)

\* The look-up of an existing model, which is answered as it is.
StartCreate(q) ==
  /\ req[q].pc = "done" /\ models = {}
  /\ Goto(q, "creating")
  /\ UNCHANGED <<setup, models, jobs, versions, runs, lost, dropped>>

\* Insert and commit; the unique constraint refuses a second row.
CommitCreate(q) ==
  /\ req[q].pc = "creating"
  /\ IF models = {}
     THEN /\ \E m \in NewModelIds :
               models' = {[id |-> m, archived |-> FALSE]}
          /\ req' = [req EXCEPT ![q] = Idle]
          /\ UNCHANGED <<setup, jobs, versions, runs, lost, dropped>>
     ELSE Abort(q)

\* 404 without a model, 409 for an archived one.
StartArchive(q) ==
  /\ req[q].pc = "done"
  /\ \E m \in models :
       /\ ~m.archived
       /\ req' = [req EXCEPT ![q] = [Idle EXCEPT !.pc = "archiving", !.model = m.id]]
  /\ UNCHANGED <<setup, models, jobs, versions, runs, lost, dropped>>

\* The UPDATE of a row that is gone is a StaleDataError.
CommitArchive(q) ==
  /\ req[q].pc = "archiving"
  /\ IF \E m \in models : m.id = req[q].model
     THEN /\ models' = {[m EXCEPT !.archived = TRUE] : m \in models}
          /\ req' = [req EXCEPT ![q] = Idle]
          /\ UNCHANGED <<setup, jobs, versions, runs, lost, dropped>>
     ELSE Abort(q)

StartDelete(q) ==
  /\ req[q].pc = "done"
  /\ \E m \in models :
       req' = [req EXCEPT ![q] = [Idle EXCEPT !.pc = "deleting", !.model = m.id]]
  /\ UNCHANGED <<setup, models, jobs, versions, runs, lost, dropped>>

\* The row goes, if it is still there, and its jobs by ON DELETE CASCADE.
CommitDelete(q) ==
  /\ req[q].pc = "deleting"
  /\ models' = {m \in models : m.id # req[q].model}
  /\ jobs' = jobs \ JobsOf(req[q].model)
  /\ dropped' = dropped \cup {j.id : j \in JobsOf(req[q].model)}
  /\ req' = [req EXCEPT ![q] = Idle]
  /\ UNCHANGED <<setup, versions, runs, lost>>

-----------------------------------------------------------------------------
(* trigger_inference_run                                                    *)

\* More than one school type is a 500, none a 501.
Route ==
  IF Cardinality(setup.school) # 1 THEN "none"
  ELSE IF setup.school = {"pdp"} THEN "pdp"
  ELSE IF setup.school = {"legacy"} THEN "legacy" ELSE "es"

Ofs(t) == {f \in setup.batch : t \in f.types}

\* get_filepath_of_filetype: any file of the type, as the set yields them.
FileOf(t) == IF Ofs(t) = {} THEN {None} ELSE Ofs(t)

\* batch_input_validated_blob_paths
InputFiles == {f \in setup.batch : ~f.generated}

\* Fault: check_types asks for a course file only.
InputsKnownCourse == IF Route = "pdp" THEN Ofs("COURSE") # {} ELSE InputFiles # {}

\* run_pdp_inference wants both types; the others want an input file.
InputsKnown ==
  IF Route = "pdp" THEN Ofs("COURSE") # {} /\ Ofs("STUDENT") # {} ELSE InputFiles # {}

Configs == ResolvedConfigs(setup.configs, setup.schemas)

\* Fault: the version is looked up before the run is started.
StartTriggerEarly(q) ==
  /\ req[q].pc = "done"
  /\ Route # "none"
  /\ Accepted(BatchTypes(setup.batch), Configs)
  /\ InputsKnown
  /\ versions # <<>>
  /\ \E m \in models :
       req' = [req EXCEPT ![q] = [Idle EXCEPT !.pc = "triggered", !.model = m.id,
                 !.version = Len(versions), !.runId = Last(versions)]]
  /\ UNCHANGED <<setup, models, jobs, versions, runs, lost, dropped>>

\* Everything trigger_inference_run checks, in one snapshot.
StartTrigger(q) ==
  /\ req[q].pc = "done"
  /\ Route # "none"
  /\ Accepted(BatchTypes(setup.batch), Configs)
  /\ InputsKnown
  /\ \E m \in models :
       req' = [req EXCEPT ![q] = [Idle EXCEPT !.pc = "triggered", !.model = m.id]]
  /\ UNCHANGED <<setup, models, jobs, versions, runs, lost, dropped>>

Named(kind) == {p \in setup.pipelines : p.kind = kind}
FirstOf(S) == {p \in S : \A o \in S : p.rank <= o.rank}

\* _disambiguate_pipeline_job_matches: the first of the Cloud Run bundle's
\* jobs, else the first.  A single match is its own first.
Disambiguated ==
  IF Named("cloudrun") # {} THEN FirstOf(Named("cloudrun")) ELSE FirstOf(setup.pipelines)

\* _resolve_pipeline_job: the exact name if it has an id.
PipelineJob ==
  LET exact == {p \in Named("exact") : p.hasId} IN
  IF exact # {} THEN exact ELSE {p \in Disambiguated : p.hasId}

IdInUse(i) == i \in {j.id : j \in jobs} \/ \E q \in Requests : req[q].run = i

RunFiles ==
  IF Route = "pdp" THEN {{s, c} : s \in FileOf("STUDENT"), c \in FileOf("COURSE")}
  ELSE {InputFiles}

\* run_now starts a run; a failed call, or an answer without a run id, is an
\* error, whether or not the run was started.  foretold: a client had already
\* added, or was adding, a job under its id.
StartRun(q) ==
  /\ req[q].pc = "triggered" /\ PipelineJob # {}
  /\ \E i \in Unused(RunIds, runs), files \in RunFiles, p \in PipelineJob :
       /\ runs' = runs \cup {[id |-> i, route |-> Route, files |-> files, pipeline |-> p,
                              since |-> Len(versions), foretold |-> IdInUse(i)]}
       /\ \/ req' = [req EXCEPT ![q].pc = "started", ![q].run = i] /\ UNCHANGED lost
          \/ req' = [req EXCEPT ![q] = Idle] /\ lost' = lost \cup {i}
  /\ UNCHANGED <<setup, models, jobs, versions, dropped>>

\* Fault: without a version the request is answered and nothing is recorded.
FetchVersionLenient(q) ==
  /\ req[q].pc \in {"started", "backfilling", "adding"} /\ req[q].version = 0
  /\ IF versions = <<>>
     THEN /\ req' = [req EXCEPT ![q] = Idle]
          /\ UNCHANGED <<setup, models, jobs, versions, runs, lost, dropped>>
     ELSE /\ req' = [req EXCEPT ![q].version = Len(versions), ![q].runId = Last(versions)]
          /\ UNCHANGED <<setup, models, jobs, versions, runs, lost, dropped>>

\* fetch_model_version: the greatest number; no version is a ValueError.
FetchVersion(q) ==
  /\ req[q].pc \in {"started", "backfilling", "adding"} /\ req[q].version = 0
  /\ IF versions = <<>> THEN Abort(q)
     ELSE /\ req' = [req EXCEPT ![q].version = Len(versions), ![q].runId = Last(versions)]
          /\ UNCHANGED <<setup, models, jobs, versions, runs, lost, dropped>>

Job(q) ==
  [id |-> req[q].run, model |-> req[q].model, version |-> req[q].version,
   runId |-> req[q].runId]

\* The job row is written when the session commits, with its foreign key to
\* the model and its primary key, the run.
RecordJob(q) ==
  /\ req[q].pc \in {"started", "adding"} /\ req[q].version # 0
  /\ IF /\ \E m \in models : m.id = req[q].model
        /\ req[q].run \notin {j.id : j \in jobs}
     THEN /\ jobs' = jobs \cup {Job(q)}
          /\ req' = [req EXCEPT ![q] = Idle]
          /\ UNCHANGED <<setup, models, versions, runs, lost, dropped>>
     ELSE Abort(q)

-----------------------------------------------------------------------------
(* delete_model_run, add_custom_school_job, backfill_model_runs             *)

\* The look-up of the model and, among its jobs, of the run.
StartDeleteRun(q) ==
  /\ req[q].pc = "done"
  /\ \E m \in models : \E j \in JobsOf(m.id) :
       req' = [req EXCEPT ![q] = [Idle EXCEPT !.pc = "deleting_run", !.run = j.id]]
  /\ UNCHANGED <<setup, models, jobs, versions, runs, lost, dropped>>

\* After the outputs, which OutputSync models, the job row goes by its id.
CommitDeleteRun(q) ==
  /\ req[q].pc = "deleting_run"
  /\ jobs' = {j \in jobs : j.id # req[q].run}
  /\ dropped' = dropped \cup {j.id : j \in jobs \ jobs'}
  /\ req' = [req EXCEPT ![q] = Idle]
  /\ UNCHANGED <<setup, models, versions, runs, lost>>

\* The run id is the client's, whatever run that is.
StartAdd(q) ==
  /\ req[q].pc = "done"
  /\ \E m \in models, i \in CustomRuns :
       req' = [req EXCEPT ![q] = [Idle EXCEPT !.pc = "adding", !.model = m.id, !.run = i]]
  /\ UNCHANGED <<setup, models, jobs, versions, runs, lost, dropped>>

\* The look-up of the model; its absence is only noticed after the fetch.
StartBackfill(q) ==
  /\ req[q].pc = "done"
  /\ req' = [req EXCEPT ![q] = [Idle EXCEPT !.pc = "backfilling",
               !.model = IF models = {} THEN None ELSE (CHOOSE m \in models : TRUE).id]]
  /\ UNCHANGED <<setup, models, jobs, versions, runs, lost, dropped>>

\* str(None) is a text like any other.
AsText(runId) == IF runId = None THEN "None" ELSE runId

Filled(q, j) == [j EXCEPT !.version = req[q].version, !.runId = AsText(req[q].runId)]

\* Fault: the UPDATE takes every job of the model.
CommitBackfillAll(q) ==
  /\ req[q].pc = "backfilling" /\ req[q].version # 0
  /\ IF req[q].model = None THEN Abort(q)
     ELSE /\ jobs' = (jobs \ JobsOf(req[q].model))
                       \cup {Filled(q, j) : j \in JobsOf(req[q].model)}
          /\ req' = [req EXCEPT ![q] = Idle]
          /\ UNCHANGED <<setup, models, versions, runs, lost, dropped>>

\* The UPDATE takes the model's jobs that lack one of the two, and sets both.
CommitBackfill(q) ==
  LET old == {j \in JobsOf(req[q].model) : ~Complete(j)} IN
  /\ req[q].pc = "backfilling" /\ req[q].version # 0
  /\ IF req[q].model = None THEN Abort(q)
     ELSE /\ jobs' = (jobs \ old) \cup {Filled(q, j) : j \in old}
          /\ req' = [req EXCEPT ![q] = Idle]
          /\ UNCHANGED <<setup, models, versions, runs, lost, dropped>>

-----------------------------------------------------------------------------

\* External: training registers a version, with or without an MLflow run.
RegisterVersion ==
  /\ Len(versions) < MaxVersions
  /\ \E r \in {"mlflow", None} : versions' = Append(versions, r)
  /\ UNCHANGED <<setup, models, jobs, runs, req, lost, dropped>>

\* An error of Databricks or the database, or a crash, between two steps.
Fail(q) == req[q].pc # "done" /\ Abort(q)

Init ==
  /\ setup \in Setups
  /\ models = {} /\ jobs = {} /\ versions = <<>> /\ runs = {}
  /\ req = [q \in Requests |-> Idle]
  /\ lost = {} /\ dropped = {}

Step(q) ==
  \/ StartCreate(q) \/ CommitCreate(q)
  \/ StartArchive(q) \/ CommitArchive(q)
  \/ StartDelete(q) \/ CommitDelete(q)
  \/ StartTrigger(q) \/ StartRun(q) \/ FetchVersion(q) \/ RecordJob(q)
  \/ StartDeleteRun(q) \/ CommitDeleteRun(q)
  \/ StartAdd(q) \/ StartBackfill(q) \/ CommitBackfill(q)
  \/ Fail(q)

Next == (\E q \in Requests : Step(q)) \/ RegisterVersion

Spec == Init /\ [][Next]_vars

-----------------------------------------------------------------------------
(* Properties *)

RequestType ==
  [pc: {"done", "creating", "archiving", "deleting", "triggered", "started",
        "deleting_run", "adding", "backfilling"},
   model: ModelIds \cup {None}, run: RunIds \cup CustomRuns \cup {None},
   version: Nat, runId: {"mlflow", None}]

JobType ==
  [id: RunIds \cup CustomRuns, model: ModelIds, version: Nat,
   runId: {"mlflow", None, "None"}]

\* Types; what a run remembers of its start lies in the past.
TypeOK ==
  /\ setup \in Setups
  /\ models \subseteq [id: ModelIds, archived: BOOLEAN]
  /\ jobs \subseteq JobType
  /\ versions \in Seq({"mlflow", None})
  /\ \A r \in runs : r.id \in RunIds /\ r.since \in 0..Len(versions)
  /\ req \in [Requests -> RequestType]

\* A run that Databricks started is on record, or about to be, or its request
\* failed after the start, or its job was deleted, with its model or by
\* delete_model_run (trigger_inference_run starts first and records last).
RunTraced ==
  \A r \in runs :
    \/ \E j \in jobs : j.id = r.id
    \/ \E q \in Requests : req[q].pc = "started" /\ req[q].run = r.id
    \/ r.id \in lost \cup dropped

\* The version on record for a run is none that was already superseded when
\* the run was started (fetch_model_version comes after run_now, not before).
\* Only a job whose version had no MLflow run may be given an older one, by a
\* backfill that looked the version up before the run, and one that a client
\* added under the run's id before Databricks gave the id out.
VersionNotOlder ==
  \A j \in jobs, r \in runs :
    j.id = r.id =>
      \/ j.version >= r.since \/ r.foretold
      \/ \E v \in DOMAIN versions : v >= r.since /\ versions[v] = None

\* Each run was given what its pipeline needs, by the checks of the router and
\* of the Databricks client together: for PDP a cohort and a course file, else
\* every input file and at least one; and it ran on the job of exactly the
\* pipeline's name or of the Cloud Run bundle if there is one with an id.
RunWellPosed ==
  \A r \in runs :
    /\ r.files \subseteq setup.batch /\ r.files # {}
    /\ r.route = "pdp" => \A t \in {"STUDENT", "COURSE"} : \E f \in r.files : t \in f.types
    /\ r.route # "pdp" => \A f \in setup.batch : f \in r.files <=> ~f.generated
    /\ r.pipeline.kind = "dev" => ~\E p \in setup.pipelines : p.hasId /\ p.kind # "dev"

\* What a request knows is true: its checks still hold when the run starts, its
\* run was started, the version it fetched is no older than that run.
RequestsKnow ==
  \A q \in Requests :
    /\ req[q].pc = "done" => req[q] = Idle
    /\ req[q].pc = "triggered" => Route # "none" /\ InputsKnown /\ req[q].version = 0
    /\ req[q].run # None => req[q].pc \in {"started", "deleting_run", "adding"}
    /\ req[q].pc = "adding" => req[q].run \in CustomRuns
    /\ req[q].pc = "started" => \E r \in runs : r.id = req[q].run
    /\ req[q].version # 0 =>
         /\ req[q].version \in DOMAIN versions
         /\ req[q].runId = versions[req[q].version]
         /\ \A r \in runs : r.id = req[q].run => req[q].version >= r.since \/ r.foretold

\* A job on record is of a run that was started and has a version; its run id
\* is only missing where that version was registered without one.
JobsKnow ==
  \A j \in jobs :
    /\ j.id \in CustomRuns \/ \E r \in runs : r.id = j.id
    /\ j.version # 0
    /\ j.runId = None => j.version \in DOMAIN versions /\ versions[j.version] = None

\* The inductive invariant of inference runs: what requests and jobs know of the
\* versions is what keeps the records of runs from getting older.
RunsInv ==
  /\ TypeOK
  /\ RequestsKnow
  /\ JobsKnow
  /\ RunTraced
  /\ VersionNotOlder
  /\ RunWellPosed

\* A job whose version and run id are known keeps both, whatever backfills run
\* on its model; it only goes with its model, or at the end of a request to
\* delete its run (delete_model, delete_model_run).
RecordedStays ==
  [][\A j \in jobs : Complete(j) =>
       \/ j \in jobs'
       \/ /\ j.id \in dropped'
          /\ \/ ~\E m \in models' : m.id = j.model
             \/ \E q \in Requests : /\ req[q].pc = "deleting_run" /\ req[q].run = j.id
                                    /\ req'[q].pc = "done"]_vars

\* SchemaConfigObj: an entry neither optional nor multiple wants "1 and only 1
\* of these file types".  Refuted: the types of a batch are merged first.
OneFilePerType ==
  \A r \in runs :
    \E c \in Configs :
      \A k \in DOMAIN c :
        ~c[k].optional /\ ~c[k].multiple => Cardinality(Ofs(c[k].type)) = 1
=============================================================================
