------------------------ MODULE InferenceRunsProofs ------------------------
(***************************************************************************)
(* Proofs about InferenceRuns for any sets of requests, models, runs and    *)
(* setups, and any number of versions.                                     *)
(***************************************************************************)
EXTENDS InferenceRuns, TLAPS

\* A free slot is a request record.
LEMMA IdleType == Idle \in RequestType
  BY DEF Idle, RequestType

\* A slot that takes a new request record leaves the others as they are.
LEMMA SlotType ==
  ASSUME TypeOK, NEW q \in Requests, NEW v \in RequestType, req' = [req EXCEPT ![q] = v]
  PROVE  /\ req' \in [Requests -> RequestType]
         /\ req'[q] = v /\ \A p \in Requests : p # q => req'[p] = req[p]
  BY DEF TypeOK

\* What a request that gives up leaves behind.
LEMMA AbortEffect ==
  ASSUME TypeOK, NEW q \in Requests, Abort(q)
  PROVE  /\ req' \in [Requests -> RequestType]
         /\ req'[q] = Idle /\ \A p \in Requests : p # q => req'[p] = req[p]
         /\ req[q].pc = "started" => req[q].run \in lost'
         /\ lost \subseteq lost'
         /\ UNCHANGED <<setup, models, jobs, versions, runs, dropped>>
  BY IdleType, SlotType DEF Abort

\* Registering a version keeps the older ones at their numbers.
LEMMA VersionsGrow ==
  ASSUME TypeOK, RegisterVersion
  PROVE  /\ versions' \in Seq({"mlflow", None})
         /\ Len(versions') = Len(versions) + 1
         /\ \A v \in DOMAIN versions : v \in DOMAIN versions' /\ versions'[v] = versions[v]
<1>1. PICK r \in {"mlflow", None} : versions' = Append(versions, r)
  BY DEF RegisterVersion
<1> QED
  BY <1>1 DEF TypeOK

\* The latest version is one that was registered.
LEMMA LatestVersion ==
  ASSUME TypeOK, versions # <<>>
  PROVE  /\ Len(versions) \in DOMAIN versions /\ Len(versions) \in Nat \ {0}
         /\ Last(versions) = versions[Len(versions)]
         /\ Last(versions) \in {"mlflow", None}
  BY DEF TypeOK, Last

\* The first read of a request: the slot was free, and what it takes is a
\* request without a run or with the run of a job to be deleted or added.
Begins(q) ==
  /\ req[q].pc = "done"
  /\ req'[q].version = 0
  /\ \/ /\ req'[q].run = None
        /\ req'[q].pc \in {"creating", "archiving", "deleting", "backfilling"}
     \/ req'[q].run \in CustomRuns /\ req'[q].pc = "adding"
     \/ req'[q].pc = "deleting_run"
     \/ /\ req'[q].run = None /\ req'[q].pc = "triggered"
        /\ Route # "none" /\ InputsKnown
  /\ \A p \in Requests : p # q => req'[p] = req[p]
  /\ req' \in [Requests -> RequestType]
  /\ UNCHANGED <<setup, models, jobs, versions, runs, lost, dropped>>

\* The record a slot takes for a request on a model, and for a custom job.
LEMMA ModelSlot ==
  ASSUME NEW pc \in {"creating", "archiving", "deleting", "backfilling", "triggered"},
         NEW m \in ModelIds \cup {None},
         NEW v, v = [Idle EXCEPT !.pc = pc, !.model = m]
  PROVE  v \in RequestType /\ v.pc = pc /\ v.run = None /\ v.version = 0
  BY DEF Idle, RequestType

\* The slot of a request that adds a custom school's job.
LEMMA CustomSlot ==
  ASSUME NEW m \in ModelIds, NEW i \in CustomRuns,
         NEW v \in {[Idle EXCEPT !.pc = "adding", !.model = m, !.run = i]}
  PROVE  v \in RequestType /\ v.pc = "adding" /\ v.run = i /\ v.version = 0
<1>1. v = [Idle EXCEPT !.pc = "adding", !.model = m, !.run = i]
  OBVIOUS
<1> QED
  BY <1>1 DEF Idle, RequestType

\* The slot of a request that deletes a run's job.
LEMMA DeleteRunSlot ==
  ASSUME NEW i \in RunIds \cup CustomRuns,
         NEW v, v = [Idle EXCEPT !.pc = "deleting_run", !.run = i]
  PROVE  v \in RequestType /\ v.pc = "deleting_run" /\ v.version = 0
  BY DEF Idle, RequestType

\* Every request begins like that.
LEMMA BeginsEffect ==
  ASSUME TypeOK, RequestsKnow, NEW q \in Requests,
         \/ StartCreate(q) \/ StartArchive(q) \/ StartDelete(q) \/ StartTrigger(q)
         \/ StartAdd(q) \/ StartBackfill(q) \/ StartDeleteRun(q)
  PROVE  Begins(q)
<1>1. CASE StartCreate(q)
  <2>1. req[q] = Idle
    BY <1>1 DEF RequestsKnow, StartCreate
  <2> QED
    BY <1>1, <2>1 DEF StartCreate, Goto, Begins, Idle, TypeOK, RequestType
<1>2. ASSUME NEW pc \in {"archiving", "deleting", "backfilling", "triggered"},
             NEW m \in ModelIds \cup {None}, req[q].pc = "done",
             req' = [req EXCEPT ![q] = [Idle EXCEPT !.pc = pc, !.model = m]],
             pc = "triggered" => Route # "none" /\ InputsKnown,
             UNCHANGED <<setup, models, jobs, versions, runs, lost, dropped>>
      PROVE  Begins(q)
  <2> DEFINE v == [Idle EXCEPT !.pc = pc, !.model = m]
  <2>1. v \in RequestType /\ v.pc = pc /\ v.run = None /\ v.version = 0
    BY ModelSlot
  <2>2. req' = [req EXCEPT ![q] = v]
    BY <1>2
  <2> HIDE DEF v
  <2> QED
    BY <1>2, <2>1, <2>2, SlotType DEF Begins
<1>3. \A m \in models : m.id \in ModelIds
  BY DEF TypeOK
<1>4. CASE StartArchive(q)
  BY <1>2, <1>3, <1>4 DEF StartArchive
<1>5. CASE StartDelete(q)
  BY <1>2, <1>3, <1>5 DEF StartDelete
<1>6. CASE StartTrigger(q)
  BY <1>2, <1>3, <1>6 DEF StartTrigger
<1>7. CASE StartAdd(q)
  <2>1. PICK m \in ModelIds, i \in CustomRuns :
          req' = [req EXCEPT ![q] = [Idle EXCEPT !.pc = "adding", !.model = m, !.run = i]]
    BY <1>3, <1>7 DEF StartAdd
  <2> DEFINE v == [Idle EXCEPT !.pc = "adding", !.model = m, !.run = i]
  <2>2. v \in RequestType /\ v.pc = "adding" /\ v.run = i /\ v.version = 0
    BY CustomSlot
  <2>3. req' = [req EXCEPT ![q] = v]
    BY <2>1
  <2> HIDE DEF v
  <2> QED
    BY <1>7, <2>2, <2>3, SlotType DEF StartAdd, Begins
<1>8. CASE StartBackfill(q)
  <2> DEFINE m == IF models = {} THEN None ELSE (CHOOSE x \in models : TRUE).id
  <2>1. m \in ModelIds \cup {None}
    <3>1. models # {} => (CHOOSE x \in models : TRUE) \in models
      OBVIOUS
    <3> QED
      BY <1>3, <3>1
  <2>2. req' = [req EXCEPT ![q] = [Idle EXCEPT !.pc = "backfilling", !.model = m]]
    BY <1>8 DEF StartBackfill
  <2> HIDE DEF m
  <2> QED
    BY <1>2, <1>8, <2>1, <2>2 DEF StartBackfill
<1>9. CASE StartDeleteRun(q)
  <2>1. PICK j \in jobs :
          req' = [req EXCEPT ![q] = [Idle EXCEPT !.pc = "deleting_run", !.run = j.id]]
    BY <1>9 DEF StartDeleteRun, JobsOf
  <2>2. j.id \in RunIds \cup CustomRuns
    BY DEF TypeOK, JobType
  <2> DEFINE v == [Idle EXCEPT !.pc = "deleting_run", !.run = j.id]
  <2>3. v \in RequestType /\ v.pc = "deleting_run" /\ v.version = 0
    BY <2>2, DeleteRunSlot
  <2>4. req' = [req EXCEPT ![q] = v]
    BY <2>1
  <2> HIDE DEF v
  <2> QED
    BY <1>9, <2>3, <2>4, SlotType DEF StartDeleteRun, Begins
<1> QED
  BY <1>1, <1>4, <1>5, <1>6, <1>7, <1>8, <1>9
-----------------------------------------------------------------------------
(* The inductive invariant                                                  *)

\* The checks of a trigger look at what these requests never change.
LEMMA ChecksFrame ==
  ASSUME UNCHANGED setup
  PROVE  Route' = Route /\ InputsKnown' = InputsKnown
  BY DEF Route, InputsKnown, InputFiles, Ofs

\* A request that is over keeps the others' knowledge true.
LEMMA IdleKnows ==
  ASSUME TypeOK, RequestsKnow, NEW q \in Requests, req'[q] = Idle,
         \A p \in Requests : p # q => req'[p] = req[p],
         UNCHANGED <<setup, versions, runs>>
  PROVE  RequestsKnow'
  BY IdleType, ChecksFrame DEF RequestsKnow, Idle

\* What only looks at runs, jobs and versions.
LEMMA RecordsFrame ==
  ASSUME JobsKnow, VersionNotOlder, UNCHANGED <<jobs, versions, runs>>
  PROVE  JobsKnow' /\ VersionNotOlder'
  BY DEF JobsKnow, VersionNotOlder

\* Runs stay well posed while none is started.
LEMMA PosedFrame ==
  ASSUME RunWellPosed, UNCHANGED <<setup, runs>> PROVE RunWellPosed'
  BY DEF RunWellPosed

\* A run stays traced by any slot but the one that is over.
LEMMA TracedFrame ==
  ASSUME RunTraced, UNCHANGED runs, NEW q \in Requests,
         \A p \in Requests : p # q => req'[p] = req[p],
         \A j \in jobs : (\E k \in jobs' : k.id = j.id) \/ j.id \in dropped',
         lost \cup dropped \subseteq lost' \cup dropped',
         \A r \in runs : req[q].pc = "started" /\ req[q].run = r.id =>
           \/ req'[q].pc = "started" /\ req'[q].run = r.id
           \/ \E j \in jobs' : j.id = r.id
           \/ r.id \in lost'
  PROVE  RunTraced'
<1> SUFFICES ASSUME NEW r \in runs
             PROVE  \/ \E j \in jobs' : j.id = r.id
                    \/ \E p \in Requests : req'[p].pc = "started" /\ req'[p].run = r.id
                    \/ r.id \in lost' \cup dropped'
  BY DEF RunTraced
<1>1. CASE \E j \in jobs : j.id = r.id
  BY <1>1
<1>2. CASE \E p \in Requests : req[p].pc = "started" /\ req[p].run = r.id
  BY <1>2
<1>3. CASE r.id \in lost \cup dropped
  BY <1>3
<1> QED
  BY <1>1, <1>2, <1>3 DEF RunTraced

\* A first read.
LEMMA BeginsKeeps ==
  ASSUME RunsInv, NEW q \in Requests, Begins(q) PROVE RunsInv'
<1>1. TypeOK'
  BY DEF RunsInv, TypeOK, Begins
<1>2. req[q].pc = "done"
  BY DEF Begins
<1>3. RequestsKnow'
  <2>1. \A r \in runs : r.id # None
    BY InferenceAssumption DEF RunsInv, TypeOK
  <2> QED
    BY <2>1, ChecksFrame, InferenceAssumption DEF RunsInv, RequestsKnow, Begins
<1>4. RunTraced'
  BY <1>2, TracedFrame DEF RunsInv, Begins
<1> QED
  BY <1>1, <1>3, <1>4, RecordsFrame, PosedFrame DEF RunsInv, Begins

\* A request that gives up.
LEMMA AbortKeeps ==
  ASSUME RunsInv, NEW q \in Requests, Abort(q) PROVE RunsInv'
<1>0. TypeOK
  BY DEF RunsInv
<1>1. TypeOK'
  BY <1>0, AbortEffect DEF TypeOK
<1>2. RequestsKnow'
  BY <1>0, AbortEffect, IdleKnows DEF RunsInv
<1>3. RunTraced'
  BY <1>0, AbortEffect, TracedFrame DEF RunsInv
<1> QED
  BY <1>0, <1>1, <1>2, <1>3, AbortEffect, RecordsFrame, PosedFrame DEF RunsInv

\* A commit that only writes the model's row.
LEMMA ModelCommitKeeps ==
  ASSUME RunsInv, NEW q \in Requests, CommitCreate(q) \/ CommitArchive(q) PROVE RunsInv'
<1>1. CASE Abort(q)
  BY <1>1, AbortKeeps
<1>2. CASE ~Abort(q)
  <2>1. /\ req' = [req EXCEPT ![q] = Idle]
        /\ UNCHANGED <<setup, jobs, versions, runs, lost, dropped>>
        /\ req[q].pc \in {"creating", "archiving"}
    BY <1>2 DEF CommitCreate, CommitArchive
  <2>2. /\ req' \in [Requests -> RequestType] /\ req'[q] = Idle
        /\ \A p \in Requests : p # q => req'[p] = req[p]
    BY <2>1, IdleType, SlotType DEF RunsInv
  <2>3. models' \subseteq [id: ModelIds, archived: BOOLEAN]
    <3>1. ASSUME CommitCreate(q) PROVE models' \subseteq [id: ModelIds, archived: BOOLEAN]
      <4>1. PICK m \in NewModelIds : models' = {[id |-> m, archived |-> FALSE]}
        BY <1>2, <3>1 DEF CommitCreate
      <4>2. m \in ModelIds
        BY DEF NewModelIds, Unused
      <4> QED
        BY <4>1, <4>2
    <3>2. ASSUME CommitArchive(q), NEW m \in models'
          PROVE  m \in [id: ModelIds, archived: BOOLEAN]
      <4>1. PICK o \in models : m = [o EXCEPT !.archived = TRUE]
        BY <1>2, <3>2 DEF CommitArchive
      <4>2. o \in [id: ModelIds, archived: BOOLEAN]
        BY DEF RunsInv, TypeOK
      <4> QED
        BY <4>1, <4>2
    <3> QED
      BY <3>1, <3>2
  <2>4. TypeOK'
    BY <2>1, <2>2, <2>3 DEF RunsInv, TypeOK
  <2>5. RequestsKnow'
    BY <2>1, <2>2, IdleKnows DEF RunsInv
  <2>6. RunTraced'
    BY <2>1, <2>2, TracedFrame DEF RunsInv
  <2> QED
    BY <2>1, <2>4, <2>5, <2>6, RecordsFrame, PosedFrame DEF RunsInv
<1> QED
  BY <1>1, <1>2

\* A deletion takes the jobs of its model, or the job of its run, and they are
\* remembered.
LEMMA DeleteKeeps ==
  ASSUME RunsInv, NEW q \in Requests, CommitDelete(q) \/ CommitDeleteRun(q) PROVE RunsInv'
<1>1. /\ req[q].pc \in {"deleting", "deleting_run"} /\ req' = [req EXCEPT ![q] = Idle]
      /\ UNCHANGED <<setup, versions, runs, lost>>
      /\ models' \subseteq models /\ jobs' \subseteq jobs /\ dropped \subseteq dropped'
      /\ \A j \in jobs : j \in jobs' \/ j.id \in dropped'
  <2>1. CASE CommitDelete(q)
    BY <2>1 DEF CommitDelete
  <2>2. CASE CommitDeleteRun(q)
    BY <2>2 DEF CommitDeleteRun
  <2> QED
    BY <2>1, <2>2
<1>2. /\ req' \in [Requests -> RequestType] /\ req'[q] = Idle
      /\ \A p \in Requests : p # q => req'[p] = req[p]
  BY <1>1, IdleType, SlotType DEF RunsInv
<1>3. TypeOK'
  BY <1>1, <1>2 DEF RunsInv, TypeOK
<1>4. RequestsKnow'
  BY <1>1, <1>2, IdleKnows DEF RunsInv
<1>5. RunTraced'
  BY <1>1, <1>2, TracedFrame DEF RunsInv
<1>6. JobsKnow' /\ VersionNotOlder'
  BY <1>1 DEF RunsInv, JobsKnow, VersionNotOlder
<1> QED
  BY <1>1, <1>3, <1>4, <1>5, <1>6, PosedFrame DEF RunsInv

\* The pipeline that runs bears the name asked for, or is the bundle's if the
\* bundle has one with an id (_resolve_pipeline_job).
LEMMA PipelineJobPosed ==
  ASSUME TypeOK, NEW p \in PipelineJob, p.kind = "dev"
  PROVE  ~\E o \in setup.pipelines : o.hasId /\ o.kind # "dev"
<1>1. \A o \in setup.pipelines : o.kind \in {"exact", "cloudrun", "dev"}
  BY InferenceAssumption DEF TypeOK
<1>2. {o \in Named("exact") : o.hasId} = {}
  BY DEF PipelineJob, Named
<1>3. p \in Disambiguated
  BY <1>2 DEF PipelineJob
<1>4. Named("cloudrun") = {}
  BY <1>3 DEF Disambiguated, FirstOf, Named
<1> QED
  BY <1>1, <1>2, <1>4 DEF Named

\* A trigger that passed its checks has the input its pipeline needs.
LEMMA FilesPosed ==
  ASSUME InputsKnown, NEW files \in RunFiles
  PROVE  /\ files \subseteq setup.batch /\ files # {}
         /\ Route = "pdp" => \A t \in {"STUDENT", "COURSE"} : \E f \in files : t \in f.types
         /\ Route # "pdp" => \A f \in setup.batch : f \in files <=> ~f.generated
<1>1. CASE Route = "pdp"
  <2>1. PICK s \in Ofs("STUDENT"), c \in Ofs("COURSE") : files = {s, c}
    BY <1>1 DEF RunFiles, FileOf, InputsKnown
  <2> QED
    BY <1>1, <2>1 DEF Ofs
<1>2. CASE Route # "pdp"
  BY <1>2 DEF RunFiles, InputsKnown, InputFiles
<1> QED
  BY <1>1, <1>2

\* Databricks starts a run for a request that has none, under a new id.
LEMMA StartRunKeeps ==
  ASSUME RunsInv, NEW q \in Requests, StartRun(q) PROVE RunsInv'
<1>0. TypeOK /\ RequestsKnow /\ JobsKnow
  BY DEF RunsInv
<1>1. PICK i \in Unused(RunIds, runs), files \in RunFiles, p \in PipelineJob :
        /\ runs' = runs \cup {[id |-> i, route |-> Route, files |-> files, pipeline |-> p,
                               since |-> Len(versions), foretold |-> IdInUse(i)]}
        /\ \/ req' = [req EXCEPT ![q].pc = "started", ![q].run = i] /\ UNCHANGED lost
           \/ req' = [req EXCEPT ![q] = Idle] /\ lost' = lost \cup {i}
  BY DEF StartRun
<1> DEFINE new == [id |-> i, route |-> Route, files |-> files, pipeline |-> p,
                   since |-> Len(versions), foretold |-> IdInUse(i)]
<1>2. /\ UNCHANGED <<setup, models, jobs, versions, dropped>>
      /\ req[q].pc = "triggered" /\ req[q].version = 0 /\ req[q].run = None
      /\ Route # "none" /\ InputsKnown
  BY <1>0 DEF StartRun, RequestsKnow
<1>3. /\ runs' = runs \cup {new} /\ new.id = i /\ new.since = Len(versions)
      /\ new.route = Route /\ new.files = files /\ new.pipeline = p
      /\ new.foretold = IdInUse(i)
      /\ i \in RunIds /\ \A r \in runs : r.id # i
  BY <1>1 DEF Unused
<1> HIDE DEF new
<1>4. /\ req' \in [Requests -> RequestType]
      /\ \A o \in Requests : o # q => req'[o] = req[o]
      /\ \/ /\ req'[q].pc = "started" /\ req'[q].run = i /\ req'[q].version = 0
            /\ lost' = lost
         \/ req'[q] = Idle /\ lost' = lost \cup {i}
  <2>1. CASE req' = [req EXCEPT ![q] = Idle] /\ lost' = lost \cup {i}
    BY <1>0, <2>1, IdleType, SlotType
  <2>2. CASE req' = [req EXCEPT ![q].pc = "started", ![q].run = i] /\ lost' = lost
    <3>1. req[q] \in RequestType
      BY <1>0 DEF TypeOK
    <3> DEFINE v == [req[q] EXCEPT !.pc = "started", !.run = i]
    <3>2. v \in RequestType /\ v.pc = "started" /\ v.run = i /\ v.version = 0
      BY <1>2, <1>3, <3>1 DEF RequestType
    <3>3. req' = [req EXCEPT ![q] = v]
      BY <1>0, <2>2 DEF TypeOK
    <3> HIDE DEF v
    <3> QED
      BY <1>0, <2>2, <3>2, <3>3, SlotType
  <2> QED
    BY <1>1, <2>1, <2>2
<1>5. Len(versions) \in Nat
  BY <1>0 DEF TypeOK
<1>6. TypeOK'
  BY <1>0, <1>2, <1>3, <1>4, <1>5 DEF TypeOK
<1>7. \A j \in jobs : j.id = i => new.foretold
  BY <1>3 DEF IdInUse
<1>8. \A o \in Requests : req[o].run = i => new.foretold
  BY <1>3 DEF IdInUse
<1>9. RequestsKnow'
  <2>1. ASSUME NEW o \in Requests, o # q
        PROVE  \A r \in runs' : r.id = req[o].run => r \in runs \/ r.foretold
    BY <1>3, <1>8
  <2>2. Route' = Route /\ InputsKnown' = InputsKnown
    BY <1>2, ChecksFrame
  <2> QED
    BY <1>0, <1>2, <1>3, <1>4, <2>1, <2>2, InferenceAssumption DEF RequestsKnow, Idle
<1>10. JobsKnow'
  BY <1>0, <1>2, <1>3 DEF JobsKnow
<1>11. RunTraced'
  <2>1. ASSUME NEW r \in runs
        PROVE  \/ \E j \in jobs' : j.id = r.id
               \/ \E o \in Requests : req'[o].pc = "started" /\ req'[o].run = r.id
               \/ r.id \in lost' \cup dropped'
    BY <1>2, <1>4 DEF RunsInv, RunTraced
  <2>2. (\E o \in Requests : req'[o].pc = "started" /\ req'[o].run = i) \/ i \in lost'
    BY <1>4
  <2> QED
    BY <1>3, <2>1, <2>2 DEF RunTraced
<1>12. VersionNotOlder'
  BY <1>2, <1>3, <1>7 DEF RunsInv, VersionNotOlder
<1>13. RunWellPosed'
  <2>1. /\ files \subseteq setup.batch /\ files # {}
        /\ Route = "pdp" => \A t \in {"STUDENT", "COURSE"} : \E f \in files : t \in f.types
        /\ Route # "pdp" => \A f \in setup.batch : f \in files <=> ~f.generated
    BY <1>2, FilesPosed
  <2>2. p.kind = "dev" => ~\E o \in setup.pipelines : o.hasId /\ o.kind # "dev"
    BY <1>0, PipelineJobPosed
  <2> QED
    BY <1>2, <1>3, <2>1, <2>2 DEF RunsInv, RunWellPosed
<1> QED
  BY <1>6, <1>9, <1>10, <1>11, <1>12, <1>13 DEF RunsInv

\* The version is looked up after the run was started, so it is the latest then.
LEMMA FetchKeeps ==
  ASSUME RunsInv, NEW q \in Requests, FetchVersion(q) PROVE RunsInv'
<1>0. TypeOK /\ RequestsKnow
  BY DEF RunsInv
<1>1. CASE Abort(q)
  BY <1>1, AbortKeeps
<1>2. CASE ~Abort(q)
  <2>1. /\ versions # <<>>
        /\ req' = [req EXCEPT ![q].version = Len(versions), ![q].runId = Last(versions)]
        /\ UNCHANGED <<setup, models, jobs, versions, runs, lost, dropped>>
        /\ req[q].pc \in {"started", "backfilling", "adding"}
    BY <1>2 DEF FetchVersion
  <2> DEFINE v == [req[q] EXCEPT !.version = Len(versions), !.runId = Last(versions)]
  <2>2. /\ v \in RequestType /\ v.pc = req[q].pc /\ v.run = req[q].run
        /\ v.version = Len(versions) /\ v.runId = versions[Len(versions)]
    <3>1. req[q] \in RequestType
      BY <1>0 DEF TypeOK
    <3>2. /\ Len(versions) \in Nat /\ Last(versions) = versions[Len(versions)]
          /\ Last(versions) \in {"mlflow", None}
      BY <1>0, <2>1, LatestVersion
    <3> QED
      BY <3>1, <3>2 DEF RequestType
  <2>3. req' = [req EXCEPT ![q] = v]
    BY <1>0, <2>1 DEF TypeOK
  <2> HIDE DEF v
  <2>4. /\ req' \in [Requests -> RequestType] /\ req'[q] = v
        /\ \A p \in Requests : p # q => req'[p] = req[p]
    BY <1>0, <2>2, <2>3, SlotType
  <2>5. TypeOK'
    BY <1>0, <2>1, <2>4 DEF TypeOK
  <2>6. RequestsKnow'
    <3>1. Len(versions) \in DOMAIN versions /\ \A r \in runs : Len(versions) >= r.since
      BY <1>0, <2>1, LatestVersion DEF TypeOK
    <3>2. Route' = Route /\ InputsKnown' = InputsKnown
      BY <2>1, ChecksFrame
    <3>3. /\ v.pc \notin {"done", "triggered"} /\ v.version = Len(versions)
          /\ v.run # None => v.pc \in {"started", "deleting_run", "adding"}
          /\ v.pc = "adding" => v.run \in CustomRuns
          /\ v.pc = "started" => \E r \in runs : r.id = v.run
      BY <1>0, <2>1, <2>2 DEF RequestsKnow
    <3>4. ASSUME NEW p \in Requests, p # q
          PROVE  req'[p] = req[p]
      BY <2>4, <3>4
    <3>5. v.runId = versions[v.version] /\ \A r \in runs : v.version >= r.since
      BY <2>2, <3>1, <3>3
    <3> QED
      BY <1>0, <2>1, <2>4, <3>1, <3>2, <3>3, <3>4, <3>5 DEF RequestsKnow
  <2>7. RunTraced'
    BY <2>1, <2>2, <2>4, TracedFrame DEF RunsInv
  <2> QED
    BY <2>1, <2>5, <2>6, <2>7, RecordsFrame, PosedFrame DEF RunsInv
<1> QED
  BY <1>1, <1>2

\* The record of a run, written with the session's commit.
LEMMA RecordKeeps ==
  ASSUME RunsInv, NEW q \in Requests, RecordJob(q) PROVE RunsInv'
<1>0. TypeOK /\ RequestsKnow
  BY DEF RunsInv
<1>1. CASE Abort(q)
  BY <1>1, AbortKeeps
<1>2. CASE ~Abort(q)
  <2>1. /\ jobs' = jobs \cup {Job(q)} /\ req' = [req EXCEPT ![q] = Idle]
        /\ UNCHANGED <<setup, models, versions, runs, lost, dropped>>
        /\ req[q].pc \in {"started", "adding"} /\ req[q].version # 0
        /\ \E m \in models : m.id = req[q].model
    BY <1>2 DEF RecordJob
  <2>2. /\ req' \in [Requests -> RequestType] /\ req'[q] = Idle
        /\ \A p \in Requests : p # q => req'[p] = req[p]
    BY <1>0, <2>1, IdleType, SlotType
  <2>3. /\ Job(q).id = req[q].run /\ Job(q).version = req[q].version
        /\ Job(q).runId = req[q].runId
    BY DEF Job
  <2>4. req[q].run \in CustomRuns \/ \E r \in runs : r.id = req[q].run
    BY <1>0, <2>1 DEF RequestsKnow
  <2>5. Job(q) \in JobType
    <3>1. req[q] \in RequestType /\ req[q].model \in ModelIds
      BY <1>0, <2>1 DEF TypeOK
    <3>2. req[q].run \in RunIds \cup CustomRuns
      BY <1>0, <2>4 DEF TypeOK
    <3> QED
      BY <3>1, <3>2 DEF Job, JobType, RequestType
  <2>6. TypeOK'
    BY <1>0, <2>1, <2>2, <2>5 DEF TypeOK
  <2>7. RequestsKnow'
    BY <1>0, <2>1, <2>2, IdleKnows
  <2>8. JobsKnow'
    <3>1. req[q].version \in DOMAIN versions /\ req[q].runId = versions[req[q].version]
      BY <1>0, <2>1 DEF RequestsKnow
    <3> QED
      BY <2>1, <2>3, <2>4, <3>1 DEF RunsInv, JobsKnow
  <2>9. RunTraced'
    BY <2>1, <2>2, <2>3, TracedFrame DEF RunsInv
  <2>10. VersionNotOlder'
    <3>1. \A r \in runs : r.id = req[q].run => req[q].version >= r.since \/ r.foretold
      BY <1>0, <2>1 DEF RequestsKnow
    <3> QED
      BY <2>1, <2>3, <3>1 DEF RunsInv, VersionNotOlder
  <2> QED
    BY <2>1, <2>6, <2>7, <2>8, <2>9, <2>10, PosedFrame DEF RunsInv
<1> QED
  BY <1>1, <1>2

\* A backfill fills in only jobs whose version was registered without a run id.
LEMMA BackfillKeeps ==
  ASSUME RunsInv, NEW q \in Requests, CommitBackfill(q) PROVE RunsInv'
<1>0. TypeOK /\ RequestsKnow /\ JobsKnow
  BY DEF RunsInv
<1>1. CASE Abort(q)
  BY <1>1, AbortKeeps
<1>2. CASE ~Abort(q)
  <2> DEFINE old == {j \in JobsOf(req[q].model) : ~Complete(j)}
  <2>1. /\ jobs' = (jobs \ old) \cup {Filled(q, j) : j \in old}
        /\ req' = [req EXCEPT ![q] = Idle]
        /\ UNCHANGED <<setup, models, versions, runs, lost, dropped>>
        /\ req[q].pc = "backfilling" /\ req[q].version # 0
    BY <1>2 DEF CommitBackfill
  <2>2. /\ req' \in [Requests -> RequestType] /\ req'[q] = Idle
        /\ \A p \in Requests : p # q => req'[p] = req[p]
    BY <1>0, <2>1, IdleType, SlotType
  <2>3. \A j \in old : j \in jobs /\ j.version # 0 /\ j.runId = None
    BY <1>0 DEF JobsOf, Complete, JobsKnow
  <2>4. ASSUME NEW j \in old
        PROVE  /\ Filled(q, j) \in JobType /\ Filled(q, j).id = j.id
               /\ Filled(q, j).version = req[q].version /\ Filled(q, j).runId # None
    <3>1. j \in JobType /\ req[q] \in RequestType
      BY <1>0, <2>3 DEF TypeOK
    <3>2. AsText(req[q].runId) \in {"mlflow", None, "None"} /\ AsText(req[q].runId) # None
      BY <3>1, InferenceAssumption DEF AsText, RequestType
    <3> QED
      BY <3>1, <3>2 DEF Filled, JobType, RequestType
  <2> HIDE DEF old
  <2>5. \A j \in jobs' : j \in jobs \/ \E k \in old : j = Filled(q, k)
    BY <2>1
  <2>6. TypeOK'
    <3>1. jobs' \subseteq JobType
      BY <1>0, <2>4, <2>5 DEF TypeOK
    <3> QED
      BY <1>0, <2>1, <2>2, <3>1 DEF TypeOK
  <2>7. RequestsKnow'
    BY <1>0, <2>1, <2>2, IdleKnows
  <2>8. JobsKnow'
    BY <1>0, <2>1, <2>3, <2>4, <2>5 DEF JobsKnow
  <2>9. RunTraced'
    <3>1. \A j \in jobs : \E k \in jobs' : k.id = j.id
      BY <2>1, <2>4
    <3> QED
      BY <2>1, <2>2, <3>1, TracedFrame DEF RunsInv
  <2>10. VersionNotOlder'
    <3> SUFFICES ASSUME NEW j \in jobs', NEW r \in runs, j.id = r.id
                 PROVE  \/ j.version >= r.since \/ r.foretold
                        \/ \E v \in DOMAIN versions : v >= r.since /\ versions[v] = None
      BY <2>1 DEF VersionNotOlder
    <3>1. CASE j \in jobs
      BY <3>1 DEF RunsInv, VersionNotOlder
    <3>2. ASSUME NEW k \in old, j = Filled(q, k)
          PROVE  \/ r.foretold
                 \/ \E v \in DOMAIN versions : v >= r.since /\ versions[v] = None
      <4>1. k \in jobs /\ k.id = r.id
        BY <2>3, <2>4, <3>2
      <4>2. k.version \in DOMAIN versions /\ versions[k.version] = None
        BY <1>0, <2>3 DEF JobsKnow
      <4> QED
        BY <4>1, <4>2 DEF RunsInv, VersionNotOlder
    <3> QED
      BY <2>5, <3>1, <3>2
  <2> QED
    BY <2>1, <2>6, <2>7, <2>8, <2>9, <2>10, PosedFrame DEF RunsInv
<1> QED
  BY <1>1, <1>2

\* A new version changes nothing that is known of the older ones.
LEMMA RegisterKeeps ==
  ASSUME RunsInv, RegisterVersion PROVE RunsInv'
<1>0. TypeOK
  BY DEF RunsInv
<1>1. UNCHANGED <<setup, models, jobs, runs, req, lost, dropped>>
  BY DEF RegisterVersion
<1>2. /\ versions' \in Seq({"mlflow", None})
      /\ Len(versions') = Len(versions) + 1 /\ Len(versions) \in Nat
      /\ \A v \in DOMAIN versions : v \in DOMAIN versions' /\ versions'[v] = versions[v]
  BY <1>0, VersionsGrow DEF TypeOK
<1>3. TypeOK'
  BY <1>0, <1>1, <1>2 DEF TypeOK
<1>4. RequestsKnow'
  <2>1. Route' = Route /\ InputsKnown' = InputsKnown
    BY <1>1, ChecksFrame
  <2> QED
    BY <1>1, <1>2, <2>1 DEF RunsInv, RequestsKnow
<1>5. JobsKnow' /\ VersionNotOlder'
  BY <1>1, <1>2 DEF RunsInv, JobsKnow, VersionNotOlder
<1>6. RunTraced' /\ RunWellPosed'
  BY <1>1 DEF RunsInv, RunTraced, RunWellPosed
<1> QED
  BY <1>3, <1>4, <1>5, <1>6 DEF RunsInv

\* Every step keeps the inductive invariant.
LEMMA RunsStep == RunsInv /\ [Next]_vars => RunsInv'
<1> SUFFICES ASSUME RunsInv, [Next]_vars PROVE RunsInv'
  OBVIOUS
<1>1. ASSUME NEW q \in Requests, Step(q) PROVE RunsInv'
  <2>1. CASE \/ StartCreate(q) \/ StartArchive(q) \/ StartDelete(q) \/ StartTrigger(q)
             \/ StartAdd(q) \/ StartBackfill(q) \/ StartDeleteRun(q)
    <3>1. Begins(q)
      BY <2>1, BeginsEffect DEF RunsInv
    <3> QED
      BY <3>1, BeginsKeeps
  <2>2. CASE CommitCreate(q) \/ CommitArchive(q)
    BY <2>2, ModelCommitKeeps
  <2>3. CASE CommitDelete(q) \/ CommitDeleteRun(q)
    BY <2>3, DeleteKeeps
  <2>4. CASE StartRun(q)
    BY <2>4, StartRunKeeps
  <2>5. CASE FetchVersion(q)
    BY <2>5, FetchKeeps
  <2>6. CASE RecordJob(q)
    BY <2>6, RecordKeeps
  <2>7. CASE CommitBackfill(q)
    BY <2>7, BackfillKeeps
  <2>8. CASE Fail(q)
    BY <2>8, AbortKeeps DEF Fail
  <2> QED
    BY <1>1, <2>1, <2>2, <2>3, <2>4, <2>5, <2>6, <2>7, <2>8 DEF Step
<1>2. CASE RegisterVersion
  BY <1>2, RegisterKeeps
<1>3. CASE UNCHANGED vars
  <2>1. TypeOK' /\ JobsKnow' /\ RunTraced' /\ VersionNotOlder' /\ RunWellPosed'
    BY <1>3 DEF vars, RunsInv, TypeOK, JobsKnow, RunTraced, VersionNotOlder, RunWellPosed
  <2>2. Route' = Route /\ InputsKnown' = InputsKnown
    BY <1>3, ChecksFrame DEF vars
  <2>3. RequestsKnow'
    BY <1>3, <2>2 DEF vars, RunsInv, RequestsKnow
  <2> QED
    BY <2>1, <2>3 DEF RunsInv
<1> QED
  BY <1>1, <1>2, <1>3 DEF Next

-----------------------------------------------------------------------------
(* Theorems                                                                 *)

\* The inductive invariant holds in every reachable state.
THEOREM RunsInvariance == Spec => []RunsInv
<1>1. Init => RunsInv
  BY IdleType DEF Init, RunsInv, TypeOK, RequestsKnow, JobsKnow, RunTraced, VersionNotOlder,
                  RunWellPosed, Idle
<1> QED
  BY <1>1, RunsStep, PTL DEF Spec

\* No run that trigger_inference_run started is forgotten: it is on record, or
\* its request is under way or failed, or its job was deleted, with its model
\* or by delete_model_run.
THEOREM RunsTraced == Spec => []RunTraced
<1>1. RunsInv => RunTraced
  BY DEF RunsInv
<1> QED
  BY <1>1, RunsInvariance, PTL

\* fetch_model_version after run_now never records a version that was already
\* superseded at the start; a backfill can only where MLflow had no run, and a
\* client who adds the run's job before Databricks gives out its id.
THEOREM VersionsNotOlder == Spec => []VersionNotOlder
<1>1. RunsInv => VersionNotOlder
  BY DEF RunsInv
<1> QED
  BY <1>1, RunsInvariance, PTL

\* The checks of the router and of the Databricks client together give every
\* run the files and the job it needs.
THEOREM RunsWellPosed == Spec => []RunWellPosed
<1>1. RunsInv => RunWellPosed
  BY DEF RunsInv
<1> QED
  BY <1>1, RunsInvariance, PTL

\* backfill_model_runs changes no job whose version and run id are known; only
\* delete_model and the end of a delete_model_run for its id remove one.
THEOREM RecordsStay == Spec => RecordedStays
<1> DEFINE Stays ==
             \A j \in jobs : Complete(j) =>
               \/ j \in jobs'
               \/ /\ j.id \in dropped'
                  /\ \/ ~\E m \in models' : m.id = j.model
                     \/ \E q \in Requests : /\ req[q].pc = "deleting_run" /\ req[q].run = j.id
                                            /\ req'[q].pc = "done"
<1>1. TypeOK /\ [Next]_vars => [Stays]_vars
  <2> SUFFICES ASSUME TypeOK, [Next]_vars PROVE Stays
    BY DEF Stays
  <2>1. ASSUME NEW q \in Requests, CommitDelete(q) PROVE Stays
    BY <2>1 DEF CommitDelete, JobsOf
  <2>2. ASSUME NEW q \in Requests, CommitBackfill(q) PROVE Stays
    BY <2>2 DEF CommitBackfill, Abort
  <2>3. ASSUME NEW q \in Requests, RecordJob(q) PROVE Stays
    BY <2>3 DEF RecordJob, Abort
  <2>4. ASSUME UNCHANGED jobs PROVE Stays
    BY <2>4
  <2>5. ASSUME NEW q \in Requests, CommitDeleteRun(q) PROVE Stays
    <3>1. req[q].pc = "deleting_run" /\ req'[q].pc = "done"
      BY <2>5 DEF CommitDeleteRun, TypeOK, Idle
    <3>2. \A j \in jobs : j \in jobs' \/ (j.id = req[q].run /\ j.id \in dropped')
      BY <2>5 DEF CommitDeleteRun
    <3> QED
      BY <3>1, <3>2
  <2> HIDE DEF Stays
  <2> QED
    BY <2>1, <2>2, <2>3, <2>4, <2>5
       DEF Next, Step, vars, StartCreate, CommitCreate, StartArchive, CommitArchive, StartDelete,
           StartTrigger, StartRun, FetchVersion, StartDeleteRun, StartAdd, StartBackfill,
           RegisterVersion, Fail, Abort
<1>2. RunsInv => TypeOK
  BY DEF RunsInv
<1> QED
  BY <1>1, <1>2, RunsInvariance, PTL DEF Spec, RecordedStays
=============================================================================
