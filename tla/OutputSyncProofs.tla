-------------------------- MODULE OutputSyncProofs --------------------------
(***************************************************************************)
(* Proofs about OutputSync for any runs, kinds of output, request slots and *)
(* number of moves.                                                         *)
(***************************************************************************)
EXTENDS OutputSync, TLAPS

\* The part of the invariant that does not look at the history of runs.
CoreInv ==
  /\ TypeOK
  /\ \A q \in Requests : RequestKnows(req[q])
  /\ CompletedHasOutput /\ RowHasBlob

\* A request that is over, or has not begun.
LEMMA IdleFacts ==
  /\ Idle \in RequestType /\ Idle.pc = "done" /\ Idle.gone = {} /\ Idle.left = {}
  /\ Idle.run = None /\ Idle.snap = NoRows /\ \A p \in Labels : Idle.seen[p] = {}
<1>1. NoRows \in RowsType
  BY DEF NoRows, RowsType
<1>2. [p \in Labels |-> {}] \in [Labels -> SUBSET Outputs]
  OBVIOUS
<1> QED
  BY <1>1, <1>2 DEF Idle, RequestType

\* It relies on nothing.
LEMMA IdleKnows == ASSUME NEW x, x = Idle PROVE RequestKnows(x) /\ RequestKnows(x)'
  BY IdleFacts DEF RequestKnows

\* The slots of a step that moves one request.
LEMMA Slot ==
  ASSUME req \in [Requests -> RequestType], NEW q \in Requests, NEW x \in RequestType,
         req' = [req EXCEPT ![q] = x]
  PROVE  /\ req' \in [Requests -> RequestType] /\ req'[q] = x
         /\ \A o \in Requests \ {q} : req'[o] = req[o]
         /\ Syncing' => Syncing \/ x.pc \in {"sync", "half_listed", "listed"}
<1>1. req' \in [Requests -> RequestType] /\ req'[q] = x
      /\ \A o \in Requests \ {q} : req'[o] = req[o]
  OBVIOUS
<1> QED
  BY <1>1 DEF Syncing

\* What one request relies on survives what another does, if outputs that are taken
\* away are on record and no new synchronisation or row surprises it.
LEMMA KnowsStays ==
  ASSUME NEW x \in RequestType, RequestKnows(x),
         started \subseteq started', written \subseteq written', leftover \subseteq leftover',
         \A f \in Outputs, p \in Labels :
            f \in x.seen[p] /\ blob[f] # {} => blob'[f] # {} \/ f \in leftover',
         x.pc \in {"listing", "deleting"} =>
            /\ Syncing' => Syncing \/ OutputsOf(x.run) \subseteq leftover'
            /\ \A f \in OutputsOf(x.run) :
                 rows'[f] # None => rows[f] # None \/ f \in leftover'
  PROVE  RequestKnows(x)'
  BY DEF RequestKnows, RequestType, OutputsOf

\* A request step that leaves outputs, rows and jobs alone and forgets no deletion.
LEMMA RequestFrame ==
  ASSUME CoreInv, NEW q \in Requests, NEW x \in RequestType, req' = [req EXCEPT ![q] = x],
         UNCHANGED <<written, blob, moves, rows, jobs, flaky, byHand>>,
         started \subseteq started', started' \subseteq Runs,
         early' \subseteq Runs, leftover \subseteq leftover', leftover' \subseteq Outputs,
         RequestKnows(x)', req[q].gone \subseteq x.gone \cup leftover',
         x.pc = "sync" =>
            \A o \in Requests : req[o].pc \in {"listing", "deleting"} =>
                                  OutputsOf(req[o].run) \subseteq leftover',
         x.pc \in {"half_listed", "listed"} => Syncing
  PROVE  CoreInv'
<1>1. /\ TypeOK /\ req \in [Requests -> RequestType]
      /\ \A o \in Requests : RequestKnows(req[o])
  BY DEF CoreInv, TypeOK
<1>2. /\ req' \in [Requests -> RequestType] /\ req'[q] = x
      /\ \A o \in Requests \ {q} : req'[o] = req[o]
      /\ Syncing' => Syncing \/ x.pc \in {"sync", "half_listed", "listed"}
  BY <1>1, Slot
<1>3. TypeOK'
  BY <1>1, <1>2 DEF TypeOK
<1>4. ASSUME NEW o \in Requests PROVE RequestKnows(req[o])'
  <2>1. CASE o = q
    BY <1>2, <2>1
  <2>2. CASE o # q
    <3>1. PICK z \in RequestType : z = req[o] /\ RequestKnows(z) /\ z = req'[o]
      BY <1>1, <1>2, <2>2
    <3>2. z.pc \in {"listing", "deleting"} =>
            (Syncing' => Syncing \/ OutputsOf(z.run) \subseteq leftover')
      BY <1>2, <3>1
    <3>3. RequestKnows(z)'
      BY <3>1, <3>2, KnowsStays
    <3> QED
      BY <3>1, <3>3 DEF RequestKnows
  <2> QED
    BY <2>1, <2>2
<1>5. CompletedHasOutput'
  BY DEF CoreInv, CompletedHasOutput, HasCsvRow
<1>6. RowHasBlob'
  BY <1>2 DEF CoreInv, RowHasBlob
<1> QED
  BY <1>3, <1>4, <1>5, <1>6 DEF CoreInv

\* The requests that a step of outputs, rows or jobs leaves alone.
LEMMA OthersKnow ==
  ASSUME CoreInv, NEW S \in SUBSET Requests, \A o \in S : req'[o] = req[o],
         started \subseteq started', written \subseteq written', leftover \subseteq leftover',
         \A o \in S, p \in Labels : \A f \in req[o].seen[p] :
            blob[f] # {} => blob'[f] # {} \/ f \in leftover',
         Syncing' => Syncing,
         \A o \in S : req[o].pc \in {"listing", "deleting"} =>
            \A f \in OutputsOf(req[o].run) : rows'[f] # None => rows[f] # None \/ f \in leftover'
  PROVE  \A o \in S : RequestKnows(req[o])'
<1> SUFFICES ASSUME NEW o \in S PROVE RequestKnows(req[o])'
  OBVIOUS
<1>1. PICK z \in RequestType : z = req[o] /\ RequestKnows(z) /\ z = req'[o]
  BY DEF CoreInv, TypeOK
<1>2. RequestKnows(z)'
  BY <1>1, KnowsStays
<1> QED
  BY <1>1, <1>2 DEF RequestKnows

\* A request that gives up leaves on record which blobs it took.
LEMMA AbortKeeps == ASSUME CoreInv, NEW q \in Requests, Abort(q) PROVE CoreInv'
<1>1. /\ req' = [req EXCEPT ![q] = Idle] /\ leftover' = leftover \cup req[q].gone
      /\ UNCHANGED <<started, written, blob, moves, rows, jobs, flaky, early, byHand>>
  BY DEF Abort, external
<1>2. started \subseteq Runs /\ early \subseteq Runs /\ leftover \subseteq Outputs
      /\ req[q].gone \subseteq Outputs
  BY DEF CoreInv, TypeOK, RequestType
<1> QED
  BY <1>1, <1>2, IdleFacts, IdleKnows, RequestFrame

\* A run that is started has no job yet, and its request knows it.
LEMMA StartRunKeeps ==
  ASSUME CoreInv, NEW q \in Requests, NEW r \in Runs, StartRun(q, r) PROVE CoreInv'
<1> DEFINE x == [Idle EXCEPT !.pc = "run_started", !.run = r]
<1>1. /\ req[q].pc = "done" /\ started' = started \cup {r} /\ req' = [req EXCEPT ![q] = x]
      /\ UNCHANGED <<written, blob, moves, rows, jobs, flaky, early, byHand, leftover>>
  BY DEF StartRun
<1>2. started \subseteq Runs /\ early \subseteq Runs /\ leftover \subseteq Outputs
      /\ req[q].gone = {}
  BY <1>1 DEF CoreInv, TypeOK, RequestKnows
<1>3. /\ x \in RequestType /\ x.pc = "run_started" /\ x.run = r /\ x.gone = {} /\ x.left = {}
      /\ \A p \in Labels : x.seen[p] = {}
  BY IdleFacts DEF RequestType
<1> HIDE DEF x
<1>4. RequestKnows(x)'
  BY <1>1, <1>3 DEF RequestKnows
<1> QED
  BY <1>1, <1>2, <1>3, <1>4, RequestFrame

\* A sync begins with the rows as they are.
LEMMA StartSyncKeeps == ASSUME CoreInv, NEW q \in Requests, StartSync(q) PROVE CoreInv'
<1>0. PICK x : x = [Idle EXCEPT !.pc = "sync", !.snap = rows]
  OBVIOUS
<1>1. /\ req[q].pc = "done" /\ req' = [req EXCEPT ![q] = x]
      /\ leftover' = leftover \cup {f \in Outputs : DeletingRun(RunOf(f))}
      /\ UNCHANGED <<started, written, blob, moves, rows, jobs, flaky, early, byHand>>
  BY <1>0 DEF StartSync, external
<1>2. /\ started \subseteq Runs /\ early \subseteq Runs /\ leftover \subseteq Outputs
      /\ req[q].gone = {} /\ rows \in RowsType
  BY <1>1 DEF CoreInv, TypeOK, RequestKnows
<1>3. /\ x \in RequestType /\ x.pc = "sync" /\ x.gone = {} /\ x.left = {}
      /\ \A p \in Labels : x.seen[p] = {}
  BY <1>0, <1>2, IdleFacts DEF RequestType
<1>4. \A o \in Requests : req[o].pc \in {"listing", "deleting"} =>
                            OutputsOf(req[o].run) \subseteq leftover'
  BY <1>1 DEF OutputsOf, DeletingRun
<1>5. RequestKnows(x)'
  BY <1>1, <1>3 DEF RequestKnows
<1> QED
  BY <1>1, <1>2, <1>3, <1>4, <1>5, RequestFrame

\* A listing of one prefix: only outputs that are there.
LEMMA ListKeeps ==
  ASSUME CoreInv, NEW q \in Requests, ListApproved(q) \/ ListUnapproved(q) PROVE CoreInv'
<1>1. PICK p \in Labels, c \in {"half_listed", "listed"} :
        /\ req[q].pc \in {"sync", "half_listed"}
        /\ req' = [req EXCEPT ![q].pc = c, ![q].seen[p] = {f \in Outputs : p \in blob[f]}]
        /\ UNCHANGED <<started, written, blob, moves, rows, jobs, flaky, early, byHand, leftover>>
  <2>1. CASE ListApproved(q)
    BY <2>1 DEF ListApproved, external, Labels
  <2>2. CASE ListUnapproved(q)
    BY <2>2 DEF ListUnapproved, external, Labels
  <2> QED
    BY <2>1, <2>2
<1>0. PICK x : x = [req[q] EXCEPT !.pc = c, !.seen[p] = {f \in Outputs : p \in blob[f]}]
  OBVIOUS
<1>2. /\ started \subseteq Runs /\ early \subseteq Runs /\ leftover \subseteq Outputs
      /\ req[q] \in RequestType /\ req \in [Requests -> RequestType] /\ RequestKnows(req[q])
      /\ \A f \in Outputs : blob[f] # {} => f \in written
  BY DEF CoreInv, TypeOK
<1>3. req' = [req EXCEPT ![q] = x]
  BY <1>0, <1>1, <1>2
<1>4. /\ x \in RequestType /\ x.pc = c /\ x.gone = req[q].gone /\ x.left = req[q].left
      /\ x.run = req[q].run
      /\ x.seen[p] = {f \in Outputs : p \in blob[f]}
      /\ \A o \in Labels \ {p} : x.seen[o] = req[q].seen[o]
  BY <1>0, <1>2 DEF RequestType
<1>5. Syncing
  BY <1>1 DEF Syncing
<1>6. \A o \in Labels : x.seen[o] \subseteq {f \in written : blob[f] # {} \/ f \in leftover}
  BY <1>2, <1>4 DEF RequestKnows
<1>7. RequestKnows(x)'
  BY <1>1, <1>2, <1>4, <1>6 DEF RequestKnows, OutputsOf
<1> QED
  BY <1>1, <1>2, <1>3, <1>4, <1>5, <1>7, RequestFrame

\* A deletion that begins while a synchronisation runs is on record.
LEMMA StartDeleteKeeps ==
  ASSUME CoreInv, NEW q \in Requests, NEW r \in Runs, StartDeleteRun(q, r) PROVE CoreInv'
<1>0. PICK x : x = [Idle EXCEPT !.pc = "listing", !.run = r, !.snap = rows, !.prefix = "approved"]
  OBVIOUS
<1>1. /\ req[q].pc = "done" /\ req' = [req EXCEPT ![q] = x]
      /\ leftover' = IF Syncing THEN leftover \cup OutputsOf(r) ELSE leftover
      /\ UNCHANGED <<started, written, blob, moves, rows, jobs, flaky, early, byHand>>
  BY <1>0 DEF StartDeleteRun, external
<1>2. /\ started \subseteq Runs /\ early \subseteq Runs /\ leftover' \subseteq Outputs
      /\ leftover \subseteq leftover' /\ req[q].gone = {} /\ rows \in RowsType
      /\ req \in [Requests -> RequestType]
  BY <1>1 DEF CoreInv, TypeOK, RequestKnows, OutputsOf
<1>3. /\ x \in RequestType /\ x.pc = "listing" /\ x.gone = {} /\ x.left = {} /\ x.run = r
      /\ x.prefix = "approved" /\ x.snap = rows /\ \A p \in Labels : x.seen[p] = {}
  BY <1>0, <1>2, IdleFacts DEF RequestType, Labels
<1>4. Syncing' => Syncing
  BY <1>1, <1>2, <1>3, Slot
<1>5. RequestKnows(x)'
  BY <1>1, <1>3, <1>4 DEF RequestKnows, Labels
<1> QED
  BY <1>1, <1>2, <1>3, <1>5, RequestFrame

\* The listings of a deletion, of one prefix and then the other.
LEMMA PrefixKeeps ==
  ASSUME CoreInv, NEW q \in Requests, ListPrefix(q) \/ NextPrefix(q) PROVE CoreInv'
<1>1. PICK x : x = IF ListPrefix(q)
                   THEN [req[q] EXCEPT !.pc = "deleting",
                           !.left = {f \in OutputsOf(req[q].run) : req[q].prefix \in blob[f]}]
                   ELSE [req[q] EXCEPT !.pc = "listing", !.prefix = "unapproved"]
  OBVIOUS
<1>2. /\ req[q].pc \in {"listing", "deleting"} /\ req' = [req EXCEPT ![q] = x]
      /\ UNCHANGED <<started, written, blob, moves, rows, jobs, flaky, early, byHand, leftover>>
  <2>1. CASE ListPrefix(q)
    BY <1>1, <2>1 DEF ListPrefix, external
  <2>2. CASE ~ListPrefix(q)
    BY <1>1, <2>2 DEF NextPrefix, external
  <2> QED
    BY <2>1, <2>2
<1>3. /\ started \subseteq Runs /\ early \subseteq Runs /\ leftover \subseteq Outputs
      /\ req[q] \in RequestType /\ req \in [Requests -> RequestType] /\ RequestKnows(req[q])
  BY DEF CoreInv, TypeOK
<1>4. /\ x \in RequestType /\ x.pc \in {"listing", "deleting"} /\ x.run = req[q].run
      /\ x.gone = req[q].gone /\ x.snap = req[q].snap /\ x.seen = req[q].seen
      /\ x.prefix \in {req[q].prefix, "unapproved"}
      /\ x.left \subseteq req[q].left \cup OutputsOf(x.run)
  <2>1. CASE ListPrefix(q)
    BY <1>1, <1>3, <2>1 DEF RequestType, OutputsOf
  <2>2. CASE ~ListPrefix(q)
    BY <1>1, <1>3, <2>2 DEF RequestType, Labels
  <2> QED
    BY <2>1, <2>2
<1>5. Syncing' => Syncing
  BY <1>2, <1>3, <1>4, Slot
<1>6. RequestKnows(x)'
  BY <1>2, <1>3, <1>4, <1>5 DEF RequestKnows, OutputsOf, Labels
<1> QED
  BY <1>2, <1>3, <1>4, <1>6, RequestFrame

\* Outputs appear and move; one that has been there stays somewhere.
LEMMA BlobsKeep ==
  ASSUME CoreInv, NEW f \in Outputs,
         (\E p \in Labels : Publish(f, p)) \/ MoveCopy(f) \/ MoveDelete(f)
  PROVE  CoreInv'
<1> DEFINE Moved(b) ==
        /\ b # {} /\ blob' = [blob EXCEPT ![f] = b]
        /\ written \subseteq written' /\ written' \subseteq written \cup {f} /\ f \in written'
        /\ RunOf(f) \in started /\ moves' \in 0..MaxMoves
        /\ UNCHANGED <<started, rows, jobs, req, flaky, early, byHand, leftover>>
<1>1. PICK b \in SUBSET Labels : Moved(b)
  <2>1. TypeOK /\ Labels # {}
    BY DEF CoreInv, Labels
  <2>2. ASSUME NEW p \in Labels, Publish(f, p) PROVE \E b \in SUBSET Labels : Moved(b)
    <3>1. Moved({p})
      BY <2>1, <2>2 DEF Publish, TypeOK
    <3> QED
      BY <3>1
  <2>3. ASSUME MoveCopy(f) PROVE \E b \in SUBSET Labels : Moved(b)
    <3>1. blob[f] # {} /\ moves' \in 0..MaxMoves
      BY <2>1, <2>3, OutputAssumption DEF MoveCopy, TypeOK
    <3>2. Moved(Labels)
      BY <2>1, <2>3, <3>1 DEF MoveCopy, TypeOK
    <3> QED
      BY <3>2
  <2>4. ASSUME MoveDelete(f) PROVE \E b \in SUBSET Labels : Moved(b)
    <3>1. PICK p \in Labels : blob' = [blob EXCEPT ![f] = {p}]
      BY <2>4 DEF MoveDelete
    <3>2. Moved({p})
      BY <2>1, <2>4, <3>1 DEF MoveDelete, TypeOK
    <3> QED
      BY <3>2
  <2> QED
    BY <2>2, <2>3, <2>4
<1>2. /\ TypeOK /\ blob' \in [Outputs -> SUBSET Labels]
      /\ \A g \in Outputs : blob'[g] = blob[g] \/ (g = f /\ blob'[g] # {})
  BY <1>1 DEF CoreInv, TypeOK
<1>3. TypeOK'
  BY <1>1, <1>2 DEF TypeOK
<1>4. \A o \in Requests : RequestKnows(req[o])'
  <2>1. Syncing' => Syncing
    BY <1>1 DEF Syncing
  <2>2. \A o \in Requests, p \in Labels : \A g \in req[o].seen[p] : g \in Outputs
    BY <1>2 DEF TypeOK, RequestType
  <2> QED
    BY <1>1, <1>2, <2>1, <2>2, OthersKnow
<1>5. CompletedHasOutput'
  BY <1>1 DEF CoreInv, CompletedHasOutput, HasCsvRow
<1>6. RowHasBlob'
  BY <1>1, <1>2 DEF CoreInv, RowHasBlob
<1> QED
  BY <1>3, <1>4, <1>5, <1>6 DEF CoreInv

\* A new job is not completed.
LEMMA RecordKeeps == ASSUME CoreInv, NEW q \in Requests, RecordJob(q) PROVE CoreInv'
<1> DEFINE r == req[q].run
           new == [completed |-> FALSE, valid |-> "unapproved"]
<1>0. CASE jobs[r] # None
  BY <1>0, AbortKeeps DEF RecordJob
<1>1. CASE jobs[r] = None
  <2>1. /\ req[q].pc = "run_started" /\ jobs' = [jobs EXCEPT ![r] = new]
        /\ early' = early \cup {o \in {r} : HasCsvRow(o)} /\ req' = [req EXCEPT ![q] = Idle]
        /\ UNCHANGED <<started, written, blob, moves, rows, flaky, byHand, leftover>>
    BY <1>1 DEF RecordJob, external
  <2>2. /\ TypeOK /\ RequestKnows(req[q]) /\ r \in started /\ r \in Runs /\ req[q].gone = {}
        /\ new \in [completed: BOOLEAN, valid: Labels]
    BY <2>1 DEF CoreInv, TypeOK, RequestKnows, Labels
  <2>3. /\ req' \in [Requests -> RequestType] /\ req'[q] = Idle
        /\ \A o \in Requests \ {q} : req'[o] = req[o]
        /\ Syncing' => Syncing
    BY <2>1, <2>2, IdleFacts, Slot DEF TypeOK
  <2> HIDE DEF new
  <2>4. /\ jobs' \in [Runs -> [completed: BOOLEAN, valid: Labels] \cup {None}]
        /\ \A o \in Runs : jobs'[o] = jobs[o] \/ (o = r /\ jobs'[o] = new)
    BY <2>1, <2>2 DEF TypeOK
  <2>5. TypeOK'
    BY <2>1, <2>2, <2>3, <2>4 DEF TypeOK
  <2>6. \A o \in Requests : RequestKnows(req[o])'
    <3>1. \A o \in Requests \ {q} : RequestKnows(req[o])'
      BY <2>1, <2>3, OthersKnow
    <3>2. RequestKnows(req[q])'
      BY <2>3, IdleFacts DEF RequestKnows
    <3> QED
      BY <3>1, <3>2
  <2>7. CompletedHasOutput'
    BY <2>1, <2>4 DEF CoreInv, CompletedHasOutput, HasCsvRow, new
  <2>8. RowHasBlob'
    <3>1. \A o \in Requests : req'[o].gone = req[o].gone
      BY <2>2, <2>3, IdleFacts
    <3> QED
      BY <2>1, <3>1 DEF CoreInv, RowHasBlob
  <2> QED
    BY <2>5, <2>6, <2>7, <2>8 DEF CoreInv
<1> QED
  BY <1>0, <1>1

\* A deleted output is on record with the request that deletes it, and for every
\* synchronisation that has listed it.
LEMMA DeleteKeeps ==
  ASSUME CoreInv, NEW q \in Requests, NEW f \in Outputs, DeleteOutput(q, f) PROVE CoreInv'
<1>0. PICK x : x = [req[q] EXCEPT !.left = @ \ {f},
                                  !.gone = @ \cup {g \in {f} : req[q].prefix \in blob[f]}]
  OBVIOUS
<1>1. /\ req[q].pc = "deleting" /\ f \in req[q].left
      /\ blob' = [blob EXCEPT ![f] = @ \ {req[q].prefix}]
      /\ UNCHANGED <<started, written, moves, rows, jobs, flaky, early, byHand, leftover>>
  BY DEF DeleteOutput
<1>2. /\ TypeOK /\ RequestKnows(req[q]) /\ req[q] \in RequestType
      /\ req \in [Requests -> RequestType]
  BY DEF CoreInv, TypeOK
<1>3. req' = [req EXCEPT ![q] = x]
  BY <1>0, <1>2 DEF DeleteOutput
<1>4. /\ x \in RequestType /\ x.pc = "deleting" /\ x.run = req[q].run /\ x.snap = req[q].snap
      /\ x.prefix = req[q].prefix /\ x.seen = req[q].seen /\ x.left \subseteq req[q].left
      /\ x.gone = req[q].gone \cup {g \in {f} : req[q].prefix \in blob[f]}
  BY <1>0, <1>1, <1>2 DEF RequestType
<1>5. /\ req' \in [Requests -> RequestType] /\ req'[q] = x
      /\ \A o \in Requests \ {q} : req'[o] = req[o]
      /\ Syncing' => Syncing
  BY <1>2, <1>3, <1>4, Slot
<1>6. /\ blob' \in [Outputs -> SUBSET Labels]
      /\ \A g \in Outputs : blob'[g] = blob[g] \/ (g = f /\ blob'[g] = blob[g] \ {req[q].prefix})
  BY <1>1, <1>2 DEF TypeOK
<1>7. f \in OutputsOf(req[q].run) /\ (Syncing => f \in leftover)
  BY <1>1, <1>2 DEF RequestKnows
<1>8. TypeOK'
  BY <1>1, <1>2, <1>5, <1>6 DEF TypeOK
<1>9. \A o \in Requests : RequestKnows(req[o])'
  <2>1. \A o \in Requests \ {q} : RequestKnows(req[o])'
    <3>1. ASSUME NEW o \in Requests \ {q}, NEW p \in Labels, NEW g \in req[o].seen[p],
                 blob[g] # {}
          PROVE  blob'[g] # {} \/ g \in leftover'
      <4>1. req[o] \in RequestType /\ RequestKnows(req[o])
        BY DEF CoreInv, TypeOK
      <4>2. g \in Outputs /\ req[o].pc \in {"half_listed", "listed"}
        BY <3>1, <4>1 DEF RequestType, RequestKnows
      <4>3. Syncing
        BY <4>2 DEF Syncing
      <4> QED
        BY <1>1, <1>6, <1>7, <3>1, <4>2, <4>3
    <3> QED
      BY <1>1, <1>5, <3>1, OthersKnow
  <2>2. RequestKnows(x)'
    BY <1>1, <1>2, <1>4, <1>5, <1>7 DEF RequestKnows, OutputsOf
  <2> QED
    BY <1>5, <2>1, <2>2 DEF RequestKnows
<1>10. CompletedHasOutput'
  BY <1>1 DEF CoreInv, CompletedHasOutput, HasCsvRow
<1>11. RowHasBlob'
  <2>1. ASSUME NEW g \in Outputs, rows[g] # None, blob'[g] = {}
        PROVE  g \in leftover \/ \E o \in Requests : g \in req'[o].gone
    <3>1. \A o \in Requests : req[o].gone \subseteq req'[o].gone
      BY <1>4, <1>5
    <3>2. CASE blob[g] = {}
      BY <2>1, <3>1, <3>2 DEF CoreInv, RowHasBlob
    <3>3. CASE blob[g] # {}
      <4>1. g = f /\ req[q].prefix \in blob[f]
        BY <1>6, <2>1, <3>3
      <4> QED
        BY <1>4, <1>5, <4>1
    <3> QED
      BY <3>2, <3>3
  <2> QED
    BY <1>1, <2>1 DEF RowHasBlob
<1> QED
  BY <1>8, <1>9, <1>10, <1>11 DEF CoreInv

\* What a synchronisation writes: rows of outputs it has listed, and the jobs of
\* those among them that are new or moved.
LEMMA SaveFacts ==
  ASSUME CoreInv, NEW q \in Requests, SaveSync(q), ~Clashes(q)
  PROVE  /\ req[q].pc = "listed" /\ req' = [req EXCEPT ![q] = Idle]
         /\ UNCHANGED <<started, written, blob, moves, flaky, early, byHand, leftover>>
         /\ rows' \in RowsType
         /\ jobs' \in [Runs -> [completed: BOOLEAN, valid: Labels] \cup {None}]
         /\ \A f \in Outputs :
              /\ rows'[f] = (IF f \in New(q) \/ (f \in Changed(q) /\ rows[f] # None)
                             THEN LastSeen(q, {f}) ELSE rows[f])
              /\ f \in New(q) \cup Changed(q) => f \in written /\ (blob[f] # {} \/ f \in leftover)
         /\ \A r \in Runs :
              IF jobs[r] # None /\ JobWriters(q, r) # {}
              THEN /\ jobs'[r] # None /\ jobs'[r].valid = LastSeen(q, JobWriters(q, r))
                   /\ jobs'[r].completed <=>
                        jobs[r].completed \/ \E f \in New(q) : IsCsv(f) /\ RunOf(f) = r
              ELSE jobs'[r] = jobs[r]
<1> DEFINE job(r) == [completed |-> jobs[r].completed \/ \E f \in New(q) : IsCsv(f) /\ RunOf(f) = r,
                      valid |-> LastSeen(q, JobWriters(q, r))]
<1>1. /\ req[q].pc = "listed" /\ req' = [req EXCEPT ![q] = Idle]
      /\ UNCHANGED <<started, written, blob, moves, flaky, early, byHand, leftover>>
      /\ rows' = [f \in Outputs |-> IF f \in New(q) \/ (f \in Changed(q) /\ rows[f] # None)
                                    THEN LastSeen(q, {f}) ELSE rows[f]]
      /\ jobs' = [r \in Runs |-> IF jobs[r] # None /\ JobWriters(q, r) # {}
                                 THEN job(r) ELSE jobs[r]]
  BY DEF SaveSync, external
<1>2. TypeOK /\ RequestKnows(req[q])
  BY DEF CoreInv
<1>3. \A F : LastSeen(q, F) \in Labels
  BY DEF LastSeen, Labels
<1>4. \A f \in New(q) \cup Changed(q) : f \in written /\ (blob[f] # {} \/ f \in leftover)
  BY <1>2 DEF New, Changed, Seen, RequestKnows
<1>5. rows' \in RowsType
  BY <1>1, <1>2, <1>3 DEF TypeOK, RowsType
<1>6. \A r \in Runs : jobs[r] # None =>
                        job(r) \in [completed: BOOLEAN, valid: Labels] /\ job(r) # None
  <2>1. ASSUME NEW r \in Runs, jobs[r] # None
        PROVE  job(r) \in [completed: BOOLEAN, valid: Labels]
    <3>1. jobs[r].completed \in BOOLEAN
      BY <1>2, <2>1 DEF TypeOK
    <3> QED
      BY <1>3, <3>1
  <2>2. None \notin [completed: BOOLEAN, valid: Labels]
    BY OutputAssumption
  <2> QED
    BY <2>1, <2>2
<1>7. jobs' \in [Runs -> [completed: BOOLEAN, valid: Labels] \cup {None}]
  BY <1>1, <1>2, <1>6 DEF TypeOK
<1>8. ASSUME NEW r \in Runs
      PROVE  IF jobs[r] # None /\ JobWriters(q, r) # {}
             THEN /\ jobs'[r] # None /\ jobs'[r].valid = LastSeen(q, JobWriters(q, r))
                  /\ jobs'[r].completed <=>
                       jobs[r].completed \/ \E f \in New(q) : IsCsv(f) /\ RunOf(f) = r
             ELSE jobs'[r] = jobs[r]
  BY <1>1, <1>6
<1>9. \A f \in Outputs :
        rows'[f] = (IF f \in New(q) \/ (f \in Changed(q) /\ rows[f] # None)
                    THEN LastSeen(q, {f}) ELSE rows[f])
  BY <1>1
<1> QED
  BY <1>1, <1>4, <1>5, <1>7, <1>8, <1>9

\* A job is completed together with the row of its csv, and a row is of an output
\* that was there, or that a deletion took while the synchronisation ran.
LEMMA SaveKeeps == ASSUME CoreInv, NEW q \in Requests, SaveSync(q) PROVE CoreInv'
<1>1. CASE Clashes(q) /\ Abort(q)
  BY <1>1, AbortKeeps
<1>2. CASE ~Clashes(q)
  <2>1. /\ req[q].pc = "listed" /\ req' = [req EXCEPT ![q] = Idle]
        /\ UNCHANGED <<started, written, blob, moves, flaky, early, byHand, leftover>>
        /\ rows' \in RowsType
        /\ jobs' \in [Runs -> [completed: BOOLEAN, valid: Labels] \cup {None}]
    BY <1>2, SaveFacts
  <2>2. /\ TypeOK /\ RequestKnows(req[q]) /\ req[q].gone = {}
    BY <2>1 DEF CoreInv, RequestKnows
  <2>3. /\ req' \in [Requests -> RequestType] /\ req'[q] = Idle
        /\ \A o \in Requests \ {q} : req'[o] = req[o]
        /\ Syncing' => Syncing
    BY <2>1, <2>2, IdleFacts, Slot DEF TypeOK
  <2>4. ASSUME NEW f \in Outputs
        PROVE  /\ rows[f] # None => rows'[f] # None
               /\ f \in New(q) => rows'[f] # None
               /\ rows'[f] # None => rows[f] # None \/ f \in New(q) \cup Changed(q)
    <3>1. \A F : LastSeen(q, F) # None
      BY OutputAssumption DEF LastSeen, Labels
    <3> QED
      BY <1>2, <3>1, SaveFacts
  <2>5. \A f \in New(q) \cup Changed(q) : f \in written /\ (blob[f] # {} \/ f \in leftover)
    <3>1. New(q) \cup Changed(q) \subseteq Outputs
      BY <2>2 DEF New, Changed, Seen, RequestKnows, TypeOK
    <3> QED
      BY <1>2, <3>1, SaveFacts
  <2>6. TypeOK'
    <3>1. \A r \in Runs : jobs'[r] # None => jobs[r] # None
      BY <1>2, SaveFacts
    <3>2. \A f \in Outputs : rows'[f] # None => f \in written
      BY <2>2, <2>4, <2>5 DEF TypeOK
    <3> QED
      BY <2>1, <2>2, <2>3, <3>1, <3>2 DEF TypeOK
  <2>7. \A o \in Requests : RequestKnows(req[o])'
    <3>1. Syncing
      BY <2>1 DEF Syncing
    <3>2. \A o \in Requests : req[o].pc \in {"listing", "deleting"} =>
                                OutputsOf(req[o].run) \subseteq leftover'
      BY <2>1, <3>1 DEF CoreInv, RequestKnows
    <3>3. \A o \in Requests \ {q} : RequestKnows(req[o])'
      BY <2>1, <2>3, <3>2, OthersKnow
    <3>4. RequestKnows(req[q])'
      BY <2>3, IdleFacts DEF RequestKnows
    <3> QED
      BY <3>3, <3>4
  <2>8. CompletedHasOutput'
    <3>1. ASSUME NEW r \in Runs, jobs'[r] # None, jobs'[r].completed, r \notin byHand
          PROVE  HasCsvRow(r)'
      <4>1. CASE jobs[r] # None /\ jobs[r].completed
        BY <2>4, <3>1, <4>1 DEF CoreInv, CompletedHasOutput, HasCsvRow, OutputsOf
      <4>2. CASE \E f \in New(q) : IsCsv(f) /\ RunOf(f) = r
        <5>1. PICK f \in New(q) : IsCsv(f) /\ RunOf(f) = r
          BY <4>2
        <5>2. f \in Outputs
          BY <2>2, <2>5 DEF TypeOK
        <5> QED
          BY <2>4, <5>1, <5>2 DEF HasCsvRow, OutputsOf
      <4> QED
        BY <1>2, <3>1, <4>1, <4>2, SaveFacts
    <3> QED
      BY <2>1, <3>1 DEF CompletedHasOutput
  <2>9. RowHasBlob'
    <3>1. \A o \in Requests : req'[o].gone = req[o].gone
      BY <2>2, <2>3, IdleFacts
    <3> QED
      BY <2>1, <2>4, <2>5, <3>1 DEF CoreInv, RowHasBlob
  <2> QED
    BY <2>6, <2>7, <2>8, <2>9 DEF CoreInv
<1> QED
  BY <1>1, <1>2 DEF SaveSync

\* What a deletion of a run commits: only rows of that run go, and its job.
LEMMA CommitFacts ==
  ASSUME CoreInv, NEW q \in Requests, CommitDeleteRun(q)
  PROVE  /\ req[q].pc = "deleting" /\ req[q].run \in Runs /\ req' = [req EXCEPT ![q] = Idle]
         /\ UNCHANGED <<started, written, blob, moves, flaky, early, byHand, leftover>>
         /\ rows' \in RowsType
         /\ \A f \in Outputs :
              \/ rows'[f] = rows[f] /\ ~(f \in req[q].gone /\ req[q].snap[f] # None)
              \/ rows'[f] = None /\ RunOf(f) = req[q].run
         /\ jobs' \in [Runs -> [completed: BOOLEAN, valid: Labels] \cup {None}]
         /\ jobs'[req[q].run] = None /\ \A r \in Runs \ {req[q].run} : jobs'[r] = jobs[r]
<1>1. /\ req[q].pc = "deleting"
      /\ rows' = [f \in Outputs |-> IF f \in req[q].gone /\ req[q].snap[f] # None
                                    THEN None ELSE rows[f]]
      /\ jobs' = [jobs EXCEPT ![req[q].run] = None] /\ req' = [req EXCEPT ![q] = Idle]
      /\ UNCHANGED <<started, written, blob, moves, flaky, early, byHand, leftover>>
  BY DEF CommitDeleteRun, external
<1>2. TypeOK /\ RequestKnows(req[q])
  BY DEF CoreInv
<1>3. req[q].run \in Runs /\ \A f \in req[q].gone : RunOf(f) = req[q].run
  BY <1>1, <1>2 DEF RequestKnows, OutputsOf
<1> QED
  BY <1>1, <1>2, <1>3 DEF TypeOK, RowsType

\* The rows that a deletion of a run takes are of that run, and so is the job.
LEMMA CommitKeeps == ASSUME CoreInv, NEW q \in Requests, CommitDeleteRun(q) PROVE CoreInv'
<1>1. /\ req[q].pc = "deleting" /\ req[q].run \in Runs /\ req' = [req EXCEPT ![q] = Idle]
      /\ UNCHANGED <<started, written, blob, moves, flaky, early, byHand, leftover>>
      /\ rows' \in RowsType
      /\ \A f \in Outputs :
           \/ rows'[f] = rows[f] /\ ~(f \in req[q].gone /\ req[q].snap[f] # None)
           \/ rows'[f] = None /\ RunOf(f) = req[q].run
      /\ jobs' \in [Runs -> [completed: BOOLEAN, valid: Labels] \cup {None}]
      /\ jobs'[req[q].run] = None /\ \A r \in Runs \ {req[q].run} : jobs'[r] = jobs[r]
  BY CommitFacts
<1>2. TypeOK /\ RequestKnows(req[q])
  BY DEF CoreInv
<1>3. /\ req' \in [Requests -> RequestType] /\ req'[q] = Idle
      /\ \A o \in Requests \ {q} : req'[o] = req[o]
      /\ Syncing' => Syncing
  BY <1>1, <1>2, IdleFacts, Slot DEF TypeOK
<1>4. TypeOK'
  <2>1. \A r \in Runs : jobs'[r] # None => r \in started \cup byHand
    BY <1>1, <1>2 DEF TypeOK
  <2>2. \A f \in Outputs : rows'[f] # None => rows[f] # None
    BY <1>1
  <2> QED
    BY <1>1, <1>2, <1>3, <2>1, <2>2 DEF TypeOK
<1>5. \A o \in Requests : RequestKnows(req[o])'
  <2>1. \A o \in Requests \ {q} : RequestKnows(req[o])'
    <3>1. \A f \in Outputs : rows'[f] # None => rows[f] # None
      BY <1>1
    <3> QED
      BY <1>1, <1>3, <3>1, OthersKnow DEF OutputsOf
  <2>2. RequestKnows(req[q])'
    BY <1>3, IdleFacts DEF RequestKnows
  <2> QED
    BY <2>1, <2>2
<1>6. CompletedHasOutput'
  <2>1. ASSUME NEW r \in Runs, jobs'[r] # None, jobs'[r].completed, r \notin byHand
        PROVE  HasCsvRow(r)'
    <3>1. r # req[q].run /\ jobs'[r] = jobs[r]
      BY <1>1, <2>1
    <3>2. PICK f \in OutputsOf(r) : IsCsv(f) /\ rows[f] # None
      BY <2>1, <3>1 DEF CoreInv, CompletedHasOutput, HasCsvRow
    <3>3. rows'[f] = rows[f]
      BY <1>1, <3>1, <3>2 DEF OutputsOf
    <3> QED
      BY <3>2, <3>3 DEF HasCsvRow, OutputsOf
  <2> QED
    BY <1>1, <2>1 DEF CompletedHasOutput
<1>7. RowHasBlob'
  <2>1. ASSUME NEW f \in Outputs, rows'[f] # None
        PROVE  blob[f] # {} \/ f \in leftover \/ \E o \in Requests : f \in req'[o].gone
    <3>1. rows[f] # None /\ ~(f \in req[q].gone /\ req[q].snap[f] # None)
      BY <1>1, <2>1
    <3>2. CASE f \in req[q].gone
      BY <1>1, <1>2, <3>1, <3>2 DEF RequestKnows
    <3>3. CASE f \notin req[q].gone
      BY <1>3, <3>1, <3>3 DEF CoreInv, RowHasBlob
    <3> QED
      BY <3>2, <3>3
  <2> QED
    BY <1>1, <2>1 DEF RowHasBlob
<1> QED
  BY <1>4, <1>5, <1>6, <1>7 DEF CoreInv

\* A step that leaves requests, outputs and the bucket alone, and whose jobs and
\* rows are new only when added by hand.
LEMMA TableKeeps ==
  ASSUME CoreInv, UNCHANGED <<written, blob, req, flaky, early, leftover>>, moves' \in 0..MaxMoves,
         started \subseteq started', started' \subseteq Runs,
         byHand \subseteq byHand', byHand' \subseteq Runs,
         rows' \in RowsType, \A f \in Outputs : rows'[f] # None => rows'[f] = rows[f],
         jobs' \in [Runs -> [completed: BOOLEAN, valid: Labels] \cup {None}],
         \A r \in Runs : r \notin byHand' =>
            /\ jobs'[r] # None => jobs'[r] = jobs[r]
            /\ \A f \in OutputsOf(r) : rows'[f] = rows[f]
  PROVE  CoreInv'
<1>1. TypeOK /\ TypeOK'
  BY DEF CoreInv, TypeOK
<1>2. \A o \in Requests : RequestKnows(req[o])'
  <2>1. Syncing' = Syncing
    BY DEF Syncing
  <2> QED
    BY <2>1, OthersKnow DEF OutputsOf
<1>3. CompletedHasOutput'
  BY DEF CoreInv, CompletedHasOutput, HasCsvRow
<1>4. RowHasBlob'
  BY DEF CoreInv, RowHasBlob
<1> QED
  BY <1>1, <1>2, <1>3, <1>4 DEF CoreInv

\* A run that somebody starts in the workspace.
LEMMA RunByHandKeeps == ASSUME CoreInv, NEW r \in Runs, RunByHand(r) PROVE CoreInv'
  BY TableKeeps DEF RunByHand, CoreInv, TypeOK

\* A job that is added by hand.
LEMMA CustomKeeps == ASSUME CoreInv, NEW r \in Runs, AddCustomJob(r) PROVE CoreInv'
<1> DEFINE new == [completed |-> TRUE, valid |-> "approved"]
<1>1. new \in [completed: BOOLEAN, valid: Labels]
  BY DEF Labels
<1> HIDE DEF new
<1>2. /\ jobs' = [jobs EXCEPT ![r] = new] /\ byHand' = byHand \cup {r}
      /\ UNCHANGED <<started, written, blob, moves, rows, req, flaky, early, leftover>>
  BY DEF AddCustomJob, external, new
<1>3. /\ jobs' \in [Runs -> [completed: BOOLEAN, valid: Labels] \cup {None}]
      /\ \A o \in Runs \ {r} : jobs'[o] = jobs[o]
  BY <1>1, <1>2 DEF CoreInv, TypeOK
<1> QED
  BY <1>2, <1>3, TableKeeps DEF CoreInv, TypeOK

\* A job that goes with its model.
LEMMA DropKeeps == ASSUME CoreInv, NEW r \in Runs, DropJob(r) PROVE CoreInv'
  BY TableKeeps DEF DropJob, external, CoreInv, TypeOK

\* A row that goes with a batch.
LEMMA LoseKeeps == ASSUME CoreInv, NEW f \in Outputs, LoseRow(f) PROVE CoreInv'
<1>1. /\ rows' = [rows EXCEPT ![f] = None] /\ byHand' = byHand \cup {RunOf(f)}
      /\ moves < MaxMoves /\ moves' = moves + 1
      /\ UNCHANGED <<started, written, blob, jobs, req, flaky, early, leftover>>
  BY DEF LoseRow
<1>2. RunOf(f) \in Runs /\ rows' \in RowsType /\ moves' \in 0..MaxMoves
  BY <1>1, OutputAssumption DEF CoreInv, TypeOK, RowsType, Outputs, RunOf
<1>3. \A g \in Outputs : g # f => rows'[g] = rows[g]
  BY <1>1 DEF CoreInv, TypeOK, RowsType
<1>4. rows'[f] = None
  BY <1>1 DEF CoreInv, TypeOK, RowsType
<1> QED
  BY <1>1, <1>2, <1>3, <1>4, TableKeeps DEF CoreInv, TypeOK, OutputsOf

\* At the start there is nothing.
LEMMA CoreInit == Init => CoreInv
<1> SUFFICES ASSUME Init PROVE CoreInv
  OBVIOUS
<1>1. NoRows \in RowsType /\ \A f \in Outputs : NoRows[f] = None
  BY DEF NoRows, RowsType
<1>2. TypeOK
  BY <1>1, IdleFacts, OutputAssumption DEF Init, TypeOK
<1>3. \A q \in Requests : RequestKnows(req[q])
  BY IdleFacts DEF Init, RequestKnows
<1> QED
  BY <1>1, <1>2, <1>3 DEF Init, CoreInv, CompletedHasOutput, RowHasBlob

\* A step that changes nothing but whether calls may fail.
LEMMA QuietKeeps ==
  ASSUME CoreInv, flaky' \in BOOLEAN,
         UNCHANGED <<started, written, blob, moves, rows, jobs, req, early, byHand, leftover>>
  PROVE  CoreInv'
<1>1. TypeOK'
  BY DEF CoreInv, TypeOK
<1>2. \A o \in Requests : RequestKnows(req[o])'
  <2>1. Syncing' = Syncing
    BY DEF Syncing
  <2> QED
    BY <2>1, OthersKnow
<1>3. CompletedHasOutput' /\ RowHasBlob'
  BY DEF CoreInv, CompletedHasOutput, HasCsvRow, RowHasBlob
<1> QED
  BY <1>1, <1>2, <1>3 DEF CoreInv

\* Every step of the system keeps the invariant.
LEMMA CoreStep == CoreInv /\ [Next]_vars => CoreInv'
<1> SUFFICES ASSUME CoreInv, [Next]_vars PROVE CoreInv'
  OBVIOUS
<1>1. CASE UNCHANGED vars
  BY <1>1, QuietKeeps DEF vars, CoreInv, TypeOK
<1>2. CASE Heal
  BY <1>2, QuietKeeps DEF Heal
<1>3. ASSUME NEW f \in Outputs,
             (\E p \in Labels : Publish(f, p)) \/ MoveCopy(f) \/ MoveDelete(f)
      PROVE  CoreInv'
  BY <1>3, BlobsKeep
<1>4. ASSUME NEW q \in Requests, NEW r \in Runs, StartRun(q, r) \/ StartDeleteRun(q, r)
      PROVE  CoreInv'
  BY <1>4, StartRunKeeps, StartDeleteKeeps
<1>8. ASSUME NEW r \in Runs, RunByHand(r) \/ AddCustomJob(r) \/ DropJob(r) PROVE CoreInv'
  BY <1>8, RunByHandKeeps, CustomKeeps, DropKeeps
<1>9. ASSUME NEW f \in Outputs, LoseRow(f) PROVE CoreInv'
  BY <1>9, LoseKeeps
<1>5. CASE Sync
  BY <1>5, StartSyncKeeps DEF Sync
<1>6. ASSUME NEW q \in Requests, Advance(q) PROVE CoreInv'
  BY <1>6, RecordKeeps, ListKeeps, SaveKeeps, PrefixKeeps, DeleteKeeps, CommitKeeps DEF Advance
<1>7. ASSUME NEW q \in Requests, Fail(q) PROVE CoreInv'
  BY <1>7, AbortKeeps DEF Fail
<1> QED
  BY <1>1, <1>2, <1>3, <1>4, <1>5, <1>6, <1>7, <1>8, <1>9 DEF Next

SyncPcs == {"sync", "half_listed", "listed"}
DeletePcs == {"listing", "deleting"}

\* What a step may do to one request slot, as far as the history of runs goes.
SlotStep(o) ==
  \/ req'[o].pc = "done"
  \/ /\ req'[o].run = req[o].run /\ req'[o].snap = req[o].snap
     /\ \/ req'[o].pc = req[o].pc
        \/ req'[o].pc \in SyncPcs /\ req[o].pc \in SyncPcs
        \/ req'[o].pc \in DeletePcs /\ req[o].pc \in DeletePcs
  \/ /\ req'[o].pc = "run_started" /\ req'[o].run \in Runs \ started
     /\ jobs' = jobs /\ \A p \in Requests \ {o} : req'[p] = req[p]
  \/ req'[o].pc = "sync" /\ req'[o].snap = rows /\ rows' = rows
  \/ req'[o].pc = "listing" /\ req'[o].run \in Runs /\ jobs[req'[o].run] # None

\* What a step does to the tables: where new jobs come from, and where rows go.
TableStep ==
  /\ started \subseteq started' /\ written \subseteq written' /\ byHand \subseteq byHand'
  /\ \A o \in Requests : SlotStep(o)
  /\ \A r \in Runs : jobs'[r] # None =>
       \/ jobs[r] # None
       \/ r \in byHand'
       \/ \E p \in Requests : req[p].pc = "run_started" /\ req[p].run = r /\ req'[p].pc = "done"
  /\ \A f \in Outputs : rows[f] # None /\ rows'[f] = None =>
       \/ RunOf(f) \in byHand'
       \/ /\ jobs'[RunOf(f)] = None
          /\ \E p \in Requests : req[p].pc \in DeletePcs /\ req[p].run = RunOf(f)

\* A request that moves alone, the tables as they were.
LEMMA SlotMoves ==
  ASSUME CoreInv, NEW q \in Requests, NEW x, req' = [req EXCEPT ![q] = x],
         started \subseteq started', UNCHANGED <<written, rows, jobs, byHand>>,
         \/ x.pc = "done"
         \/ /\ x.run = req[q].run /\ x.snap = req[q].snap
            /\ \/ x.pc = req[q].pc
               \/ x.pc \in SyncPcs /\ req[q].pc \in SyncPcs
               \/ x.pc \in DeletePcs /\ req[q].pc \in DeletePcs
         \/ x.pc = "run_started" /\ x.run \in Runs \ started
         \/ x.pc = "sync" /\ x.snap = rows
         \/ x.pc = "listing" /\ x.run \in Runs /\ jobs[x.run] # None
  PROVE  TableStep
<1>1. req'[q] = x /\ \A o \in Requests \ {q} : req'[o] = req[o]
  BY DEF CoreInv, TypeOK
<1>2. SlotStep(q)
  BY <1>1 DEF SlotStep
<1>3. \A o \in Requests \ {q} : SlotStep(o)
  BY <1>1 DEF SlotStep
<1> QED
  BY <1>2, <1>3 DEF TableStep

\* A step that leaves every request where it is.
LEMMA RequestsStay ==
  ASSUME req' = req, started \subseteq started', written \subseteq written',
         byHand \subseteq byHand',
         \A r \in Runs : jobs'[r] # None => jobs[r] # None \/ r \in byHand',
         \A f \in Outputs : rows[f] # None /\ rows'[f] = None => RunOf(f) \in byHand'
  PROVE  TableStep
<1>1. \A o \in Requests : SlotStep(o)
  BY DEF SlotStep
<1> QED
  BY <1>1 DEF TableStep

\* A request that ends with a write of its own.
LEMMA RequestEnds ==
  ASSUME CoreInv, NEW q \in Requests, req' = [req EXCEPT ![q] = Idle],
         UNCHANGED <<started, written, byHand>>,
         \A r \in Runs : jobs'[r] # None =>
            jobs[r] # None \/ (req[q].pc = "run_started" /\ req[q].run = r),
         \A f \in Outputs : rows[f] # None /\ rows'[f] = None =>
            jobs'[RunOf(f)] = None /\ req[q].pc \in DeletePcs /\ req[q].run = RunOf(f)
  PROVE  TableStep
<1>1. req'[q].pc = "done" /\ \A o \in Requests \ {q} : req'[o] = req[o]
  BY IdleFacts DEF CoreInv, TypeOK
<1>2. \A o \in Requests : SlotStep(o)
  BY <1>1 DEF SlotStep
<1> QED
  BY <1>1, <1>2 DEF TableStep

\* A request that gives up.
LEMMA AbortTables == ASSUME CoreInv, NEW q \in Requests, Abort(q) PROVE TableStep
  BY RequestEnds DEF Abort, external

\* What the steps of a request that has begun do to the tables.
LEMMA AdvanceTables == ASSUME CoreInv, NEW q \in Requests, Advance(q) PROVE TableStep
<1>0. /\ req \in [Requests -> RequestType]
      /\ jobs \in [Runs -> [completed: BOOLEAN, valid: Labels] \cup {None}]
  BY DEF CoreInv, TypeOK
<1>1. CASE RecordJob(q)
  <2>1. CASE Abort(q)
    BY <2>1, AbortTables
  <2>2. CASE ~Abort(q)
    BY <1>0, <1>1, <2>2, RequestEnds DEF RecordJob, external
  <2> QED
    BY <2>1, <2>2
<1>2. CASE ListApproved(q)
  <2>1. PICK x : x = [req[q] EXCEPT !.pc = "half_listed",
                         !.seen["approved"] = {f \in Outputs : "approved" \in blob[f]}]
    OBVIOUS
  <2>2. x.pc = "half_listed" /\ x.run = req[q].run /\ x.snap = req[q].snap
    BY <1>0, <2>1 DEF RequestType
  <2>3. /\ req[q].pc = "sync" /\ req' = [req EXCEPT ![q] = x]
        /\ UNCHANGED <<started, written, rows, jobs, byHand>>
    BY <1>0, <1>2, <2>1 DEF ListApproved, external
  <2> QED
    BY <2>2, <2>3, SlotMoves DEF SyncPcs
<1>3. CASE ListUnapproved(q)
  <2>1. PICK x : x = [req[q] EXCEPT !.pc = "listed",
                         !.seen["unapproved"] = {f \in Outputs : "unapproved" \in blob[f]}]
    OBVIOUS
  <2>2. x.pc = "listed" /\ x.run = req[q].run /\ x.snap = req[q].snap
    BY <1>0, <2>1 DEF RequestType
  <2>3. /\ req[q].pc = "half_listed" /\ req' = [req EXCEPT ![q] = x]
        /\ UNCHANGED <<started, written, rows, jobs, byHand>>
    BY <1>0, <1>3, <2>1 DEF ListUnapproved, external
  <2> QED
    BY <2>2, <2>3, SlotMoves DEF SyncPcs
<1>4. CASE SaveSync(q)
  <2>1. CASE Clashes(q)
    BY <1>4, <2>1, AbortTables DEF SaveSync
  <2>2. CASE ~Clashes(q)
    <3>1. \A r \in Runs : jobs'[r] # None => jobs[r] # None
      BY <1>4, <2>2, SaveFacts
    <3>2. \A F : LastSeen(q, F) # None
      BY OutputAssumption DEF LastSeen, Labels
    <3>3. \A f \in Outputs : rows[f] # None => rows'[f] # None
      BY <1>4, <2>2, <3>2, SaveFacts
    <3>4. req' = [req EXCEPT ![q] = Idle] /\ UNCHANGED <<started, written, byHand>>
      BY <1>4, <2>2, SaveFacts
    <3> QED
      BY <3>1, <3>3, <3>4, RequestEnds
  <2> QED
    BY <2>1, <2>2
<1>5. CASE ListPrefix(q) \/ NextPrefix(q) \/ \E f \in Outputs : DeleteOutput(q, f)
  <2>1. PICK x : /\ req' = [req EXCEPT ![q] = x] /\ x.pc \in DeletePcs /\ req[q].pc \in DeletePcs
                 /\ x.run = req[q].run /\ x.snap = req[q].snap
    <3>1. CASE ListPrefix(q)
      <4>1. PICK x : x = [req[q] EXCEPT !.pc = "deleting",
                     !.left = {f \in OutputsOf(req[q].run) : req[q].prefix \in blob[f]}]
        OBVIOUS
      <4>2. req' = [req EXCEPT ![q] = x] /\ req[q].pc = "listing"
        BY <1>0, <3>1, <4>1 DEF ListPrefix
      <4>3. x.pc = "deleting" /\ x.run = req[q].run /\ x.snap = req[q].snap
        BY <1>0, <4>1 DEF RequestType
      <4> QED
        BY <4>2, <4>3 DEF DeletePcs
    <3>2. CASE NextPrefix(q)
      <4>1. PICK x : x = [req[q] EXCEPT !.pc = "listing", !.prefix = "unapproved"]
        OBVIOUS
      <4>2. req' = [req EXCEPT ![q] = x] /\ req[q].pc = "deleting"
        BY <1>0, <3>2, <4>1 DEF NextPrefix
      <4>3. x.pc = "listing" /\ x.run = req[q].run /\ x.snap = req[q].snap
        BY <1>0, <4>1 DEF RequestType
      <4> QED
        BY <4>2, <4>3 DEF DeletePcs
    <3>3. ASSUME NEW f \in Outputs, DeleteOutput(q, f)
          PROVE  \E x : /\ req' = [req EXCEPT ![q] = x] /\ x.pc \in DeletePcs
                        /\ req[q].pc \in DeletePcs
                        /\ x.run = req[q].run /\ x.snap = req[q].snap
      <4>1. PICK x : x = [req[q] EXCEPT !.left = @ \ {f},
                                        !.gone = @ \cup {g \in {f} : req[q].prefix \in blob[f]}]
        OBVIOUS
      <4>2. req' = [req EXCEPT ![q] = x] /\ req[q].pc = "deleting"
        BY <1>0, <3>3, <4>1 DEF DeleteOutput
      <4>3. x.pc = req[q].pc /\ x.run = req[q].run /\ x.snap = req[q].snap
        BY <1>0, <4>1 DEF RequestType
      <4> QED
        BY <4>2, <4>3 DEF DeletePcs
    <3> QED
      BY <1>5, <3>1, <3>2, <3>3
  <2>2. UNCHANGED <<started, written, rows, jobs, byHand>>
    BY <1>5 DEF ListPrefix, NextPrefix, DeleteOutput, external
  <2> QED
    BY <2>1, <2>2, SlotMoves
<1>6. CASE CommitDeleteRun(q)
  <2>1. req[q].pc \in DeletePcs
    BY <1>6, CommitFacts DEF DeletePcs
  <2>2. \A r \in Runs : jobs'[r] # None => jobs[r] # None
    BY <1>6, CommitFacts
  <2>3. \A f \in Outputs : rows[f] # None /\ rows'[f] = None =>
          jobs'[RunOf(f)] = None /\ req[q].run = RunOf(f)
    BY <1>6, CommitFacts
  <2>4. req' = [req EXCEPT ![q] = Idle] /\ UNCHANGED <<started, written, byHand>>
    BY <1>6, CommitFacts
  <2> QED
    BY <2>1, <2>2, <2>3, <2>4, RequestEnds
<1> QED
  BY <1>1, <1>2, <1>3, <1>4, <1>5, <1>6 DEF Advance

\* Every step is of that shape.
LEMMA NextTables == ASSUME CoreInv, [Next]_vars PROVE TableStep
<1>0. TypeOK
  BY DEF CoreInv
<1>1. CASE UNCHANGED vars \/ Heal
  BY <1>1, RequestsStay DEF vars, Heal
<1>2. ASSUME NEW f \in Outputs,
             (\E p \in Labels : Publish(f, p)) \/ MoveCopy(f) \/ MoveDelete(f)
      PROVE  TableStep
  <2>1. /\ UNCHANGED <<started, rows, jobs, req, byHand>> /\ written \subseteq written'
    BY <1>2 DEF Publish, MoveCopy, MoveDelete
  <2> QED
    BY <2>1, RequestsStay
<1>3. ASSUME NEW f \in Outputs, LoseRow(f) PROVE TableStep
  <2>1. \A g \in Outputs : rows[g] # None /\ rows'[g] = None => RunOf(g) \in byHand'
    BY <1>0, <1>3 DEF LoseRow, TypeOK, RowsType
  <2> QED
    BY <1>3, <2>1, RequestsStay DEF LoseRow
<1>4. ASSUME NEW r \in Runs, RunByHand(r) PROVE TableStep
  BY <1>4, RequestsStay DEF RunByHand
<1>5. ASSUME NEW r \in Runs, AddCustomJob(r) \/ DropJob(r) PROVE TableStep
  <2>1. \A o \in Runs : jobs'[o] # None => jobs[o] # None \/ o \in byHand'
    BY <1>0, <1>5 DEF AddCustomJob, DropJob, TypeOK
  <2>2. UNCHANGED <<started, written, rows, req>> /\ byHand \subseteq byHand'
    BY <1>5 DEF AddCustomJob, DropJob, external
  <2> QED
    BY <2>1, <2>2, RequestsStay
<1>6. ASSUME NEW q \in Requests, NEW r \in Runs, StartRun(q, r) PROVE TableStep
  <2>1. PICK x : x = [Idle EXCEPT !.pc = "run_started", !.run = r]
    OBVIOUS
  <2>2. x.pc = "run_started" /\ x.run = r
    BY <2>1, IdleFacts DEF RequestType
  <2>3. /\ r \notin started /\ started \subseteq started' /\ req' = [req EXCEPT ![q] = x]
        /\ UNCHANGED <<written, rows, jobs, byHand>>
    BY <1>6, <2>1 DEF StartRun
  <2> QED
    BY <2>2, <2>3, SlotMoves
<1>7. ASSUME NEW q \in Requests, StartSync(q) PROVE TableStep
  <2>1. PICK x : x = [Idle EXCEPT !.pc = "sync", !.snap = rows]
    OBVIOUS
  <2>2. x.pc = "sync" /\ x.snap = rows
    BY <2>1, IdleFacts DEF RequestType
  <2>3. req' = [req EXCEPT ![q] = x] /\ UNCHANGED <<started, written, rows, jobs, byHand>>
    BY <1>7, <2>1 DEF StartSync, external
  <2> QED
    BY <2>2, <2>3, SlotMoves
<1>8. ASSUME NEW q \in Requests, NEW r \in Runs, StartDeleteRun(q, r) PROVE TableStep
  <2>1. PICK x : x = [Idle EXCEPT !.pc = "listing", !.run = r, !.snap = rows,
                                  !.prefix = "approved"]
    OBVIOUS
  <2>2. x.pc = "listing" /\ x.run = r
    BY <2>1, IdleFacts DEF RequestType
  <2>3. /\ jobs[r] # None /\ req' = [req EXCEPT ![q] = x]
        /\ UNCHANGED <<started, written, rows, jobs, byHand>>
    BY <1>8, <2>1 DEF StartDeleteRun, external
  <2> QED
    BY <2>2, <2>3, SlotMoves
<1>9. ASSUME NEW q \in Requests, Advance(q) \/ Fail(q) PROVE TableStep
  BY <1>9, AdvanceTables, AbortTables DEF Fail
<1> QED
  BY <1>1, <1>2, <1>3, <1>4, <1>5, <1>6, <1>7, <1>8, <1>9 DEF Next, Sync

\* A run with a job is settled, and a settled run stays so.
LEMMA SettledFacts ==
  ASSUME CoreInv, RunHistory, TableStep, NEW r \in Runs
  PROVE  /\ jobs[r] # None => Settled(r)
         /\ Settled(r) => Settled(r)'
<1>1. jobs[r] # None => Settled(r)
  BY DEF CoreInv, TypeOK, RunHistory, Settled, Pending
<1>2. ASSUME Settled(r), r \notin byHand' PROVE Settled(r)'
  <2>1. r \in started /\ ~Pending(r) /\ r \in started'
    BY <1>2 DEF Settled, TableStep
  <2>2. ASSUME NEW q \in Requests, req'[q].pc = "run_started", req'[q].run = r PROVE FALSE
    <3>1. SlotStep(q)
      BY DEF TableStep
    <3>2. req[q].pc = "run_started" /\ req[q].run = r
      BY <2>1, <2>2, <3>1 DEF SlotStep, SyncPcs, DeletePcs
    <3> QED
      BY <2>1, <3>2 DEF Pending
  <2> QED
    BY <2>1, <2>2 DEF Settled, Pending
<1>3. r \in byHand' => Settled(r)'
  BY DEF Settled
<1> QED
  BY <1>1, <1>2, <1>3

\* A request that has a run started in a step or kept it: nobody else has it, and
\* it has no job but one that was added by hand.
LEMMA PendingStep ==
  ASSUME CoreInv, RunHistory, TableStep, NEW q \in Requests, req'[q].pc = "run_started"
  PROVE  /\ \A o \in Requests :
              req'[o].pc = "run_started" /\ req'[o].run = req'[q].run => q = o
         /\ jobs'[req'[q].run] = None \/ req'[q].run \in byHand'
<1> DEFINE Kept(o) == req[o].pc = "run_started" /\ req[o].run = req'[o].run
           Fresh(o) == /\ req'[o].run \in Runs \ started /\ jobs' = jobs
                       /\ \A p \in Requests \ {o} : req'[p] = req[p]
<1>1. \A o \in Requests : req'[o].pc = "run_started" => Kept(o) \/ Fresh(o)
  BY DEF TableStep, SlotStep, SyncPcs, DeletePcs
<1>2. \A o \in Requests : req[o].pc = "run_started" => req[o].run \in started
  BY DEF CoreInv, RequestKnows
<1>3. ASSUME NEW o \in Requests, req'[o].pc = "run_started", req'[o].run = req'[q].run
      PROVE  q = o
  <2>1. CASE Kept(q) /\ Kept(o)
    BY <1>3, <2>1 DEF RunHistory
  <2>2. CASE Fresh(q)
    BY <1>2, <1>3, <2>2
  <2>3. CASE Fresh(o)
    BY <1>2, <1>3, <2>3
  <2> QED
    BY <1>1, <1>3, <2>1, <2>2, <2>3
<1>4. jobs'[req'[q].run] = None \/ req'[q].run \in byHand'
  <2>1. CASE Kept(q)
    <3> DEFINE r == req[q].run
    <3>1. r \in Runs /\ byHand \subseteq byHand'
      BY <1>2, <2>1 DEF CoreInv, TypeOK, TableStep
    <3>2. jobs[r] = None \/ r \in byHand
      BY <2>1 DEF RunHistory
    <3>3. ASSUME NEW p \in Requests, req[p].pc = "run_started", req[p].run = r,
                 req'[p].pc = "done"
          PROVE  FALSE
      BY <2>1, <3>3 DEF RunHistory
    <3> QED
      BY <2>1, <3>1, <3>2, <3>3 DEF TableStep
  <2>2. CASE Fresh(q)
    BY <2>2 DEF CoreInv, TypeOK, TableStep
  <2> QED
    BY <1>1, <2>1, <2>2
<1> QED
  BY <1>3, <1>4

\* A row that a synchronisation knows and that is gone is of a run that has no job
\* and never gets one again, unless by hand.
LEMMA SnapStep ==
  ASSUME CoreInv, RunHistory, TableStep, NEW q \in Requests, req'[q].pc \in SyncPcs,
         NEW f \in Outputs, req'[q].snap[f] # None
  PROVE  /\ f \in written'
         /\ rows'[f] = None =>
              RunOf(f) \in byHand' \/ (jobs'[RunOf(f)] = None /\ Settled(RunOf(f))')
<1> DEFINE r == RunOf(f)
<1>0. r \in Runs /\ byHand \subseteq byHand' /\ written \subseteq written'
  BY DEF Outputs, RunOf, TableStep
<1>1. \/ req[q].pc \in SyncPcs /\ req'[q].snap = req[q].snap
      \/ req'[q].snap = rows /\ rows' = rows
  BY DEF TableStep, SlotStep, SyncPcs, DeletePcs
<1>2. CASE req'[q].snap = rows /\ rows' = rows
  BY <1>0, <1>2 DEF CoreInv, TypeOK
<1>3. CASE req[q].pc \in SyncPcs /\ req'[q].snap = req[q].snap
  <2>1. /\ f \in written
        /\ rows[f] = None => r \in byHand \/ (jobs[r] = None /\ Settled(r))
    BY <1>3 DEF RunHistory, SyncPcs
  <2>2. ASSUME rows'[f] = None, r \notin byHand' PROVE jobs'[r] = None /\ Settled(r)'
    <3>1. CASE rows[f] = None
      <4>1. jobs[r] = None /\ Settled(r) /\ r \notin byHand
        BY <1>0, <2>1, <2>2, <3>1
      <4>2. jobs'[r] = None
        BY <1>0, <2>2, <4>1 DEF TableStep, Settled, Pending
      <4> QED
        BY <1>0, <4>1, <4>2, SettledFacts
    <3>2. CASE rows[f] # None
      <4>1. jobs'[r] = None /\ \E p \in Requests : req[p].pc \in DeletePcs /\ req[p].run = r
        BY <2>2, <3>2 DEF TableStep
      <4>2. Settled(r)
        BY <4>1 DEF RunHistory, DeletePcs
      <4> QED
        BY <1>0, <4>1, <4>2, SettledFacts
    <3> QED
      BY <3>1, <3>2
  <2> QED
    BY <1>0, <2>1, <2>2
<1> QED
  BY <1>1, <1>2, <1>3

\* The history of runs through a step.
LEMMA HistoryStep == CoreInv /\ RunHistory /\ [Next]_vars => RunHistory'
<1> SUFFICES ASSUME CoreInv, RunHistory, [Next]_vars PROVE RunHistory'
  OBVIOUS
<1>0. TableStep
  BY NextTables
<1>1. \A q, o \in Requests :
        req'[q].pc = "run_started" /\ req'[o].pc = "run_started" /\ req'[q].run = req'[o].run
          => q = o
  BY <1>0, PendingStep
<1>2. \A q \in Requests : req'[q].pc = "run_started" =>
                            jobs'[req'[q].run] = None \/ req'[q].run \in byHand'
  BY <1>0, PendingStep
<1>3. ASSUME NEW q \in Requests, req'[q].pc \in {"listing", "deleting"}
      PROVE  Settled(req[q].run)'
  <2>1. \/ req[q].pc \in DeletePcs /\ req'[q].run = req[q].run
        \/ req'[q].run \in Runs /\ jobs[req'[q].run] # None
    BY <1>0, <1>3 DEF TableStep, SlotStep, SyncPcs, DeletePcs
  <2>2. req'[q].run \in Runs
    BY <2>1 DEF CoreInv, RequestKnows, DeletePcs
  <2>3. PICK r \in Runs : r = req'[q].run
    BY <2>2
  <2>4. Settled(r)
    <3>1. CASE req[q].pc \in DeletePcs /\ req'[q].run = req[q].run
      BY <2>3, <3>1 DEF RunHistory, DeletePcs
    <3>2. CASE jobs[req'[q].run] # None
      BY <1>0, <2>3, <3>2, SettledFacts
    <3> QED
      BY <2>1, <3>1, <3>2
  <2>5. Settled(r)'
    BY <1>0, <2>4, SettledFacts
  <2> QED
    BY <2>3, <2>5 DEF Settled, Pending
<1>4. ASSUME NEW q \in Requests, req'[q].pc \in {"sync", "half_listed", "listed"},
             NEW f \in Outputs, req'[q].snap[f] # None
      PROVE  /\ f \in written'
             /\ rows'[f] = None =>
                  RunOf(f) \in byHand' \/ (jobs'[RunOf(f)] = None /\ Settled(RunOf(f))')
  BY <1>0, <1>4, SnapStep DEF SyncPcs
<1> QED
  BY <1>1, <1>2, <1>3, <1>4 DEF RunHistory

\* A synchronisation that writes a job writes the rows of all that decide its flag.
LEMMA SaveFlags ==
  ASSUME SyncInv, NEW q \in Requests, SaveSync(q), ~Clashes(q) PROVE JobFlagFromOutput'
<1> USE DEF SyncInv, CoreInv
<1> SUFFICES ASSUME NEW r \in Runs, jobs'[r] # None, jobs'[r].completed, r \notin byHand'
             PROVE  \E f \in OutputsOf(r) : rows'[f] = jobs'[r].valid
  BY DEF JobFlagFromOutput, OutputsOf
<1>0. /\ req[q].pc = "listed" /\ r \notin byHand
      /\ New(q) \cup Changed(q) \subseteq Outputs
      /\ New(q) \cap Changed(q) = {}
  BY SaveFacts DEF TypeOK, RequestKnows, New, Changed, Seen
<1>1. CASE JobWriters(q, r) # {} /\ jobs[r] # None
  <2>1. ASSUME NEW w \in JobWriters(q, r)
        PROVE  w \in OutputsOf(r) /\ rows'[w] = LastSeen(q, {w})
    <3>1. w \in OutputsOf(r) /\ w \in Outputs /\ RunOf(w) = r /\ w \in New(q) \cup Changed(q)
      BY <1>0, <2>1 DEF JobWriters, OutputsOf
    <3>2. w \in Changed(q) => rows[w] # None
      BY <1>0, <1>1, <3>1 DEF RunHistory, Changed, New
    <3> QED
      BY <3>1, <3>2, SaveFacts
  <2>2. jobs'[r].valid = LastSeen(q, JobWriters(q, r))
    BY <1>1, SaveFacts
  <2>3. PICK w \in JobWriters(q, r) : LastSeen(q, {w}) = LastSeen(q, JobWriters(q, r))
    BY <1>1 DEF LastSeen
  <2> QED
    BY <2>1, <2>2, <2>3
<1>2. CASE JobWriters(q, r) = {} \/ jobs[r] = None
  <2>1. jobs'[r] = jobs[r]
    BY <1>2, SaveFacts
  <2>2. PICK f \in OutputsOf(r) : rows[f] = jobs[r].valid
    BY <1>0, <2>1 DEF JobFlagFromOutput
  <2>3. f \in Outputs /\ RunOf(f) = r /\ rows[f] # None
    <3>1. jobs[r].valid \in Labels
      BY <2>1 DEF TypeOK
    <3> QED
      BY <2>2, <3>1, OutputAssumption DEF OutputsOf
  <2>4. f \notin New(q)
    BY <2>3 DEF Clashes
  <2>5. f \notin Changed(q)
    BY <1>2, <2>1, <2>3 DEF JobWriters
  <2>6. rows'[f] = rows[f]
    BY <2>3, <2>4, <2>5, SaveFacts
  <2> QED
    BY <2>1, <2>2, <2>6
<1> QED
  BY <1>1, <1>2

\* The flags of jobs through a step.
LEMMA FlagStep == SyncInv /\ [Next]_vars => JobFlagFromOutput'
<1> SUFFICES ASSUME SyncInv, [Next]_vars PROVE JobFlagFromOutput'
  OBVIOUS
<1>0. CoreInv /\ TypeOK /\ JobFlagFromOutput
  BY DEF SyncInv, CoreInv
<1>1. ASSUME byHand \subseteq byHand',
             \A r \in Runs : r \notin byHand' /\ jobs'[r] # None /\ jobs'[r].completed =>
                /\ jobs'[r] = jobs[r]
                /\ \A f \in OutputsOf(r) : rows'[f] = rows[f]
      PROVE  JobFlagFromOutput'
  BY <1>0, <1>1 DEF JobFlagFromOutput, OutputsOf
<1>2. CASE UNCHANGED <<rows, jobs, byHand>>
  BY <1>1, <1>2
<1>3. ASSUME NEW q \in Requests, SaveSync(q) PROVE JobFlagFromOutput'
  <2>1. CASE Clashes(q)
    BY <1>2, <1>3, <2>1 DEF SaveSync, Abort
  <2>2. CASE ~Clashes(q)
    BY <1>3, <2>2, SaveFlags
  <2> QED
    BY <2>1, <2>2
<1>4. ASSUME NEW q \in Requests, CommitDeleteRun(q) PROVE JobFlagFromOutput'
  <2>1. byHand' = byHand
    BY <1>0, <1>4, CommitFacts
  <2>2. ASSUME NEW r \in Runs, jobs'[r] # None
        PROVE  jobs'[r] = jobs[r] /\ \A f \in OutputsOf(r) : rows'[f] = rows[f]
    BY <1>0, <1>4, <2>2, CommitFacts DEF OutputsOf
  <2> QED
    BY <1>1, <2>1, <2>2
<1>5. ASSUME NEW q \in Requests, RecordJob(q) PROVE JobFlagFromOutput'
  <2>1. CASE jobs[req[q].run] # None
    BY <1>2, <1>5, <2>1 DEF RecordJob, Abort
  <2>2. CASE jobs[req[q].run] = None
    <3>1. /\ rows' = rows /\ byHand' = byHand
          /\ jobs' = [jobs EXCEPT ![req[q].run] = [completed |-> FALSE, valid |-> "unapproved"]]
      BY <1>5, <2>2 DEF RecordJob
    <3>2. \A r \in Runs : jobs'[r] = jobs[r] \/ ~jobs'[r].completed
      BY <1>0, <3>1 DEF TypeOK
    <3> QED
      BY <1>1, <3>1, <3>2
  <2> QED
    BY <2>1, <2>2
<1>6. ASSUME NEW r \in Runs, AddCustomJob(r) \/ DropJob(r) PROVE JobFlagFromOutput'
  <2>1. rows' = rows /\ byHand \subseteq byHand'
    BY <1>6 DEF AddCustomJob, DropJob
  <2>2. \A o \in Runs : o \in byHand' \/ jobs'[o] = None \/ jobs'[o] = jobs[o]
    BY <1>0, <1>6 DEF AddCustomJob, DropJob, TypeOK
  <2> QED
    BY <1>1, <2>1, <2>2
<1>7. ASSUME NEW f \in Outputs, LoseRow(f) PROVE JobFlagFromOutput'
  <2>1. /\ jobs' = jobs /\ byHand \subseteq byHand' /\ RunOf(f) \in byHand'
        /\ \A g \in Outputs : g # f => rows'[g] = rows[g]
    BY <1>0, <1>7 DEF LoseRow, TypeOK, RowsType
  <2> QED
    BY <1>1, <2>1 DEF OutputsOf
<1>8. ASSUME Next
      PROVE  \/ UNCHANGED <<rows, jobs, byHand>>
             \/ \E q \in Requests : SaveSync(q) \/ CommitDeleteRun(q) \/ RecordJob(q)
             \/ \E r \in Runs : AddCustomJob(r) \/ DropJob(r)
             \/ \E f \in Outputs : LoseRow(f)
  BY <1>8 DEF Next, Publish, MoveCopy, MoveDelete, RunByHand, StartRun, StartDeleteRun, Sync,
     StartSync, Advance, ListApproved, ListUnapproved, ListPrefix, DeleteOutput, NextPrefix,
     Fail, Abort, Heal
<1>9. CASE UNCHANGED vars
  BY <1>2, <1>9 DEF vars
<1> QED
  BY <1>2, <1>3, <1>4, <1>5, <1>6, <1>7, <1>8, <1>9

\* The invariant holds at the start.
LEMMA SyncInit == Init => SyncInv
<1> SUFFICES ASSUME Init PROVE SyncInv
  OBVIOUS
<1>1. CoreInv
  BY CoreInit
<1>2. RunHistory
  BY IdleFacts DEF Init, RunHistory
<1>3. JobFlagFromOutput
  BY DEF Init, JobFlagFromOutput
<1> QED
  BY <1>1, <1>2, <1>3 DEF SyncInv, CoreInv

\* Every step keeps all of it.
LEMMA SyncStep == SyncInv /\ [Next]_vars => SyncInv'
<1>1. SyncInv => CoreInv /\ RunHistory
  BY DEF SyncInv, CoreInv
<1>2. CoreInv' /\ RunHistory' /\ JobFlagFromOutput' => SyncInv'
  BY DEF SyncInv, CoreInv
<1> QED
  BY <1>1, <1>2, CoreStep, HistoryStep, FlagStep

\* The inductive invariant of outputs (update_db_from_bucket, delete_model_run, and
\* the handlers that add and drop jobs and rows past them).
THEOREM SyncInvariance == Spec => []SyncInv
  BY SyncInit, SyncStep, PTL DEF Spec

\* CompletedHasOutput: whatever synchronisations, triggers and deletions overlap, a
\* completed job has the row of its csv, unless its run was named by hand
\* (update_db_from_bucket, delete_model_run, add_custom_school_job, delete_batch).
THEOREM CompletedHaveOutputs == Spec => []CompletedHasOutput
<1>1. SyncInv => CompletedHasOutput
  BY DEF SyncInv
<1> QED
  BY <1>1, SyncInvariance, PTL

\* RowHasBlob: only deletions leave rows without a blob, and which ones is known
\* (update_db_from_bucket, delete_model_run).
THEOREM RowsHaveBlobs == Spec => []RowHasBlob
<1>1. SyncInv => RowHasBlob
  BY DEF SyncInv
<1> QED
  BY <1>1, SyncInvariance, PTL

\* JobFlagFromOutput: whichever csv and png files a run has and whoever moves them,
\* the flag of a completed job is that of one of its listed outputs
\* (update_db_from_bucket, delete_model_run).
THEOREM JobFlagsFromOutputs == Spec => []JobFlagFromOutput
<1>1. SyncInv => JobFlagFromOutput
  BY DEF SyncInv
<1> QED
  BY <1>1, SyncInvariance, PTL
=============================================================================
