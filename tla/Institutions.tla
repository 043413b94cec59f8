---------------------------- MODULE Institutions ----------------------------
(***************************************************************************)
(* Institutions: each is a database row, a bucket named after its id, and  *)
(* schemas and volumes in Databricks named after its name.  Creation makes *)
(* the three one after another, deletion takes them away in the same order, *)
(* PATCH changes the row; nothing undoes the steps of a request that fails. *)
(***************************************************************************)
EXTENDS Naturals, FiniteSets

CONSTANTS
  Names,        \* institution names
  DbNames,      \* the names that Databricks sees
  DbName,       \* databricksify_inst_name: name -> Databricks name
  InstIds,      \* uuids
  Types,        \* school types; the row has one id column for each
  FlagTypes,    \* types with an is_... flag that assigns the id
  GivenIds,     \* school-type ids that clients choose
  Levels,       \* number of medallion levels
  Requests,     \* request slots of the server
  None

ASSUME InstitutionAssumption ==
  /\ DbName \in [Names -> DbNames]
  /\ FlagTypes \subseteq Types
  /\ Levels \in Nat \ {0}
  /\ None \notin Names \cup InstIds \cup GivenIds \cup Nat \cup Types \cup {"custom"}
  /\ GivenIds \cap {"keep", "clear", "flag", "clear_flag"} = {}

VARIABLES
  insts,    \* committed rows: [id, name, ids, schemas]
  buckets,  \* ids whose bucket exists
  granted,  \* ids whose bucket Databricks may use
  pieces,   \* Databricks name -> the pieces that exist under it
  req,      \* request slot -> its progress
  promised, \* history: institutions whose creation was answered 200
  failed,   \* history: institutions a request on which failed
  doomed,   \* history: institutions whose resources a deletion may have taken
  raced,    \* history: institutions that two PATCHes worked on at once
  adopted   \* history: institutions set up by the creation of another one

vars == <<insts, buckets, granted, pieces, req, promised, failed, doomed, raced,
          adopted>>
history == <<promised, failed, doomed, raced, adopted>>
resources == <<buckets, granted, pieces>>

-----------------------------------------------------------------------------
(* Rows *)

NoIds == [t \in Types |-> None]
IdsOf(R) == {x.id : x \in R}
NamesOf(R) == {x.name : x \in R}
Row(i) == CHOOSE x \in insts : x.id = i
TypesOf(ids) == {t \in Types : ids[t] # None}
Marked == IdsOf(insts) \cup buckets \cup promised \cup failed \cup doomed \cup raced \cup adopted
FreshIds == InstIds \ (Marked \cup {req[q].inst : q \in Requests})

\* The columns of genai ids are unique, like names.
Unique(x) ==
  \A y \in insts \ {x} : y.id # x.id =>
    /\ y.name # x.name
    /\ "genai" \in Types => x.ids["genai"] = None \/ y.ids["genai"] # x.ids["genai"]

\* Pieces of an institution in Databricks in the order of their creation: a
\* schema for each level, then a volume in each of the schemas.
Pieces == 1..(2 * Levels)
IsVolume(p) == p > Levels
SchemaOf(p) == p - Levels

Complete(x) == x.id \in granted /\ pieces[DbName[x.name]] = Pieces

-----------------------------------------------------------------------------
(* Which ids a request leaves on a row.  For each type it keeps the id, or   *)
(* clears it, gives one, or sets the type's flag, with or without clearing. *)

Fields == {"keep", "clear", "flag", "clear_flag"} \cup GivenIds
Updates == {u \in [Types -> Fields] :
              \A t \in Types \ FlagTypes : u[t] \notin {"flag", "clear_flag"}}
IsFlagged(u, t) == u[t] \in {"flag", "clear_flag"}

Named(old, u) ==
  [t \in Types |-> IF u[t] \in GivenIds THEN u[t]
                   ELSE IF u[t] \in {"keep", "flag"} THEN old[t] ELSE None]

\* An id to be generated is the number of rows that have one, plus one.
NextId(t) == Cardinality({x \in insts : x.ids[t] # None}) + 1

Merged(old, u) ==
  LET named == Named(old, u) IN
  [t \in Types |-> IF named[t] = None /\ IsFlagged(u, t) THEN NextId(t) ELSE named[t]]

\* Fault: the request is accepted if it only names one type itself.
OneTypeOfRequest(old, u) == Cardinality({t \in Types : u[t] \notin {"keep", "clear"}}) = 1

\* Exactly one type, counting flags before and ids after they are generated.
OneType(old, u) ==
  /\ Cardinality(TypesOf(Named(old, u)) \cup {t \in Types : IsFlagged(u, t)}) <= 1
  /\ Cardinality(TypesOf(Merged(old, u))) = 1

TypeOf(ids) == CHOOSE t \in Types : ids[t] # None

-----------------------------------------------------------------------------
(* Requests *)

Idle == [pc |-> "done", inst |-> None, name |-> None, old |-> NoIds, ids |-> NoIds,
         schemas |-> None, step |-> 0]

\* Before its row is inserted or deleted a request has changed nothing.
Abort(q) ==
  /\ req' = [req EXCEPT ![q] = Idle]
  /\ failed' = IF req[q].pc \in {"creating", "patching", "deleting"} THEN failed
               ELSE failed \cup {req[q].inst}
  /\ UNCHANGED <<insts, resources, promised, doomed, raced, adopted>>

\* create_institution.  Without exactly one type it is a 400, and a name that
\* is found is answered with its row, whatever became of that one's bucket and
\* schemas: nothing is done.  (Found with another state, the INSERT fails.)
AnswerAtOnce(q, n, u) ==
  /\ req[q].pc = "done"
  /\ n \in NamesOf(insts) \/ ~OneType(NoIds, u)
  /\ UNCHANGED vars

\* The id is drawn here for the row that is inserted next.
StartCreate(q, n, u, i) ==
  /\ req[q].pc = "done"
  /\ n \notin NamesOf(insts) /\ OneType(NoIds, u)
  /\ req' = [req EXCEPT ![q] = [Idle EXCEPT !.pc = "creating", !.inst = i, !.name = n,
                                            !.ids = Merged(NoIds, u)]]
  /\ UNCHANGED <<insts, resources, history>>

CommitCreate(q) ==
  LET x == [id |-> req[q].inst, name |-> req[q].name, ids |-> req[q].ids,
            schemas |-> TypeOf(req[q].ids)] IN
  /\ req[q].pc = "creating"
  /\ IF Unique(x)
     THEN /\ insts' = insts \cup {x}
          /\ req' = [req EXCEPT ![q].pc = "inserted"]
          /\ UNCHANGED <<resources, history>>
     ELSE Abort(q)

\* Fault: the institution is left to a clean-up that never comes.
FindCreatedGivesUp(q) ==
  /\ req[q].pc = "inserted"
  /\ req' = [req EXCEPT ![q] = Idle]
  /\ UNCHANGED <<insts, resources, history>>

\* The row is read again by its name, which may be another's by now.
FindCreated(q) ==
  /\ req[q].pc = "inserted"
  /\ IF req[q].name \in NamesOf(insts)
     THEN /\ \E x \in insts : x.name = req[q].name
               /\ req' = [req EXCEPT ![q].pc = "found", ![q].inst = x.id]
               /\ adopted' = adopted \cup ({x.id} \ {req[q].inst})
          /\ UNCHANGED <<insts, resources, promised, failed, doomed, raced>>
     ELSE Abort(q)

\* StorageControl.create_bucket; then the policy that lets Databricks in.
CreateBucket(q) ==
  /\ req[q].pc = "found"
  /\ IF req[q].inst \in buckets
     THEN Abort(q)
     ELSE /\ buckets' = buckets \cup {req[q].inst}
          /\ req' = [req EXCEPT ![q].pc = "bucket_made"]
          /\ UNCHANGED <<insts, granted, pieces, history>>

GrantBucket(q) ==
  /\ req[q].pc = "bucket_made"
  /\ IF req[q].inst \in buckets
     THEN /\ granted' = granted \cup {req[q].inst}
          /\ req' = [req EXCEPT ![q].pc = "setup", ![q].step = 1]
          /\ UNCHANGED <<insts, buckets, pieces, history>>
     ELSE Abort(q)

\* Fault: a piece that is there is taken as it is, a failure passed over.
SetupPieceLenient(q) ==
  /\ req[q].pc = "setup" /\ req[q].step \in Pieces
  /\ pieces' \in {pieces, [pieces EXCEPT ![DbName[req[q].name]] = @ \cup {req[q].step}]}
  /\ req' = [req EXCEPT ![q].step = @ + 1]
  /\ UNCHANGED <<insts, buckets, granted, history>>

\* DatabricksControl.setup_new_inst: a piece that exists is an error.
SetupPiece(q) ==
  LET d == DbName[req[q].name]  p == req[q].step IN
  /\ req[q].pc = "setup" /\ p \in Pieces
  /\ IF p \notin pieces[d] /\ (IsVolume(p) => SchemaOf(p) \in pieces[d])
     THEN /\ pieces' = [pieces EXCEPT ![d] = @ \cup {p}]
          /\ req' = [req EXCEPT ![q].step = @ + 1]
          /\ UNCHANGED <<insts, buckets, granted, history>>
     ELSE Abort(q)

FinishCreate(q) ==
  /\ req[q].pc = "setup" /\ req[q].step \notin Pieces
  /\ promised' = promised \cup {req[q].inst}
  /\ req' = [req EXCEPT ![q] = Idle]
  /\ UNCHANGED <<insts, resources, failed, doomed, raced, adopted>>

\* Fault: the schemas of the row stay as they were.
StartPatchKeepsSchemas(q, x, u) ==
  /\ req[q].pc = "done" /\ OneType(x.ids, u)
  /\ req' = [req EXCEPT ![q] = [Idle EXCEPT !.pc = "patching", !.inst = x.id, !.old = x.ids,
                                            !.ids = Merged(x.ids, u)]]
  /\ raced' = raced \cup {i \in {x.id} :
                     \E p \in Requests : req[p].pc = "patching" /\ req[p].inst = i}
  /\ UNCHANGED <<insts, resources, promised, failed, doomed, adopted>>

\* update_inst: the row as loaded and the request decide the new ids, and a
\* change of ids also replaces the allowed schemas; custom ones may be given
\* otherwise.
StartPatch(q, x, u) ==
  LET new == Merged(x.ids, u) IN
  /\ req[q].pc = "done" /\ OneType(x.ids, u)
  /\ \E s \in IF new # x.ids THEN {TypeOf(new)} ELSE {x.schemas, "custom"} :
       req' = [req EXCEPT ![q] = [Idle EXCEPT !.pc = "patching", !.inst = x.id, !.old = x.ids,
                                              !.ids = new,
                                              !.schemas = IF s = x.schemas THEN None ELSE s]]
  /\ raced' = raced \cup {i \in {x.id} :
                     \E p \in Requests : req[p].pc = "patching" /\ req[p].inst = i}
  /\ UNCHANGED <<insts, resources, promised, failed, doomed, adopted>>

\* Only columns whose value changed are written, to the row as it is now; a
\* row that is gone is a StaleDataError.
CommitPatch(q) ==
  LET i == req[q].inst
      new == [Row(i) EXCEPT
                !.ids = [t \in Types |->
                           IF req[q].ids[t] # req[q].old[t] THEN req[q].ids[t] ELSE @[t]],
                !.schemas = IF req[q].schemas # None THEN req[q].schemas ELSE @] IN
  /\ req[q].pc = "patching"
  /\ IF i \in IdsOf(insts) /\ Unique(new)
     THEN /\ insts' = (insts \ {Row(i)}) \cup {new}
          /\ req' = [req EXCEPT ![q] = Idle]
          /\ UNCHANGED <<resources, history>>
     ELSE Abort(q)

\* delete_inst.  The row goes first; from here on the request knows the
\* institution by its id and its name only.
StartDelete(q, x) ==
  /\ req[q].pc = "done"
  /\ req' = [req EXCEPT ![q] = [Idle EXCEPT !.pc = "deleting", !.inst = x.id, !.name = x.name]]
  /\ UNCHANGED <<insts, resources, history>>

CommitDelete(q) ==
  /\ req[q].pc = "deleting"
  /\ insts' = {x \in insts : x.id # req[q].inst}
  /\ doomed' = doomed \cup {req[q].inst}
  /\ req' = [req EXCEPT ![q].pc = "row_deleted"]
  /\ UNCHANGED <<resources, promised, failed, raced, adopted>>

\* Fault: a bucket that cannot be deleted is passed over.
DeleteBucketLenient(q) ==
  /\ req[q].pc = "row_deleted"
  /\ req' = [req EXCEPT ![q].pc = "cleaning", ![q].step = 1]
  /\ UNCHANGED <<insts, resources, history>>

\* A missing bucket is an error, and so is one with too many blobs (force
\* deletes at most 256).
DeleteBucket(q) ==
  /\ req[q].pc = "row_deleted"
  /\ \/ /\ req[q].inst \in buckets
        /\ buckets' = buckets \ {req[q].inst}
        /\ granted' = granted \ {req[q].inst}
        /\ req' = [req EXCEPT ![q].pc = "cleaning", ![q].step = 1]
        /\ UNCHANGED <<insts, pieces, history>>
     \/ Abort(q)

\* DatabricksControl.delete_inst: volumes, then schemas, each of which only
\* goes when it is empty; every error is logged and passed over.  Pieces of
\* another institution with the same Databricks name are taken too.
DeletePiece(q) ==
  LET d == DbName[req[q].name]
      p == IF req[q].step <= Levels THEN req[q].step + Levels ELSE req[q].step - Levels IN
  /\ req[q].pc = "cleaning" /\ req[q].step \in Pieces
  /\ \/ /\ \A v \in pieces[d] : IsVolume(v) => SchemaOf(v) # p
        /\ pieces' = [pieces EXCEPT ![d] = @ \ {p}]
        /\ doomed' = doomed \cup {x.id : x \in {y \in insts : DbName[y.name] = d}}
     \/ UNCHANGED <<pieces, doomed>>
  /\ req' = [req EXCEPT ![q].step = @ + 1]
  /\ UNCHANGED <<insts, buckets, granted, promised, failed, raced, adopted>>

FinishDelete(q) ==
  /\ req[q].pc = "cleaning" /\ req[q].step \notin Pieces
  /\ req' = [req EXCEPT ![q] = Idle]
  /\ UNCHANGED <<insts, resources, history>>

\* The instance stops, or a storage, Databricks or database call raises.
Fail(q) == req[q].pc # "done" /\ Abort(q)

-----------------------------------------------------------------------------

Init ==
  /\ insts = {} /\ buckets = {} /\ granted = {}
  /\ pieces = [d \in DbNames |-> {}]
  /\ req = [q \in Requests |-> Idle]
  /\ promised = {} /\ failed = {} /\ doomed = {} /\ raced = {} /\ adopted = {}

\* What the server does next for a request that has begun.
Advance(q) ==
  \/ CommitCreate(q)
  \/ FindCreated(q)
  \/ CreateBucket(q)
  \/ GrantBucket(q)
  \/ SetupPiece(q)
  \/ FinishCreate(q)
  \/ CommitPatch(q)
  \/ CommitDelete(q)
  \/ DeleteBucket(q)
  \/ DeletePiece(q)
  \/ FinishDelete(q)

Next ==
  \/ \E q \in Requests, n \in Names, u \in Updates :
       AnswerAtOnce(q, n, u) \/ \E i \in FreshIds : StartCreate(q, n, u, i)
  \/ \E q \in Requests, u \in Updates : \E x \in insts : StartPatch(q, x, u)
  \/ \E q \in Requests : \E x \in insts : StartDelete(q, x)
  \/ \E q \in Requests : Advance(q)
  \/ \E q \in Requests : Fail(q)

Spec == Init /\ [][Next]_vars

-----------------------------------------------------------------------------
(* Properties *)

IdMap == [Types -> GivenIds \cup Nat \cup {None}]
Schemas == Types \cup {"custom"}

RequestType ==
  [pc: {"done", "creating", "inserted", "found", "bucket_made", "setup", "patching",
        "deleting", "row_deleted", "cleaning"},
   inst: InstIds \cup {None}, name: Names \cup {None}, old: IdMap, ids: IdMap,
   schemas: Schemas \cup {None}, step: 0..(2 * Levels + 1)]

\* Types; permission is given on buckets that exist, and every volume lies in
\* a schema that exists, whatever order creations and deletions run in.
TypeOK ==
  /\ IsFiniteSet(insts)
  /\ insts \subseteq [id: InstIds, name: Names, ids: IdMap, schemas: Schemas]
  /\ granted \subseteq buckets /\ buckets \subseteq InstIds
  /\ pieces \in [DbNames -> SUBSET Pieces]
  /\ \A d \in DbNames : \A v \in pieces[d] : IsVolume(v) => SchemaOf(v) \in pieces[d]
  /\ req \in [Requests -> RequestType]
  /\ \A q \in Requests :
       /\ req[q].inst = None <=> req[q].pc = "done"
       /\ req[q].name = None <=> req[q].pc \in {"done", "patching"}
  /\ promised \cup failed \cup doomed \cup raced \cup adopted \subseteq InstIds

\* What create_institution answered 200 to is complete, unless a deletion of
\* it, or of one with the same Databricks name, came since.
MadeIsComplete ==
  \A i \in promised : i \in doomed \/ \E x \in insts : x.id = i /\ Complete(x)

Working(q, i) == req[q].pc \notin {"done", "patching"} /\ req[q].inst = i

\* A row without its bucket or its schemas is being created, or a request on
\* it failed, or a deletion under its Databricks name took them.
HalfMadeExplained ==
  \A x \in insts :
    Complete(x) \/ x.id \in failed \cup doomed \/ \E q \in Requests : Working(q, x.id)

\* A bucket without its row is being deleted, a request on it failed.
BucketsTraced ==
  \A i \in buckets :
    i \in IdsOf(insts) \cup failed \cup adopted \/ \E q \in Requests : Working(q, i)

\* The comment on the school-type messages and update_inst's docstring: every
\* institution has exactly one school type.  Refuted by two PATCHes at once.
ExactlyOneType == \A x \in insts : Cardinality(TypesOf(x.ids)) = 1

\* Without two PATCHes at once no sequence of creations and PATCHes leaves an
\* institution with no school type or two, or with schemas of another type.
TypeFollowsRules ==
  \A x \in insts :
    x.id \notin raced => /\ Cardinality(TypesOf(x.ids)) = 1
                         /\ x.schemas \in TypesOf(x.ids) \cup {"custom"}

-----------------------------------------------------------------------------
(* The inductive invariant *)

SetUpSteps == {"inserted", "found", "bucket_made", "setup"}
SettingUp(q, i) == req[q].pc \in SetUpSteps /\ req[q].inst = i
BeingDeleted(i) == \E q \in Requests : req[q].pc = "row_deleted" /\ req[q].inst = i
Others(q) == Requests \ {q}

\* No two rows have one id or one name.
RowsUnique == \A x, y \in insts : x.id = y.id \/ x.name = y.name => x = y

\* An id that was drawn is nobody else's.
DrawnIdFresh ==
  \A q \in Requests : req[q].pc = "creating" =>
    /\ req[q].inst \notin Marked
    /\ \A o \in Others(q) : req[o].inst # req[q].inst
    /\ Cardinality(TypesOf(req[q].ids)) = 1

\* One request sets an institution up, unless a second one took it for its own; the
\* row stays as long as no deletion began, and so does what was made so far.
SetUpKnows(q) ==
  LET i == req[q].inst  n == req[q].name IN
  req[q].pc \in SetUpSteps =>
    /\ i \in doomed \/ \E x \in insts : x.id = i /\ x.name = n
    /\ \A o \in Others(q) : SettingUp(o, i) => i \in adopted
    /\ req[q].pc \in {"inserted", "found"} =>
         \/ i \in failed \cup adopted
         \/ i \notin buckets /\ (i \in IdsOf(insts) \/ BeingDeleted(i))
    /\ req[q].pc = "setup" =>
         /\ req[q].step # 0
         /\ \/ i \in doomed
            \/ i \in granted /\ 1..(req[q].step - 1) \subseteq pieces[DbName[n]]

\* Alone on its row, a PATCH finds there what it loaded.
PatchKnows(q) ==
  LET i == req[q].inst
      fits == TypesOf(req[q].ids) \cup {"custom"} IN
  req[q].pc = "patching" =>
    \/ i \in raced
    \/ /\ \A o \in Others(q) : req[o].pc # "patching" \/ req[o].inst # i
       /\ Cardinality(TypesOf(req[q].ids)) = 1
       /\ req[q].schemas \in fits \cup {None}
       /\ \A x \in insts : x.id = i =>
            x.ids = req[q].old /\ (req[q].schemas = None => x.schemas \in fits)

DeletionsOnRecord ==
  \A q \in Requests : req[q].pc \in {"row_deleted", "cleaning"} => req[q].inst \in doomed

HalfMadeInWork ==
  \A x \in insts :
    Complete(x) \/ x.id \in failed \cup doomed \/ \E q \in Requests : SettingUp(q, x.id)

BucketsInWork ==
  \A i \in buckets : i \in IdsOf(insts) \cup failed \cup adopted \/ BeingDeleted(i)

InstInv ==
  /\ TypeOK /\ RowsUnique /\ DrawnIdFresh
  /\ \A q \in Requests : SetUpKnows(q) /\ PatchKnows(q)
  /\ DeletionsOnRecord /\ MadeIsComplete /\ HalfMadeInWork /\ BucketsInWork
  /\ TypeFollowsRules
=============================================================================
