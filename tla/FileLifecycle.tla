--------------------------- MODULE FileLifecycle ---------------------------
(***************************************************************************)
(* Validation and batch deletion at work on the same bucket and file table.*)
(* FileIngest is extended by BatchStore's steps; what is new here is what   *)
(* the two do to each other: delete_batch takes a blob while the same file  *)
(* is uploaded again, or a row that a validation has in its snapshot.       *)
(***************************************************************************)
EXTENDS FileIngest

CONSTANTS
  BatchIds, Names,  \* BatchStore's
  BatchRequests     \* request slots for batch operations

VARIABLES
  batches, links, breq, flaky, lost,  \* BatchStore's, breq being its req
  met  \* history: files that were validated and deleted at the same time

ingestOnly == <<unvalidated, raw, urls, req, uploaded, aborted>>
batchOnly == <<batches, links, breq, flaky>>
lifecycleVars == <<vars, batchOnly, lost, met>>

\* To a batch operation a blob is there or not.  Which files are deleted under
\* a sync call is BatchStore's subject and not followed here.
Batch == INSTANCE BatchStore WITH
  validated <- {f \in Files : validated[f] # None},
  Requests <- BatchRequests, req <- breq, late <- {}

-----------------------------------------------------------------------------

\* A deletion that has the file's row, and a validation of it, are both under way.
Meeting(f) ==
  /\ \E r \in Requests : req[r].pc # "done" /\ req[r].file = f
  /\ \E q \in BatchRequests : breq[q].pc = "deleting" /\ f \in Batch!NamesOf(breq[q].rows)

LifecycleInit == Init /\ Batch!Init /\ met = {}

\* Keys are drawn afresh, so not one that a batch operation still refers to.
IngestStep ==
  /\ Next
  /\ \A r \in Requests, q \in BatchRequests :
       req[r].row = None => req'[r].row \notin Batch!Ids(breq[q].rows)
  /\ lost' = {f \in lost : validated'[f] = None \/ validated[f] # None}
  /\ UNCHANGED batchOnly

BatchStep ==
  /\ UNCHANGED ingestOnly
  /\ \/ /\ UNCHANGED validated
        /\ \/ \E q \in BatchRequests :
                Batch!CommitCreate(q) \/ Batch!ReadCreated(q) \/ Batch!StartSync(q)
                  \/ Batch!CommitUpdate(q) \/ Batch!CommitDelete(q) \/ Batch!Fail(q)
           \/ \E q \in BatchRequests, n \in Names, want \in SUBSET Files :
                Batch!StartCreate(q, n, want)
           \/ \E q \in BatchRequests, n \in Names : \E b \in batches, R \in SUBSET rows :
                Batch!StartUpdate(q, b, n, R)
           \/ \E b \in BatchIds : Batch!DeleteBatch(b)
           \/ Batch!Heal
     \/ \E q \in BatchRequests, f \in Files :
          /\ validated' \in {validated, [validated EXCEPT ![f] = None]}
          /\ Batch!DeleteBlob(q, f)

LifecycleNext ==
  /\ IngestStep \/ BatchStep
  /\ met' = met \cup {f \in Files : Meeting(f)'}

LifecycleSpec == LifecycleInit /\ [][LifecycleNext]_lifecycleVars

-----------------------------------------------------------------------------
(* Properties; UniqueRow is FileIngest's: file names stay unique when rows   *)
(* are deleted under running validations.                                   *)

\* A listed file has its original in raw/, which no batch deletion touches,
\* and a blob in validated/ unless a deletion has it, failed on it, or met a
\* second validation, which inserts a row for the blob the deletion took.
ListedBacked ==
  \A x \in rows :
    /\ raw[x.name] # None
    /\ \/ validated[x.name] # None
       \/ x.name \in lost \cup met
       \/ \E q \in BatchRequests : x.name \in Batch!Cleared(q)

\* A validated blob without a row comes from a validation that failed after
\* its write, or from one that ran at the same time as a deletion of the
\* file: it found the row in its snapshot, and the deletion removed it.
OrphanTraced == \A f \in Files : Orphan(f) => f \in aborted \cup met

-----------------------------------------------------------------------------
(* The inductive invariant *)

\* Types of the batch side: what a deletion has left to do is among its rows.
BatchTypes ==
  /\ batches \subseteq [name: Names, id: BatchIds] /\ links \subseteq RowIds \X BatchIds
  /\ breq \in [BatchRequests -> Batch!RequestType]
  /\ \A q \in BatchRequests :
       /\ breq[q].pc \in {"creating", "updating"} => breq[q].name \in Names
       /\ IF breq[q].pc = "deleting" THEN breq[q].left \subseteq Batch!NamesOf(breq[q].rows)
                                     ELSE breq[q].left = {}
  /\ lost \subseteq Files /\ met \subseteq Files

\* What a deletion took, and the rows it will take, change behind its back only
\* when a validation of the file meets it.
DeletionKnows(q) ==
  breq[q].pc = "deleting" =>
    /\ \A x \in rows :
         x.name \in Batch!NamesOf(breq[q].rows) => x \in breq[q].rows \/ x.name \in met
    /\ ~breq[q].error => \A f \in Batch!Cleared(q) : validated[f] = None \/ f \in met

\* What FileIngest's RowInv and BucketInv say of a request, unless it meets a deletion.
ValidationKnows(r) ==
  LET f == req[r].file IN
  /\ req[r].known => req[r].pc # "done" /\ (HasRow(f) \/ f \in met)
  /\ Inserting(r) => req[r].pc \in {"recorded", "checked"}
  /\ req[r].pc \in {"recorded", "checked"} => HasRow(f) \/ Inserting(r) \/ f \in met
  /\ req[r].pc \in PastWrite \cup {"archived"} => raw[f] # None
  /\ req[r].pc \in PastWrite => validated[f] # None \/ f \in met

\* A validated blob has its original; it is recorded, given up, or in the hands
\* of a request, unless a deletion met it.
BlobsHeld ==
  \A f \in Files : validated[f] # None =>
    /\ raw[f] # None
    /\ \/ HasRow(f) \/ f \in aborted \cup met
       \/ \E r \in Requests : req[r].file = f /\ req[r].pc \in PastWrite

LifecycleInv ==
  /\ TypeOK /\ BatchTypes /\ UniqueRow
  /\ \A f \in Files : Meeting(f) => f \in met
  /\ \A q \in BatchRequests : DeletionKnows(q)
  /\ \A r \in Requests : ValidationKnows(r)
  /\ BlobsHeld /\ ListedBacked
=============================================================================
