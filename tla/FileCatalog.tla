---------------------------- MODULE FileCatalog ----------------------------
(***************************************************************************)
(* What upload and validation promise to batches, the front end and the    *)
(* Databricks jobs: an input file's validated content is stored before the *)
(* file is listed, and a listed file stays listed.                         *)
(***************************************************************************)
CONSTANT Files

VARIABLE status  \* file -> "absent", "stored" (blob written) or "listed"

Init == status = [f \in Files |-> "absent"]

Store(f) ==
  /\ status[f] = "absent"
  /\ status' = [status EXCEPT ![f] = "stored"]

List(f) ==
  /\ status[f] = "stored"
  /\ status' = [status EXCEPT ![f] = "listed"]

Next == \E f \in Files : Store(f) \/ List(f)

Spec == Init /\ [][Next]_status
=============================================================================
