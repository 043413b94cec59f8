---------------------------- MODULE MCValidation ----------------------------
(* Institutions with at most two school types. *)
EXTENDS Validation

UpToTwoTypes ==
  {T \in SUBSET {"pdp", "edvise", "legacy", "genai"} : Cardinality(T) <= 2}
=============================================================================
