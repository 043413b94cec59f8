--------------------------- MODULE MCInstitutions ---------------------------
(* Two names that are one name to Databricks, and symmetry. *)
EXTENDS Institutions, TLC

OneDbName == [n \in Names |-> "college"]

Symmetry ==
  Permutations(Names) \cup Permutations(InstIds) \cup Permutations(Requests)
=============================================================================
