-------------------------- MODULE MCFileLifecycle --------------------------
(* Model values and symmetry for checking FileLifecycle. *)
EXTENDS FileLifecycle, TLC

Symmetry ==
  Permutations(RowIds) \cup Permutations(BatchIds) \cup Permutations(BatchRequests)
    \cup Permutations(Requests)
=============================================================================
