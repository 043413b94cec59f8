---------------------------- MODULE MCBatchStore ----------------------------
(* Model values and symmetry for checking BatchStore. *)
EXTENDS BatchStore, TLC

Symmetry ==
  Permutations(RowIds) \cup Permutations(BatchIds) \cup Permutations(Requests)
    \cup Permutations(Files) \cup Permutations(Names)
=============================================================================
