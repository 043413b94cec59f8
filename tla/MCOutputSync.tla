---------------------------- MODULE MCOutputSync ----------------------------
(* Model values and symmetry for checking OutputSync. *)
EXTENDS OutputSync, TLC

Symmetry == Permutations(Requests) \cup Permutations(Runs)
=============================================================================
