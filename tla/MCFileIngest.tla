---- MODULE MCFileIngest ----
EXTENDS FileIngest, TLC

Symmetry == Permutations(Requests) \cup Permutations(RowIds)
====
