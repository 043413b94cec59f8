---------------------------- MODULE MCWorkerPull ----------------------------
(* Nobody ever has the id "8"; "7" is written in four ways. *)
EXTENDS WorkerPull

Cells == {"7", "07", "7.0", "8", "nan"}

Numerals ==
  [n \in Numbers |-> [c \in Cells |->
     IF c \in {"8", "nan"} THEN c ELSE IF n = "whole" THEN "7" ELSE "7.0"]]

File(column, cells) == [column |-> column, cells |-> cells]
Texts == <<File("text", <<"nan", "7">>), File("text", <<"7">>)>>
Zeros == <<File("whole", <<"8", "07">>), File("whole", <<"7">>)>>
Blanks == <<File("decimal", <<"nan", "7">>), File("whole", <<"8", "7">>)>>

Setup(files, refused) ==
  [files |-> files, accepts |-> {a \in Insts \X Contents : a[2] \notin refused},
   sameBucket |-> TRUE]

\* A pull by name splits a column of numbers into parts without rows.
AllSetups ==
  {Setup(Texts, {}), Setup(Zeros, {}), Setup(Zeros, {"none"}),
   Setup(Blanks, {"none", "client"}), Setup(Blanks, {"all"}),
   [Setup(Zeros, {}) EXCEPT !.sameBucket = FALSE]}
=============================================================================
