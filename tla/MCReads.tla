------------------------------ MODULE MCReads ------------------------------
(* One Datakinder and one data owner of the batches' institution. *)
EXTENDS Reads, TLC

TwoAccounts == {[id |-> 1, email |-> "e1", inst |-> None, role |-> "DATAKINDER"],
                [id |-> 2, email |-> "e2", inst |-> "a", role |-> "DATA_OWNER"]}

TwoBatches == [b1 |-> {"s"}, b2 |-> {"s", "c"}]
TwoThreads == (<<"admin", "admin">> :> 2) @@ (<<"admin", "eda">> :> 1)
              @@ (<<"eda", "eda">> :> 2) @@ (<<"table", "table">> :> 2)
InitialAndFirst == {Named(None, 0), Named("e1", 0)}
AnyFiles == {{"s"}, {"s", "c"}, {"c", "out"}}
=============================================================================
