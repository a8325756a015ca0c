----------------------------- MODULE MCReadCache -----------------------------
(* Two readers of one gateway process, a writer and a list in Redis.       *)
EXTENDS ReadCache

TwoReaders == {"cora", "dora"}
OneProcess == [r \in TwoReaders |-> "one"]
=============================================================================
