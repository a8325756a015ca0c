-------------------------- MODULE MCAnchorConsumer --------------------------
(* Model values for AnchorConsumer: logs of three and of four messages; in *)
(* the longer the fourth repeats the key of the first, as a republished    *)
(* outbox row does.                                                        *)
EXTENDS AnchorConsumer

LateDuplicate == [p \in 1..4 |-> IF p = 4 THEN 1 ELSE p]
DistinctKeys  == [p \in 1..3 |-> p]
None     == {}
OddOnes  == {1, 3}
Second   == {2}
=============================================================================
