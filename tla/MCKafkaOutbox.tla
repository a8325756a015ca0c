--------------------------- MODULE MCKafkaOutbox ---------------------------
(* Model values and bounds for KafkaOutbox: rows 1 and 2, of which row 1   *)
(* goes to both clusters; the replicas are interchangeable.                *)
EXTENDS KafkaOutbox

CONSTANTS r1, r2

ReplicaSet == {r1, r2}
DualRows   == {1}
=============================================================================
