--------------------------- MODULE MCOfflineQueue ---------------------------
(* A report with a photo, and the two drains the 'online' event starts.    *)
EXTENDS OfflineQueue

CONSTANTS i1, d1, d2, t1

TwoDrains == {d1, d2}
OneTab == [d \in TwoDrains |-> t1]
=============================================================================
