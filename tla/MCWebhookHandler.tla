------------------------- MODULE MCWebhookHandler ---------------------------
(* Model values for WebhookHandler: one complaint per partition, its       *)
(* status changed twice, and in the wide log an event of each other topic. *)
EXTENDS WebhookHandler

CONSTANTS c1, c2, p1, p2

Solo == {c1}
Duo  == {c1, c2}
OnePartition == {p1}
TwoPartitions == {p1, p2}

StatusTwice == [m \in 1..2 |-> "complaint-status-changed"]
AllFirst    == [m \in 1..2 |-> p1]

WideTopics == <<"complaint-submitted", "authority-action", "complaint-status-changed",
                "complaint-anchored", "notification-send">>
WideParts  == <<p1, p2, p1, p2, p1>>

None   == {}
First  == {1}
=============================================================================
