---------------------------- MODULE MCChaincodes ----------------------------
(* Model values for the contracts.                                         *)
EXTENDS Chaincodes

\* A seed whose release is in excess and whose spending is not.
MCSeedAmounts == [sanctioned |-> 4, released |-> 4, spent |-> 1]

MCMspOf == [c \in RoadClients |-> IF c = "nhai" THEN "NHAIMSP" ELSE "RoadWatchMSP"]

\* A region and the wildcard of its country, and the wildcard of another.
MCRules == {"north", "all", "abroad"}
MCCountryOf == [r \in MCRules |-> IF r = "abroad" THEN "LK" ELSE "IN"]
MCWildcardOf == [r \in MCRules |-> IF r = "abroad" THEN "abroad" ELSE "all"]

MCRoutes == {<<"ward", "district">>, <<"ward", "ward">>}

MCEvents == [submission |-> <<"filed", "merged">>, status |-> <<"started", "resolved">>]
MCReportsOf == [filed |-> 1, merged |-> 2]
=============================================================================
