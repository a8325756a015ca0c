-------------------------- MODULE MCComplaintFiling --------------------------
(* Model values for ComplaintFiling: a report sent twice under one key and *)
(* a report of another citizen at the same spot; in the reuse case the     *)
(* second client uses the key with another payload.                        *)
EXTENDS ComplaintFiling

CONSTANTS anna, anna2, bela

AllClients == {anna, anna2, bela}
SentTwice  == [c \in AllClients |-> IF c = bela THEN "k2" ELSE "k1"]
SamePayload == [c \in AllClients |-> "h"]
KeyReused   == [c \in AllClients |-> IF c = anna2 THEN "g" ELSE "h"]
=============================================================================
