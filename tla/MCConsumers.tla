----------------------------- MODULE MCConsumers -----------------------------
(***************************************************************************)
(* The services beside the gateway, what they may never do: the two        *)
(* consumers of its events, and backend-api, which files reports too.      *)
(* They share no variable: a behaviour exercises one of them (subject)     *)
(* while the others rest in their initial states.  The webhook handler has *)
(* a log of two status changes of one complaint; the anchor consumer one   *)
(* of four messages, the second malformed, the first and the third         *)
(* complaints submitted, the fourth repeating the key of the first;        *)
(* backend-api three reports of one damage, one relay, a change by others  *)
(* and a fault.                                                            *)
(***************************************************************************)
EXTENDS MCWebhookHandler, AnchorConsumer, BackendIntake

VARIABLE subject

LateDuplicate == [p \in 1..4 |-> IF p = 4 THEN 1 ELSE p]
Second  == {2}
OddOnes == {1, 3}
Three   == {"r1", "r2", "r3"}
OneDamage == [r \in Three |-> "hole"]

ConsumersInit ==
  /\ subject \in {"anchor", "webhook", "backend"}
  /\ Init /\ AnchorInit /\ BackendInit
  /\ subject # "webhook" => \A p \in Partitions : owner[p] = c1

ConsumersNext ==
  /\ UNCHANGED subject
  /\ \/ subject = "anchor" /\ AnchorNext /\ UNCHANGED <<vars, backendVars>>
     \/ subject = "webhook" /\ Next /\ UNCHANGED <<anchorVars, backendVars>>
     \/ subject = "backend" /\ BackendNext /\ UNCHANGED <<vars, anchorVars>>

ConsumersSpec ==
  ConsumersInit /\ [][ConsumersNext]_<<subject, vars, anchorVars, backendVars>>

=============================================================================
