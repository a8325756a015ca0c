----------------------------- MODULE Chaincodes -----------------------------
(***************************************************************************)
(* The contracts on the ledger: budgets, roads, authorities, routing,      *)
(* anchors and complaints.  They are chaincodes of their own and share no  *)
(* state, so a behaviour exercises one of them (subject) while the others  *)
(* rest in their initial states.                                           *)
(***************************************************************************)
EXTENDS BudgetRegistry, RoadRegistry, AuthorityRegistry, GlobalRouting,
        AnchorLedger, ComplaintLedger

VARIABLE subject

vars == <<subject, budgetVars, roadVars, authorityVars, routingVars,
          anchorLedgerVars, ledgerVars>>

Init ==
  /\ subject \in {"budget", "road", "authority", "routing", "anchor", "complaint"}
  /\ BudgetInit /\ RoadInit /\ AuthorityInit /\ RoutingInit /\ AnchorInit /\ LedgerInit

Next ==
  /\ UNCHANGED subject
  /\ IF subject = "budget"    THEN BudgetNext    ELSE UNCHANGED budgetVars
  /\ IF subject = "road"      THEN RoadNext      ELSE UNCHANGED roadVars
  /\ IF subject = "authority" THEN AuthorityNext ELSE UNCHANGED authorityVars
  /\ IF subject = "routing"   THEN RoutingNext   ELSE UNCHANGED routingVars
  /\ IF subject = "anchor"    THEN AnchorNext    ELSE UNCHANGED anchorLedgerVars
  /\ IF subject = "complaint" THEN LedgerNext    ELSE UNCHANGED ledgerVars

Spec == Init /\ [][Next]_vars

-----------------------------------------------------------------------------
(* Properties.                                                             *)

\* The registries keep their records well-formed, their budgets adding up and
\* their routes leading somewhere.
RecordsHold ==
  /\ BudgetInvariant
  /\ RoadTypeOK /\ AuthorityTypeOK /\ RoutingTypeOK /\ AnchorTypeOK
  /\ AuthorityCopiesTell /\ ChainsLead /\ RulesAreVersioned

\* What the registries write once, or log, they keep: contracts, anchors, and
\* the actions of authorities.
RecordsKept == ContractsKept /\ AnchorsKept /\ LogKeepsOthers
=============================================================================
