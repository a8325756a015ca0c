---------------------------- MODULE GlobalRouting ----------------------------
(***************************************************************************)
(* The routing chaincode (fabric/chaincode/global-routing): which authority *)
(* a complaint of a region and road type goes to, and whom it escalates    *)
(* to.  A transaction is one action (BudgetRegistry says why).  Rules are  *)
(* keyed by region and road type; one road type is modelled.               *)
(***************************************************************************)
EXTENDS Naturals, Sequences

CONSTANTS
  Rules,                  (* rule keys: regions, and the wildcard of each country *)
  CountryOf,              (* CountryOf[r]: the country a rule names        *)
  WildcardOf,             (* WildcardOf[r]: the wildcard rule of r's country *)
  SeedRules,              (* those of InitLedger                           *)
  Offices, NoOffice,      (* authority ids                                 *)
  RuleClients,            (* clients of NHAIMSP, administrators all        *)
  MaxEscalationDepth,
  MaxRuleVersion          (* bound on a rule's version                     *)

RuleContent == [office : Offices, escalatesTo : Offices \cup {NoOffice}]

ASSUME RoutingAssumption ==
  /\ Rules # {} /\ WildcardOf \in [Rules -> Rules] /\ SeedRules \subseteq Rules /\ DOMAIN CountryOf = Rules
  /\ NoOffice \notin Offices /\ Offices # {}
  /\ MaxEscalationDepth \in Nat \ {0} /\ MaxRuleVersion \in Nat

VARIABLES
  rules,        (* rules[r]: version (0: none) and content                 *)
  ruleCopies    (* what each client last read                              *)

routingVars == <<rules, ruleCopies>>

BlankRule == [office |-> CHOOSE o \in Offices : TRUE, escalatesTo |-> NoOffice]

RoutingTypeOK ==
  /\ rules \in [Rules -> [version : Nat, value : RuleContent]]
  /\ ruleCopies \in [RuleClients -> [key : Rules, version : Nat, value : RuleContent]]

RoutingInit ==
  /\ rules = [r \in Rules |-> [version |-> 0, value |-> BlankRule]]
  /\ ruleCopies = [c \in RuleClients |->
       [key |-> CHOOSE r \in Rules : TRUE, version |-> 0, value |-> BlankRule]]

Defined(r) == rules[r].version > 0

RoutingInitLedger ==
  /\ rules' = [r \in Rules |-> IF r \in SeedRules /\ ~Defined(r)
                 THEN [version |-> 1, value |-> BlankRule] ELSE rules[r]]
  /\ UNCHANGED ruleCopies

CreateRoutingRule(r, value) ==
  /\ ~Defined(r)
  /\ rules' = [rules EXCEPT ![r] = [version |-> 1, value |-> value]]
  /\ UNCHANGED ruleCopies

ReadRule(c, r) ==
  /\ Defined(r)
  /\ ruleCopies' = [ruleCopies EXCEPT ![c] =
       [key |-> r, version |-> rules[r].version, value |-> rules[r].value]]
  /\ UNCHANGED rules

UpdateRoutingRule(c, r, value) ==
  /\ Defined(r) /\ ruleCopies[c].key = r /\ ruleCopies[c].version = rules[r].version
  /\ rules[r].version < MaxRuleVersion
  /\ rules' = [rules EXCEPT ![r] = [version |-> @.version + 1, value |-> value]]
  /\ UNCHANGED ruleCopies

RoutingNext ==
  \/ RoutingInitLedger
  \/ \E r \in Rules :
       \/ \E value \in RuleContent : CreateRoutingRule(r, value)
       \/ \E c \in RuleClients :
            ReadRule(c, r) \/ \E value \in RuleContent : UpdateRoutingRule(c, r, value)

RoutingSpec == RoutingInit /\ [][RoutingNext]_routingVars

-----------------------------------------------------------------------------
(* Queries.                                                                *)

Routed(r) == Defined(r) \/ Defined(WildcardOf[r])

\* GetRoutingRule: the region's own rule before its country's.
RoutingRule(r) == IF Defined(r) THEN r ELSE WildcardOf[r]

RulesFor(office) == {r \in Rules : Defined(r) /\ rules[r].value.office = office}

\* findRuleByAuthorityID: a rule of the preferred country, else the first.
RuleMutant(office, country) == CHOOSE r \in RulesFor(office) : TRUE
FindRule(office, country) ==
  LET same == {r \in RulesFor(office) : CountryOf[r] = country}
  IN IF same # {} THEN CHOOSE r \in same : TRUE ELSE CHOOSE r \in RulesFor(office) : TRUE

\* One round of the loop of GetEscalationChain.
Extend(chain) ==
  LET next == rules[chain[Len(chain)]].value.escalatesTo
  IN IF next = NoOffice \/ RulesFor(next) = {} THEN chain
     ELSE Append(chain, FindRule(next, CountryOf[chain[1]]))

EscalationChain(r) ==
  LET chain[n \in 1..MaxEscalationDepth] ==
        IF n = 1 THEN <<RoutingRule(r)>> ELSE Extend(chain[n - 1])
  IN chain[MaxEscalationDepth]

-----------------------------------------------------------------------------
(* Properties.                                                             *)

RoutingStore == INSTANCE VersionedStore WITH
  StoreKeys <- Rules, Values <- RuleContent, Clients <- RuleClients,
  Blank <- BlankRule, store <- rules, copies <- ruleCopies

\* Every routed region has an escalation chain of bounded length, although the
\* rules may escalate in a circle: each link is whom the one before escalates
\* to, it leaves the country only where nobody of the country is named, and it
\* stops short of the bound only where nobody is left.
ChainsLead ==
  \A r \in Rules : Routed(r) =>
    LET chain == EscalationChain(r)  n == Len(chain)
        To(i) == rules[chain[i]].value.escalatesTo
    IN /\ n \in 1..MaxEscalationDepth
       /\ \A i \in 1..n - 1 :
            /\ rules[chain[i + 1]].value.office = To(i)
            /\ (\E s \in RulesFor(To(i)) : CountryOf[s] = CountryOf[chain[1]])
                 => CountryOf[chain[i + 1]] = CountryOf[chain[1]]
       /\ n < MaxEscalationDepth => To(n) = NoOffice \/ RulesFor(To(n)) = {}

\* A client's copy of the current version is the rule, which UpdateRoutingRule
\* relies on to overwrite nothing unseen.
RulesAreVersioned == RoutingStore!CopiesTell
=============================================================================
