--------------------------- MODULE BudgetRegistry ---------------------------
(***************************************************************************)
(* The budget chaincode (fabric/chaincode/budget-registry): sanctions,     *)
(* releases and expenditures of a road, and the summary that each of these *)
(* transactions brings up to date.                                         *)
(*                                                                         *)
(* A transaction is one action: Fabric validates its reads, range queries  *)
(* included, when it commits, and a refused one leaves nothing.  Its reads *)
(* see the ledger as it was before it.  Its timestamp is the client's, so  *)
(* it need not grow.  Amounts stay far below 2^63, where Go would wrap.    *)
(***************************************************************************)
EXTENDS Integers, FiniteSets, FiniteSetsExt

CONSTANTS
  BudgetRoads, SeedRoad,  (* roads, and the one InitLedger writes          *)
  BudgetIds, SeedId,      (* ids within a road, and the seed's             *)
  Amounts,                (* amounts a client submits                      *)
  SeedAmounts,            (* what InitLedger sanctions, releases and spends *)
  Times,                  (* transaction timestamps                        *)
  SixMonths, TwoYears,    (* SixMonthsSeconds, twoYearsSeconds             *)
  MaxRecords              (* bound on the records of a kind                *)

LowUtilizationPct == 30

ASSUME BudgetAssumption ==
  /\ SeedRoad \in BudgetRoads /\ SeedId \in BudgetIds
  /\ Amounts \subseteq Nat \ {0} /\ Times \subseteq Nat
  /\ SeedAmounts \in [sanctioned : Nat \ {0}, released : Nat \ {0}, spent : Nat \ {0}]
  /\ SixMonths \in Nat /\ TwoYears \in Nat /\ MaxRecords \in Nat

VARIABLES
  sanctions, releases, expenditures,   (* the records, at most one of a key *)
  summary,       (* summary[d]: BudgetSummary of road d                    *)
  drifted        (* roads that InitLedger found in use                     *)

budgetVars == <<sanctions, releases, expenditures, summary, drifted>>

Flag == {"SPENT_EXCEEDS_RELEASED", "RELEASE_EXCEEDS_SANCTION",
         "ZERO_SPEND_AFTER_6_MONTHS", "LOW_UTILIZATION"}

BudgetTypeOK ==
  /\ sanctions \subseteq [road : BudgetRoads, id : BudgetIds, amount : Nat, at : Times]
  /\ releases \subseteq [road : BudgetRoads, id : BudgetIds, for : BudgetIds, amount : Nat, at : Times]
  /\ expenditures \subseteq [road : BudgetRoads, id : BudgetIds, for : BudgetIds, amount : Nat]
  /\ summary \in [BudgetRoads ->
       [sanctioned : Nat, released : Nat, spent : Nat, flags : SUBSET Flag]]
  /\ drifted \subseteq BudgetRoads

\* loadOrCreateSummary: what a road without a summary starts from.
Fresh == [sanctioned |-> 0, released |-> 0, spent |-> 0, flags |-> {}]

BudgetInit ==
  /\ sanctions = {} /\ releases = {} /\ expenditures = {}
  /\ summary = [d \in BudgetRoads |-> Fresh] /\ drifted = {}

Recorded(records, d, i) == \E s \in records : s.road = d /\ s.id = i

-----------------------------------------------------------------------------
(* updateAnomalyFlags.                                                     *)

\* The first record of road d is older than age (none: it is not).
OlderThan(records, d, age, ts) ==
  LET own == {s \in records : s.road = d}
  IN own # {} /\ \E s \in own : (\A t \in own : s.at <= t.at) /\ ts - s.at > age

LowUse(m) == m.sanctioned > 0 /\ m.spent * 100 < LowUtilizationPct * m.sanctioned

\* All flags are decided anew; those of age read the records committed before.
FlagsMutant(d, m, ts) == m.flags \cup
     (IF m.spent > m.released THEN {"SPENT_EXCEEDS_RELEASED"} ELSE {})
FlagsOf(d, m, ts) ==
  {f \in Flag :
     \/ f = "SPENT_EXCEEDS_RELEASED" /\ m.spent > m.released
     \/ f = "RELEASE_EXCEEDS_SANCTION" /\ m.released > m.sanctioned
     \/ f = "ZERO_SPEND_AFTER_6_MONTHS" /\ m.released > 0 /\ m.spent = 0
          /\ OlderThan(releases, d, SixMonths, ts)
     \/ f = "LOW_UTILIZATION" /\ LowUse(m) /\ OlderThan(sanctions, d, TwoYears, ts)}

Flagged(d, m, ts) == [m EXCEPT !.flags = FlagsOf(d, m, ts)]

-----------------------------------------------------------------------------
(* The transactions.                                                       *)

Adding(m, total, n) == [m EXCEPT ![total] = @ + n]

RecordSanction(msp, d, i, n, ts) ==
  /\ msp = "NHAIMSP" /\ ~Recorded(sanctions, d, i) /\ Cardinality(sanctions) < MaxRecords
  /\ sanctions' = sanctions \cup {[road |-> d, id |-> i, amount |-> n, at |-> ts]}
  /\ summary' = [summary EXCEPT ![d] =
       Flagged(d, Adding(summary[d], "sanctioned", n), ts)]
  /\ UNCHANGED <<releases, expenditures, drifted>>

\* A release beyond what is sanctioned is recorded all the same, and flagged.
RecordRelease(msp, d, i, sanction, n, ts) ==
  /\ msp = "NHAIMSP" /\ ~Recorded(releases, d, i) /\ Cardinality(releases) < MaxRecords
  /\ Recorded(sanctions, d, sanction)
  /\ releases' = releases \cup {[road |-> d, id |-> i, for |-> sanction, amount |-> n, at |-> ts]}
  /\ summary' = [summary EXCEPT ![d] =
       Flagged(d, Adding(summary[d], "released", n), ts)]
  /\ UNCHANGED <<sanctions, expenditures, drifted>>

RecordExpenditure(msp, d, i, release, n, ts) ==
  /\ msp \in {"NHAIMSP", "RoadWatchMSP"} /\ ~Recorded(expenditures, d, i)
  /\ Cardinality(expenditures) < MaxRecords
  /\ Recorded(releases, d, release)
  /\ expenditures' = expenditures \cup {[road |-> d, id |-> i, for |-> release, amount |-> n]}
  /\ summary' = [summary EXCEPT ![d] =
       Flagged(d, Adding(summary[d], "spent", n), ts)]
  /\ UNCHANGED <<sanctions, releases, drifted>>

Without(records, d, i) == {s \in records : ~(s.road = d /\ s.id = i)}

SeedGuardMutant == TRUE
SeedGuard == ~Recorded(sanctions, SeedRoad, SeedId)

\* InitLedger looks for the seed's sanction only: release, expenditure and
\* summary of the road are overwritten, whatever was recorded for it before.
BudgetInitLedger(msp, ts) ==
  /\ msp = "NHAIMSP" /\ SeedGuard
  /\ LET d == SeedRoad  i == SeedId
     IN /\ sanctions' = Without(sanctions, d, i) \cup
             {[road |-> d, id |-> i, amount |-> SeedAmounts.sanctioned, at |-> ts]}
        /\ releases' = Without(releases, d, i) \cup
             {[road |-> d, id |-> i, for |-> i, amount |-> SeedAmounts.released, at |-> ts]}
        /\ expenditures' = Without(expenditures, d, i) \cup
             {[road |-> d, id |-> i, for |-> i, amount |-> SeedAmounts.spent]}
        /\ summary' = [summary EXCEPT ![d] =
             Flagged(d, [Fresh EXCEPT !.sanctioned = SeedAmounts.sanctioned,
                           !.released = SeedAmounts.released, !.spent = SeedAmounts.spent], ts)]
        /\ drifted' = IF summary[d] = Fresh THEN drifted ELSE drifted \cup {d}

BudgetNext ==
  \E msp \in {"NHAIMSP", "RoadWatchMSP"}, ts \in Times :
    \/ BudgetInitLedger(msp, ts)
    \/ \E d \in BudgetRoads, i, for \in BudgetIds, n \in Amounts :
         \/ RecordSanction(msp, d, i, n, ts)
         \/ RecordRelease(msp, d, i, for, n, ts)
         \/ RecordExpenditure(msp, d, i, for, n, ts)

BudgetSpec == BudgetInit /\ [][BudgetNext]_budgetVars

-----------------------------------------------------------------------------
(* Queries.                                                                *)

GetBudgetHistory(d) ==
  [sanction    |-> {s \in sanctions : s.road = d},
   release     |-> {r \in releases : r.road = d},
   expenditure |-> {e \in expenditures : e.road = d}]

\* Selected by their stored flags (the country aside, and the first hundred).
GetAnomalousRoads == {d \in BudgetRoads : summary[d].flags # {}}

-----------------------------------------------------------------------------
(* Properties.                                                             *)

\* Money is traceable: an expenditure names a release of its road, a release a
\* sanction, and no key is recorded twice.
MoneyTraceable ==
  /\ \A e \in expenditures : Recorded(releases, e.road, e.for)
  /\ \A r \in releases : Recorded(sanctions, r.road, r.for)
  /\ \A records \in {sanctions, releases, expenditures} : \A s, t \in records :
       s.road = t.road /\ s.id = t.id => s = t

Total(records) == MapThenSumSet(LAMBDA s : s.amount, records)

\* The summary adds up the records, transaction by transaction, unless
\* InitLedger was run over a road in use.
TotalsAreSums ==
  \A d \in BudgetRoads \ drifted : LET history == GetBudgetHistory(d) IN
    /\ summary[d].sanctioned = Total(history.sanction)
    /\ summary[d].released = Total(history.release)
    /\ summary[d].spent = Total(history.expenditure)

\* CheckAnomalies returns stored flags: each names something the summary shows,
\* and overspending and overrelease are never missing, nor the roads with them
\* from GetAnomalousRoads.  The two flags of age are only as recent as the
\* road's last transaction.
FlagsTell ==
  \A d \in BudgetRoads : LET m == summary[d] IN
    /\ "SPENT_EXCEEDS_RELEASED" \in m.flags <=> m.spent > m.released
    /\ "RELEASE_EXCEEDS_SANCTION" \in m.flags <=> m.released > m.sanctioned
    /\ "ZERO_SPEND_AFTER_6_MONTHS" \in m.flags => m.released > 0 /\ m.spent = 0
    /\ "LOW_UTILIZATION" \in m.flags => LowUse(m)
    /\ m.spent > m.released \/ m.released > m.sanctioned => d \in GetAnomalousRoads

BudgetInvariant == BudgetTypeOK /\ MoneyTraceable /\ TotalsAreSums /\ FlagsTell
=============================================================================
