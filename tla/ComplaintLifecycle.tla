------------------------- MODULE ComplaintLifecycle -------------------------
(***************************************************************************)
(* What happens to filed complaints: the routes by which authorities,      *)
(* contractors and citizens change their status (routes/authority.ts,      *)
(* contractor.ts, citizen.ts) and the nightly passes of the scheduler      *)
(* (services/scheduler): breaches of the service level are escalated,      *)
(* announced and charged, overdue inspections are charged.  There is one   *)
(* scheduler; its passes run to their end or die.  Notifications, audit,   *)
(* analytics and broadcasts write nothing that is read here, nor does the  *)
(* karma of engineers and organisations, whose statements' errors are      *)
(* swallowed; that of the one contractor is kept in numbers.               *)
(***************************************************************************)
EXTENDS Integers

CONSTANTS
  Complaints, LifecycleRequests, Nobody,
  TopTier,          (* length of the hierarchies                           *)
  StartScores,      (* karma scores the contractor may start from          *)
  MaxRequests,      (* bound on requests                                   *)
  MaxSlips          (* bound on failing statements and deaths              *)

ASSUME LifecycleAssumption ==
  /\ Nobody \notin Complaints /\ StartScores \subseteq -500..10000
  /\ TopTier \in Nat /\ MaxRequests \in Nat /\ MaxSlips \in Nat

VARIABLES
  status,         (* complaints.status                                     *)
  tier,           (* tier of the hierarchy authority_id is at              *)
  verified,       (* complaint_repair_verifications.repaired               *)
  assigned,       (* complaints with a contractor                          *)
  tracking,       (* sla_tracking: deadline passed, breach_notified        *)
  announced,      (* status events in the outbox, without their origin     *)
  inspection,     (* complaint_assignments: state of the inspection        *)
  request,        (* request[q]: where the request q is                    *)
  pass,           (* the breach pass of the scheduler                      *)
  inspections,    (* the inspection pass: complaints still to be charged   *)
  score, band,    (* karma_score and work_band of the contractor           *)
  charges,        (* charges[c]: breach penalties charged for c            *)
  abandoned,      (* abandoned[c]: passes that ended within c's row        *)
  everVerified,   (* complaints with a verification that once passed       *)
  completions, inspectionCharges,
  served, slips

routeVars == <<status, verified, assigned, announced, inspection, request, everVerified,
               completions, served>>
karmaVars == <<score, band>>
passVars == <<tier, tracking, pass, charges, abandoned>>
lifecycleVars == <<routeVars, karmaVars, passVars, inspections, inspectionCharges, slips>>

Statuses == {"OPEN", "IN_PROGRESS", "RESOLUTION_SUBMITTED", "ESCALATED", "RESOLVED",
             "CLOSED", "CITIZEN_CONFIRMED", "CITIZEN_DISPUTED"}

\* What a request asks for.  to: the status it writes.
Kinds == {[route |-> "status", to |-> "RESOLVED"], [route |-> "status", to |-> "CLOSED"],
          [route |-> "escalate", to |-> "ESCALATED"], [route |-> "resolve", to |-> "RESOLVED"],
          [route |-> "accept", to |-> "IN_PROGRESS"],
          [route |-> "complete", to |-> "RESOLUTION_SUBMITTED"],
          [route |-> "confirm", to |-> "CITIZEN_CONFIRMED"],
          [route |-> "dispute", to |-> "CITIZEN_DISPUTED"]}

Recurrence == [route |-> "report", to |-> "ESCALATED"]

ByAuthority(k) == k.route \in {"status", "escalate", "resolve"}
ByContractor(k) == k.route \in {"accept", "complete"}

NoRequest == [pc |-> "idle"]
NoPass == [rows |-> {}, owned |-> {}, at |-> Nobody, step |-> "none"]

LifecycleTypeOK ==
  /\ status \in [Complaints -> Statuses] /\ tier \in [Complaints -> 0..TopTier]
  /\ verified \in [Complaints -> BOOLEAN] /\ assigned \subseteq Complaints
  /\ tracking \in [Complaints -> [overdue : BOOLEAN, notified : BOOLEAN]]
  /\ announced \subseteq [complaint : Complaints, to : Statuses, by : {"authority", "scheduler"}]
  /\ inspection \in [Complaints -> {"none", "due", "notified", "done"}]
  /\ request \in [LifecycleRequests -> {NoRequest} \cup
       [pc : {"check", "work", "write", "karma"}, complaint : Complaints,
        kind : Kinds \cup {Recurrence}]]
  /\ pass \in [rows : SUBSET Complaints, owned : SUBSET Complaints,
              at : Complaints \cup {Nobody},
              step : {"none", "escalate", "announce", "charge", "mark"}]
  /\ score \in -500..10000
  /\ band \in {"unset", "Trusted", "Standard", "AtRisk", "Suspended"}
  /\ charges \in [Complaints -> Nat] /\ abandoned \in [Complaints -> Nat]
  /\ everVerified \subseteq Complaints /\ inspections \subseteq Complaints
  /\ completions \in [Complaints -> Nat] /\ inspectionCharges \in [Complaints -> Nat]
  /\ served \in 0..MaxRequests /\ slips \in 0..MaxSlips

LifecycleInit ==
  /\ status = [c \in Complaints |-> "OPEN"] /\ verified = [c \in Complaints |-> FALSE]
  /\ assigned \in SUBSET Complaints
  /\ tier = [c \in Complaints |-> 0]
  /\ tracking = [c \in Complaints |-> [overdue |-> FALSE, notified |-> FALSE]]
  /\ announced = {} /\ inspection = [c \in Complaints |-> "none"]
  /\ request = [q \in LifecycleRequests |-> NoRequest]
  /\ pass = NoPass /\ inspections = {}
  /\ score \in StartScores /\ band = "unset"
  /\ charges = [c \in Complaints |-> 0] /\ abandoned = [c \in Complaints |-> 0]
  /\ everVerified = {} /\ completions = [c \in Complaints |-> 0]
  /\ inspectionCharges = [c \in Complaints |-> 0]
  /\ served = 0 /\ slips = 0

Slip == slips < MaxSlips /\ slips' = slips + 1

-----------------------------------------------------------------------------
(* The routes.                                                             *)

Done(q) == request' = [request EXCEPT ![q] = NoRequest]

\* The row is read; an unchanged status and an unassigned contractor end it.
Receive(q, c, k) ==
  /\ request[q].pc = "idle" /\ served < MaxRequests /\ served' = served + 1
  /\ ByAuthority(k) => status[c] # k.to
  /\ ByContractor(k) => c \in assigned
  /\ request' = [request EXCEPT ![q] = [complaint |-> c, kind |-> k, pc |->
       IF ByAuthority(k) /\ k.to = "RESOLVED" THEN "check"
       ELSE IF ByContractor(k) THEN "work" ELSE "write"]]
  /\ UNCHANGED <<status, verified, assigned, announced, inspection, everVerified, completions,
                 karmaVars, passVars, inspections, inspectionCharges, slips>>

PassesMutant(c) == TRUE
Passes(c) == verified[c]

\* "Complaint cannot be resolved before repair verification passes"
Check(q) ==
  /\ request[q].pc = "check"
  /\ IF Passes(request[q].complaint)
     THEN request' = [request EXCEPT ![q].pc = "write"] ELSE Done(q)
  /\ UNCHANGED <<status, verified, assigned, announced, inspection, everVerified, completions,
                 served, karmaVars, passVars, inspections, inspectionCharges, slips>>

\* Contractors change the assignment in a statement before that of the status.
Work(q) ==
  /\ request[q].pc = "work" /\ request' = [request EXCEPT ![q].pc = "write"]
  /\ LET c == request[q].complaint IN
       IF request[q].kind.route = "complete"
       THEN /\ inspection' = [inspection EXCEPT ![c] = "due"]
            /\ completions' = [completions EXCEPT ![c] = @ + 1]
       ELSE UNCHANGED <<inspection, completions>>
  /\ UNCHANGED <<status, verified, assigned, announced, everVerified, served,
                 karmaVars, passVars, inspections, inspectionCharges, slips>>

\* The status is overwritten whatever it has become.  Of the authority's routes
\* it shares a transaction with the event and, resolving, with the assignment.
WriteStatus(q) ==
  /\ request[q].pc = "write" /\ Done(q)
  /\ LET c == request[q].complaint  k == request[q].kind IN
       /\ status' = [status EXCEPT ![c] = k.to]
       /\ announced' = IF ByAuthority(k)
            THEN announced \cup {[complaint |-> c, to |-> k.to, by |-> "authority"]}
            ELSE announced
       /\ inspection' = IF k.route = "resolve" /\ inspection[c] # "none"
            THEN [inspection EXCEPT ![c] = "done"] ELSE inspection
  /\ UNCHANGED <<verified, assigned, everVerified, completions, served,
                 karmaVars, passVars, inspections, inspectionCharges, slips>>

RequestFails(q) ==
  /\ request[q].pc # "idle" /\ Slip /\ Done(q)
  /\ UNCHANGED <<status, verified, assigned, announced, inspection, everVerified, completions,
                 served, karmaVars, passVars, inspections, inspectionCharges>>

\* /repair-verification: a later one replaces the earlier, whatever it says.
VerifyRepair(c, repaired) ==
  /\ served < MaxRequests /\ served' = served + 1
  /\ verified' = [verified EXCEPT ![c] = repaired]
  /\ everVerified' = IF repaired THEN everVerified \cup {c} ELSE everVerified
  /\ UNCHANGED <<status, assigned, announced, inspection, request, completions,
                 karmaVars, passVars, inspections, inspectionCharges, slips>>

\* /assign and /unassign.
Assign(c) ==
  /\ served < MaxRequests /\ served' = served + 1
  /\ assigned' = IF c \in assigned THEN assigned \ {c} ELSE assigned \cup {c}
  /\ UNCHANGED <<status, verified, announced, inspection, request, everVerified, completions,
                 karmaVars, passVars, inspections, inspectionCharges, slips>>

-----------------------------------------------------------------------------
(* Karma of the contractor: 20 points a breach, 25 a recurrence.           *)

Clamp(n) == IF n < -500 THEN -500 ELSE IF n > 10000 THEN 10000 ELSE n

\* getTierFromScore, without penalties or suspension.
BandOfScore(n) == CASE n >= 500 -> "Trusted" [] n >= 100 /\ n < 500 -> "Standard"
                    [] n >= 0 /\ n < 100 -> "AtRisk" [] n < 0 -> "Suspended"

\* The CASE of applyContractorKarmaDelta, which sees the score before the update.
SqlBandMutant(old, delta) == BandOfScore(old)
SqlBand(old, delta) == BandOfScore(old + delta)

\* A report that a repair did not last reopens the complaint (CitizenIntake has
\* its transaction), then charges its contractor, if the UPDATE succeeds.
Recur(q, c) ==
  /\ request[q].pc = "idle" /\ served < MaxRequests /\ served' = served + 1
  /\ status[c] \in {"RESOLVED", "RESOLUTION_SUBMITTED"}
  /\ status' = [status EXCEPT ![c] = "ESCALATED"]
  /\ request' = [request EXCEPT ![q] = [complaint |-> c, kind |-> Recurrence, pc |-> "karma"]]
  /\ UNCHANGED <<verified, assigned, announced, inspection, everVerified, completions,
                 karmaVars, passVars, inspections, inspectionCharges, slips>>

ChargeRecurrence(q) ==
  /\ request[q].pc = "karma" /\ Done(q)
  /\ IF request[q].complaint \in assigned
     THEN score' = Clamp(score - 25) /\ band' = SqlBand(score, -25)
     ELSE UNCHANGED karmaVars
  /\ UNCHANGED <<status, verified, assigned, announced, inspection, everVerified, completions,
                 served, passVars, inspections, inspectionCharges, slips>>

-----------------------------------------------------------------------------
(* The scheduler's pass over breached complaints (checkSlaBreaches).       *)

DeadlinePasses(c) ==
  /\ ~tracking[c].overdue /\ tracking' = [tracking EXCEPT ![c].overdue = TRUE]
  /\ UNCHANGED <<routeVars, karmaVars, tier, pass, charges, abandoned, inspections,
                 inspectionCharges, slips>>

Settled(c) == status[c] \in {"RESOLVED", "CLOSED"}

BreachedOnce == {c \in Complaints : tracking[c].overdue /\ ~Settled(c)}
BreachedAfresh ==
  {c \in Complaints : tracking[c].overdue /\ ~tracking[c].notified /\ ~Settled(c)
                       /\ status[c] # "ESCALATED"}
Breached == {c \in Complaints : tracking[c].overdue /\ ~tracking[c].notified /\ ~Settled(c)}

\* One UPDATE selects the rows, with the contractor who will be charged (that of
\* the complaint; the road's own, its substitute, is left out).
StartPass ==
  /\ pass = NoPass /\ Breached # {}
  /\ pass' = [NoPass EXCEPT !.rows = Breached, !.owned = Breached \cap assigned]
  /\ UNCHANGED <<routeVars, karmaVars, tier, tracking, charges, abandoned, inspections,
                 inspectionCharges, slips>>

NextRow(c) ==
  /\ pass.step = "none" /\ c \in pass.rows
  /\ pass' = [pass EXCEPT !.rows = @ \ {c}, !.at = c, !.step = "escalate"]
  /\ UNCHANGED <<routeVars, karmaVars, tier, tracking, charges, abandoned, inspections,
                 inspectionCharges, slips>>

AtStep(s) == pass.step = s
Go(s) == pass' = [pass EXCEPT !.step = s]

\* nextInLinearHierarchy: one tier up, if there is one.
Escalate ==
  /\ AtStep("escalate") /\ Go("announce")
  /\ status' = [status EXCEPT ![pass.at] = "ESCALATED"]
  /\ tier' = [tier EXCEPT ![pass.at] = IF @ < TopTier THEN @ + 1 ELSE @]
  /\ UNCHANGED <<verified, assigned, announced, inspection, request, everVerified, completions,
                 served, karmaVars, tracking, charges, abandoned, inspections,
                 inspectionCharges, slips>>

\* enqueueStatusChangedOutbox once either INSERT succeeds.
Announce ==
  /\ AtStep("announce") /\ Go("charge")
  /\ announced' = announced \cup
       {[complaint |-> pass.at, to |-> "ESCALATED", by |-> "scheduler"]}
  /\ UNCHANGED <<status, verified, assigned, inspection, request, everVerified, completions,
                 served, karmaVars, tier, tracking, charges, abandoned, inspections,
                 inspectionCharges, slips>>

\* applyContractorKarma: score, band and ledger in one transaction, whose failure
\* is only logged.
Charge ==
  /\ AtStep("charge") /\ Go("mark")
  /\ \/ /\ pass.at \in pass.owned /\ UNCHANGED slips
        /\ score' = Clamp(score - 20) /\ band' = BandOfScore(Clamp(score - 20))
        /\ charges' = [charges EXCEPT ![pass.at] = @ + 1]
     \/ /\ pass.at \in pass.owned /\ Slip /\ UNCHANGED <<karmaVars, charges>>
     \/ /\ pass.at \notin pass.owned /\ UNCHANGED <<karmaVars, charges, slips>>
  /\ UNCHANGED <<routeVars, tier, tracking, abandoned, inspections, inspectionCharges>>

\* The end of the row, and of the pass after the last one.
MarkNotified ==
  /\ AtStep("mark")
  /\ tracking' = [tracking EXCEPT ![pass.at].notified = TRUE]
  /\ pass' = IF pass.rows = {} THEN NoPass ELSE [pass EXCEPT !.at = Nobody, !.step = "none"]
  /\ UNCHANGED <<routeVars, karmaVars, tier, charges, abandoned, inspections,
                 inspectionCharges, slips>>

\* The UPDATE, both INSERTs or the marking fail and end the pass, or the process
\* dies: the rows left are the next pass's.
PassEnds ==
  /\ pass # NoPass /\ Slip /\ pass' = NoPass
  /\ abandoned' = [c \in Complaints |-> abandoned[c] + (IF c = pass.at THEN 1 ELSE 0)]
  /\ UNCHANGED <<routeVars, karmaVars, tier, tracking, charges, inspections,
                 inspectionCharges>>

-----------------------------------------------------------------------------
(* The scheduler's pass over overdue inspections (checkInspectionOverdue). *)

Due == {c \in Complaints : inspection[c] = "due"
          /\ status[c] \in {"RESOLUTION_SUBMITTED", "IN_PROGRESS", "ESCALATED"}}

\* The rows are marked before anything is charged.  overdue: those past their grace.
StartInspections(overdue) ==
  /\ inspections = {} /\ overdue # {} /\ inspections' = overdue
  /\ inspection' = [c \in Complaints |-> IF c \in overdue THEN "notified" ELSE inspection[c]]
  /\ UNCHANGED <<status, verified, assigned, announced, request, everVerified, completions,
                 served, karmaVars, passVars, inspectionCharges, slips>>

\* The engineer is charged, unless a statement fails or the process dies.
ChargeInspection(c) ==
  /\ c \in inspections
  /\ \/ /\ inspections' = inspections \ {c} /\ UNCHANGED slips
        /\ inspectionCharges' = [inspectionCharges EXCEPT ![c] = @ + 1]
     \/ Slip /\ inspections' = {} /\ UNCHANGED inspectionCharges
  /\ UNCHANGED <<routeVars, karmaVars, passVars>>

Serving ==
  \/ \E q \in LifecycleRequests :
       \/ Check(q) \/ Work(q) \/ WriteStatus(q) \/ RequestFails(q)
       \/ \E c \in Complaints, k \in Kinds : Receive(q, c, k)
  \/ \E q \in LifecycleRequests :
       ChargeRecurrence(q) \/ \E c \in Complaints : Recur(q, c)
  \/ \E c \in Complaints :
       \/ Assign(c)
       \/ \E repaired \in BOOLEAN : VerifyRepair(c, repaired)

Passing == StartPass \/ Escalate \/ Announce \/ Charge \/ MarkNotified
             \/ \E c \in Complaints : NextRow(c)

LifecycleNext ==
  \/ Serving \/ Passing \/ PassEnds
  \/ \E overdue \in SUBSET Due : StartInspections(overdue)
  \/ \E c \in Complaints : DeadlinePasses(c) \/ ChargeInspection(c)

LifecycleSpec == LifecycleInit /\ [][LifecycleNext]_lifecycleVars

\* node-cron starts a pass every night, and a started pass goes on.
PassFairness == WF_lifecycleVars(Passing)

-----------------------------------------------------------------------------
(* Properties.                                                             *)

\* A breach marked notified, which no later pass will look at, is on its way to
\* the consumers of status changes (enqueueStatusChangedOutbox throws for that).
NotifiedIsAnnounced ==
  \A c \in Complaints : tracking[c].notified =>
    [complaint |-> c, to |-> "ESCALATED", by |-> "scheduler"] \in announced

\* The charge, and the move, of c's last pass that did not end within its row.
ChargedOnce(c) ==
  IF tracking[c].notified \/ (pass.at = c /\ pass.step = "mark") THEN 1 ELSE 0
MovedOnce(c) ==
  IF tracking[c].notified \/ (pass.at = c /\ pass.step \in {"announce", "charge", "mark"})
  THEN 1 ELSE 0

\* Moving a complaint up and charging for it, which breach_notified is to allow
\* once, happen again only for passes that ended within its row.
RepeatsAreAccounted ==
  \A c \in Complaints :
    charges[c] <= abandoned[c] + ChargedOnce(c) /\ tier[c] <= abandoned[c] + MovedOnce(c)

\* An inspection missed is charged at most once for each completion the
\* contractor reports: the pass marks the row before it charges.
InspectionsChargedOnce == \A c \in Complaints : inspectionCharges[c] <= completions[c]

\* No complaint is resolved whose repair never passed a verification, although a
\* later one may have failed by the time the status is written.
ResolvedWasVerified == \A c \in Complaints : status[c] = "RESOLVED" => c \in everVerified

\* "The transaction makes score, band and ledger agree": the band computed in SQL
\* by the gateway and in TypeScript by the scheduler is that of the score stored.
BandFollowsScore == band = "unset" \/ band = BandOfScore(score)

LifecycleInvariant ==
  /\ LifecycleTypeOK /\ NotifiedIsAnnounced /\ RepeatsAreAccounted
  /\ InspectionsChargedOnce /\ ResolvedWasVerified /\ BandFollowsScore

\* A breach is notified in the end, unless the complaint is settled meanwhile.
BreachesAreHandled ==
  \A c \in Complaints : tracking[c].overdue ~> tracking[c].notified \/ Settled(c)
=============================================================================
