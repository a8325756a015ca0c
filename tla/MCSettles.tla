------------------------------ MODULE MCSettles ------------------------------
(***************************************************************************)
(* What the platform has accepted is settled in the end: the two consumers *)
(* of the gateway's events, the idempotent filing of complaints, the write *)
(* permits and the scheduler's breach pass, side by side.  They share no   *)
(* variable, so a behaviour exercises one of them (subject) while the      *)
(* others rest in their initial states.  The anchor consumer reads a log   *)
(* whose fourth message repeats the key of the first, the second being     *)
(* poison; the webhook handler a log of one message per topic, the first   *)
(* poison; of three clients of the gateway one repeats another's key with  *)
(* another payload; two citizens write one at a time; and two complaints   *)
(* breach while a request is at work.                                      *)
(***************************************************************************)
EXTENDS AnchorConsumer, WebhookHandler

CONSTANTS anna, anna2, bela, c1, p1, p2, global, b1, b2, nobody

VARIABLES
  subject,
  f_claim, f_complaints, f_lock, f_pc, f_target, f_tries, f_filed, f_answer,
  f_reports, f_txErrors, f_lateErrors, f_crashes, f_closes,
  d_rate, d_inflight, d_armed, d_permit, d_handler, d_gone, d_charged,
  d_orphans, d_cut, d_aborts, d_faults,
  l_status, l_tier, l_verified, l_assigned, l_tracking, l_announced,
  l_inspection, l_request, l_pass, l_inspections, l_score, l_band, l_charges,
  l_abandoned, l_everVerified, l_completions, l_inspectionCharges, l_served,
  l_slips

LateDuplicate == [p \in 1..4 |-> IF p = 4 THEN 1 ELSE p]

OneConsumer == {c1}
TwoPartitions == {p1, p2}
WideParts  == <<p1, p2, p1, p2, p1>>
WideTopics == <<"complaint-submitted", "authority-action", "complaint-status-changed",
                "complaint-anchored", "notification-send">>

Filing == INSTANCE ComplaintFiling WITH
  Clients <- {anna, anna2, bela},
  KeyOf <- [c \in {anna, anna2, bela} |-> IF c = bela THEN "k2" ELSE "k1"],
  HashOf <- [c \in {anna, anna2, bela} |-> IF c = anna2 THEN "g" ELSE "h"],
  ScanAttempts <- 2, SlowOwners <- FALSE, MaxTxErrors <- 1,
  MaxLateErrors <- 0, MaxCrashes <- 1, MaxCloses <- 0,
  claim <- f_claim, complaints <- f_complaints, lock <- f_lock, pc <- f_pc,
  target <- f_target, tries <- f_tries, filed <- f_filed, answer <- f_answer,
  reports <- f_reports, txErrors <- f_txErrors, lateErrors <- f_lateErrors,
  crashes <- f_crashes, closes <- f_closes

Admitting == INSTANCE Admission WITH
  Requests <- {anna, bela}, Counters <- {anna, bela, global},
  Permits <- [r \in {anna, bela} |-> <<r, global>>],
  MaxRate <- [x \in {anna, bela, global} |-> IF x = global THEN 2 ELSE 1],
  MaxInflight <- [x \in {anna, bela, global} |-> 1],
  MaxAborts <- 1, MaxFaults <- 1,
  rate <- d_rate, inflight <- d_inflight, armed <- d_armed,
  permit <- d_permit, handler <- d_handler, gone <- d_gone,
  charged <- d_charged, orphans <- d_orphans, cut <- d_cut,
  aborts <- d_aborts, faults <- d_faults

Lifecycle == INSTANCE ComplaintLifecycle WITH
  Complaints <- {b1, b2}, LifecycleRequests <- {"q"}, Nobody <- nobody,
  TopTier <- 3, StartScores <- {510}, MaxRequests <- 1, MaxSlips <- 1,
  status <- l_status, tier <- l_tier, verified <- l_verified,
  assigned <- l_assigned, tracking <- l_tracking, announced <- l_announced,
  inspection <- l_inspection, request <- l_request, pass <- l_pass,
  inspections <- l_inspections, score <- l_score, band <- l_band,
  charges <- l_charges, abandoned <- l_abandoned,
  everVerified <- l_everVerified, completions <- l_completions,
  inspectionCharges <- l_inspectionCharges, served <- l_served, slips <- l_slips

filingVars ==
  <<f_claim, f_complaints, f_lock, f_pc, f_target, f_tries, f_filed,
    f_answer, f_reports, f_txErrors, f_lateErrors, f_crashes, f_closes>>
admissionVars ==
  <<d_rate, d_inflight, d_armed, d_permit, d_handler, d_gone, d_charged,
    d_orphans, d_cut, d_aborts, d_faults>>
lifecycleVars ==
  <<l_status, l_tier, l_verified, l_assigned, l_tracking, l_announced,
    l_inspection, l_request, l_pass, l_inspections, l_score, l_band, l_charges,
    l_abandoned, l_everVerified, l_completions, l_inspectionCharges, l_served,
    l_slips>>
settlesVars == <<subject, anchorVars, vars, filingVars, admissionVars, lifecycleVars>>

SettlesInit ==
  /\ subject \in {"anchor", "webhook", "filing", "admission", "lifecycle"}
  /\ AnchorInit /\ Init /\ Filing!Init
  /\ Admitting!Init /\ Lifecycle!LifecycleInit
  /\ subject # "lifecycle" => l_assigned = {}

SettlesNext ==
  /\ UNCHANGED subject
  /\ \/ /\ subject = "anchor" /\ AnchorNext
        /\ UNCHANGED <<vars, filingVars, admissionVars, lifecycleVars>>
     \/ /\ subject = "webhook" /\ Next
        /\ UNCHANGED <<anchorVars, filingVars, admissionVars, lifecycleVars>>
     \/ /\ subject = "filing" /\ Filing!Next
        /\ UNCHANGED <<anchorVars, vars, admissionVars, lifecycleVars>>
     \/ /\ subject = "admission" /\ Admitting!Next
        /\ UNCHANGED <<anchorVars, vars, filingVars, lifecycleVars>>
     \/ /\ subject = "lifecycle" /\ Lifecycle!LifecycleNext
        /\ UNCHANGED <<anchorVars, vars, filingVars, admissionVars>>

\* Each component's own fairness, while it is the subject.
SettlesFairness ==
  /\ WF_anchorVars(subject = "anchor" /\ Fetch)
  /\ WF_anchorVars(subject = "anchor" /\ MainStep)
  /\ WF_anchorVars(subject = "anchor" /\ TimerFlush)
  /\ WF_anchorVars(subject = "anchor" /\ FlushGoesOn)
  /\ \A p \in {p1, p2} :
       /\ WF_vars(subject = "webhook" /\ GoesOn(c1, p))
       /\ WF_vars(subject = "webhook" /\ AutoCommit(p))
  /\ \A c \in {anna, anna2, bela} : WF_filingVars(subject = "filing" /\ Filing!Request(c))
  /\ \A k \in {"k1", "k2"} : WF_filingVars(subject = "filing" /\ Filing!GoStale(k))
  /\ \A r \in {anna, bela} : WF_admissionVars(subject = "admission" /\ Admitting!Step(r))
  /\ \A x \in {anna, bela, global} :
       WF_admissionVars(subject = "admission" /\ Admitting!Expire(x))
  /\ WF_admissionVars(subject = "admission" /\ Admitting!NextWindow)
  /\ WF_lifecycleVars(subject = "lifecycle" /\ Lifecycle!Passing)

SettlesSpec == SettlesInit /\ [][SettlesNext]_settlesVars /\ SettlesFairness

-----------------------------------------------------------------------------
\* Whatever fails in between, what was accepted is settled in the end: every
\* message of the anchor topic anchored or dead-lettered, unless the consumer's
\* main loop has ended; every webhook message handled or dead-lettered, so that
\* poison does not block a partition; every client of the filing route answered,
\* so that no idempotency key is blocked for good; and every write that retries
\* admitted, so that permits lost with a process do not lock the service.
SubjectSettled ==
  CASE subject = "anchor"  -> AllSettled \/ main = "dead"
    [] subject = "webhook" -> AllHandled
    [] subject = "filing"  -> Filing!AllAnswered
    [] subject = "admission" -> Admitting!AllServed
    [] subject = "lifecycle" -> TRUE

AcceptedIsSettled == <>SubjectSettled

\* A complaint whose service level is breached is escalated and announced in the
\* end, unless a route settles it first, though a pass may end half-way.
BreachesAreHandled == Lifecycle!BreachesAreHandled
=============================================================================
