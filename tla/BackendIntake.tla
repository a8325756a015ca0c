---------------------------- MODULE BackendIntake ----------------------------
(***************************************************************************)
(* The internal complaint service, backend-api: POST /complaints           *)
(* (routes/complaints.ts), which files a report or merges it into another  *)
(* complaint of the road and damage in one transaction, and the relay of   *)
(* its outbox (services/complaintOutbox.ts).  No lock precedes the search, *)
(* and a merge that escalates publishes its event before its COMMIT.  A    *)
(* complaint is known by the report that filed it; all are of one road.    *)
(* Postgres runs at READ COMMITTED: a row found is looked at again once it *)
(* is locked.  Attachments, assignments and audit rows are left out, and   *)
(* the delay of a failed row is any time at all.                           *)
(***************************************************************************)
EXTENDS Naturals, FiniteSets

CONSTANTS
  Reports, TypeOf,   (* calls, and the damage each reports                 *)
  Unlocked,     (* no report                                               *)
  Replicas,     (* processes, with a relay each                            *)
  BatchSize,
  MaxChanges,   (* bound on status changes by other services               *)
  MaxFaults     (* bound on failing statements, lost answers, deaths       *)

ASSUME BackendAssumption ==
  /\ IsFiniteSet(Reports) /\ Unlocked \notin Reports
  /\ BatchSize \in Nat /\ MaxChanges \in Nat /\ MaxFaults \in Nat

VARIABLES
  standing,     (* standing[c]: complaints.status, "none" before COMMIT    *)
  rowLock,      (* rowLock[c]: the call that has the row locked            *)
  call,         (* call[r]: where r is                                     *)
  notified,     (* calls whose status-changed event was published          *)
  escalated,    (* calls that committed an escalation                      *)
  known,        (* known[r]: complaints committed before r searched        *)
  inactive,     (* inactive[r]: those seen not active while r was on       *)
  outbox,       (* outbox[c]: status of the row, "none" if there is none   *)
  submitted,    (* complaints whose complaint-submitted was published      *)
  relay,        (* relay[p]: the batch of p, and the row at hand           *)
  changes, faults

callVars == <<standing, rowLock, call, notified, escalated, known, inactive, changes>>
relayVars == <<submitted, relay>>
backendVars == <<callVars, outbox, relayVars, faults>>

ActiveStates == {"FILED", "IN_PROGRESS", "ESCALATED"}
Standings == ActiveStates \cup {"RESOLVED", "CLOSED"}

NoBatch == [rows |-> {}, at |-> Unlocked, step |-> "none"]

BackendTypeOK ==
  /\ standing \in [Reports -> Standings \cup {"none"}]
  /\ rowLock \in [Reports -> Reports \cup {Unlocked}]
  /\ call \in [Reports -> [found : SUBSET Reports, target : Reports, escalates : BOOLEAN,
       pc : {"search", "active", "resolved", "write", "emit", "commit", "over"}]]
  /\ notified \subseteq Reports /\ escalated \subseteq Reports /\ submitted \subseteq Reports
  /\ known \in [Reports -> SUBSET Reports] /\ inactive \in [Reports -> SUBSET Reports]
  /\ outbox \in [Reports -> {"none", "PENDING", "IN_FLIGHT", "FAILED", "SENT"}]
  /\ relay \in [Replicas -> [rows : SUBSET Reports, at : Reports \cup {Unlocked},
                             step : {"none", "sent", "failed"}]]
  /\ changes \in 0..MaxChanges /\ faults \in 0..MaxFaults

BackendInit ==
  /\ standing = [c \in Reports |-> "none"] /\ rowLock = [c \in Reports |-> Unlocked]
  /\ call = [r \in Reports |->
       [pc |-> "search", found |-> {}, target |-> r, escalates |-> FALSE]]
  /\ notified = {} /\ escalated = {} /\ submitted = {}
  /\ known = [r \in Reports |-> {}] /\ inactive = [r \in Reports |-> {}]
  /\ outbox = [c \in Reports |-> "none"] /\ relay = [p \in Replicas |-> NoBatch]
  /\ changes = 0 /\ faults = 0

Fault == faults < MaxFaults /\ faults' = faults + 1

Filed == {c \in Reports : standing[c] # "none"}
Is(r, pc) == call[r].pc = pc

-----------------------------------------------------------------------------
(* The transaction.                                                        *)

MatchesMutant(r, c) ==
  TypeOf[c] = TypeOf[r] /\ standing[c] \in {"FILED", "IN_PROGRESS"}
Matches(r, c) == TypeOf[c] = TypeOf[r] /\ standing[c] \in ActiveStates
Recurs(r, c) == TypeOf[c] = TypeOf[r] /\ standing[c] = "RESOLVED"

Search(r) ==
  /\ Is(r, "search")
  /\ call' = [call EXCEPT ![r].pc = "active", ![r].found = {c \in Filed : Matches(r, c)}]
  /\ known' = [known EXCEPT ![r] = Filed]
  /\ inactive' = [inactive EXCEPT ![r] = {c \in Filed : standing[c] \notin ActiveStates}]
  /\ UNCHANGED <<standing, rowLock, notified, escalated, changes, outbox, relayVars, faults>>

\* Only those resolved within a day are found.
SearchResolved(r) ==
  /\ Is(r, "active") /\ call[r].found = {}
  /\ \E recent \in SUBSET {c \in Filed : Recurs(r, c)} :
       call' = [call EXCEPT ![r].pc = "resolved", ![r].found = recent]
  /\ UNCHANGED <<standing, rowLock, notified, escalated, known, inactive, changes,
                 outbox, relayVars, faults>>

\* FOR UPDATE: the row found, once it is free, if it still is what was looked for.
LockRow(r, c) ==
  /\ call[r].pc \in {"active", "resolved"} /\ c \in call[r].found /\ rowLock[c] = Unlocked
  /\ IF (Is(r, "active") /\ Matches(r, c)) \/ (Is(r, "resolved") /\ Recurs(r, c))
     THEN /\ rowLock' = [rowLock EXCEPT ![c] = r]
          /\ call' = [call EXCEPT ![r].pc = "write", ![r].target = c, ![r].found = {}]
     ELSE call' = [call EXCEPT ![r].found = @ \ {c}] /\ UNCHANGED rowLock
  /\ UNCHANGED <<standing, notified, escalated, known, inactive, changes,
                 outbox, relayVars, faults>>

\* The UPDATE.  Whether it escalates is a matter of age: of an active one that is
\* old, and of a resolved one unless its day has ended since the search.
Merge(r) ==
  /\ Is(r, "write")
  /\ \E escalates \in BOOLEAN :
       call' = [call EXCEPT ![r].escalates = escalates,
                            ![r].pc = IF escalates THEN "emit" ELSE "commit"]
  /\ UNCHANGED <<standing, rowLock, notified, escalated, known, inactive, changes,
                 outbox, relayVars, faults>>

\* Without any, the INSERTs of complaint and outbox row.
Create(r) ==
  /\ Is(r, "resolved") /\ call[r].found = {} /\ call' = [call EXCEPT ![r].pc = "commit"]
  /\ UNCHANGED <<standing, rowLock, notified, escalated, known, inactive, changes,
                 outbox, relayVars, faults>>

\* emitComplaintEvent
Emit(r) ==
  /\ Is(r, "emit") /\ call' = [call EXCEPT ![r].pc = "commit"]
  /\ notified' = notified \cup {r}
  /\ UNCHANGED <<standing, rowLock, escalated, known, inactive, changes,
                 outbox, relayVars, faults>>

ReleaseRows(r) == rowLock' = [c \in Reports |-> IF rowLock[c] = r THEN Unlocked ELSE rowLock[c]]
Over(r) == call' = [call EXCEPT ![r].pc = "over", ![r].found = {}]

Takes(r) ==
  LET c == call[r].target IN
    IF c = r
    THEN /\ standing' = [standing EXCEPT ![r] = "FILED"]
         /\ outbox' = [outbox EXCEPT ![r] = "PENDING"] /\ UNCHANGED escalated
    ELSE /\ standing' = IF call[r].escalates
              THEN [standing EXCEPT ![c] = "ESCALATED"] ELSE standing
         /\ escalated' = IF call[r].escalates THEN escalated \cup {r} ELSE escalated
         /\ UNCHANGED outbox

\* What follows the COMMIT, or its lost answer, changes nothing modelled here.
CommitReport(r) ==
  /\ Is(r, "commit") /\ Over(r) /\ ReleaseRows(r) /\ Takes(r)
  /\ UNCHANGED <<notified, known, inactive, changes, relayVars, faults>>

\* A statement or the publishing fails, which may have published, or the
\* process dies: nothing is committed.
Fails(r) ==
  /\ call[r].pc \notin {"search", "over"} /\ Fault /\ Over(r) /\ ReleaseRows(r)
  /\ notified' \in {notified, IF Is(r, "emit") THEN notified \cup {r} ELSE notified}
  /\ UNCHANGED <<standing, escalated, known, inactive, changes, outbox, relayVars>>

\* The webhook (services/webhook.ts), the gateway's routes, the scheduler.
Move(c, s) ==
  /\ c \in Filed /\ rowLock[c] = Unlocked /\ s # standing[c]
  /\ changes < MaxChanges /\ changes' = changes + 1
  /\ standing' = [standing EXCEPT ![c] = s]
  /\ inactive' = IF s \in ActiveStates THEN inactive
       ELSE [r \in Reports |-> IF call[r].pc \in {"search", "over"}
                              THEN inactive[r] ELSE inactive[r] \cup {c}]
  /\ UNCHANGED <<rowLock, call, notified, escalated, known, outbox, relayVars, faults>>

-----------------------------------------------------------------------------
(* The relay.                                                              *)

Hand(p) == relay[p].rows \cup ({relay[p].at} \ {Unlocked})
Stranded == {c \in Reports : outbox[c] = "IN_FLIGHT" /\ \A p \in Replicas : c \notin Hand(p)}

Claimable(c) == outbox[c] \in {"PENDING", "FAILED"}

\* One statement, which skips locked rows, and its COMMIT, whose answer may be lost.
ClaimPendingEvents(p, rows) ==
  /\ relay[p] = NoBatch /\ rows # {} /\ Cardinality(rows) <= BatchSize
  /\ \A c \in rows : Claimable(c)
  /\ outbox' = [c \in Reports |-> IF c \in rows THEN "IN_FLIGHT" ELSE outbox[c]]
  /\ \/ relay' = [relay EXCEPT ![p].rows = rows] /\ UNCHANGED faults
     \/ Fault /\ UNCHANGED relay
  /\ UNCHANGED <<callVars, submitted>>

\* A broker may fail as often as it likes, and have the event all the same.
Publish(p, c) ==
  /\ relay[p].step = "none" /\ c \in relay[p].rows
  /\ \E step \in {"sent", "failed"} :
       /\ relay' = [relay EXCEPT ![p] = [rows |-> @.rows \ {c}, at |-> c, step |-> step]]
       /\ submitted' \in IF step = "sent" THEN {submitted \cup {c}}
                         ELSE {submitted, submitted \cup {c}}
  /\ UNCHANGED <<callVars, outbox, faults>>

NextRow(p) == relay' = [relay EXCEPT ![p].at = Unlocked, ![p].step = "none"]
Set(p, status) == outbox' = [outbox EXCEPT ![relay[p].at] = status]

\* Its error, though it may have taken effect, is the publishing's.
MarkSent(p) ==
  /\ relay[p].step = "sent"
  /\ \/ Set(p, "SENT") /\ NextRow(p) /\ UNCHANGED faults
     \/ /\ Fault /\ relay' = [relay EXCEPT ![p].step = "failed"]
        /\ Set(p, "SENT") \/ UNCHANGED outbox
  /\ UNCHANGED <<callVars, submitted>>

\* Its error ends the drain, and the rest of the batch stays as it is.
MarkFailed(p) ==
  /\ relay[p].step = "failed"
  /\ \/ Set(p, "FAILED") /\ NextRow(p) /\ UNCHANGED faults
     \/ /\ Fault /\ relay' = [relay EXCEPT ![p] = NoBatch]
        /\ Set(p, "FAILED") \/ UNCHANGED outbox
  /\ UNCHANGED <<callVars, submitted>>

Dies(p) ==
  /\ relay[p] # NoBatch /\ Fault /\ relay' = [relay EXCEPT ![p] = NoBatch]
  /\ UNCHANGED <<callVars, outbox, submitted>>

BackendNext ==
  \/ \E r \in Reports :
       \/ Search(r) \/ SearchResolved(r) \/ Merge(r) \/ Create(r) \/ Emit(r)
       \/ CommitReport(r) \/ Fails(r)
       \/ \E c \in Reports : LockRow(r, c)
  \/ \E c \in Reports, s \in Standings : Move(c, s)
  \/ \E p \in Replicas :
       \/ MarkSent(p) \/ MarkFailed(p) \/ Dies(p)
       \/ \E c \in Reports : Publish(p, c)
       \/ \E rows \in SUBSET Reports : ClaimPendingEvents(p, rows)

BackendSpec == BackendInit /\ [][BackendNext]_backendVars

-----------------------------------------------------------------------------
(* Properties.                                                             *)

\* A report is filed beside another of the same damage only if it searched before
\* that one's COMMIT, or the other was settled while it was being filed.
DuplicatesOverlap ==
  \A r, s \in Filed :
    r # s /\ TypeOf[r] = TypeOf[s] /\ s \in known[r] => s \in inactive[r]

\* No escalation is committed without its event, which is published first; an
\* event of an escalation that did not come about has a fault to account for it.
EscalationsAreAnnounced ==
  /\ escalated \subseteq notified
  /\ Cardinality({r \in notified \ escalated : Is(r, "over")}) <= faults

\* The outbox row is the transaction's: what is published was filed, and what is
\* SENT was published.
SubmittedIsFiled ==
  /\ submitted \subseteq Filed
  /\ \A c \in Reports : outbox[c] = "SENT" => c \in submitted

\* A row that no relay will ever publish, IN_FLIGHT and in no batch, was lost in
\* a fault, and a fault loses one batch at most.
StrandedByFaults == Cardinality(Stranded) <= BatchSize * faults

BackendInvariant ==
  /\ BackendTypeOK /\ DuplicatesOverlap /\ EscalationsAreAnnounced
  /\ SubmittedIsFiled /\ StrandedByFaults
=============================================================================
