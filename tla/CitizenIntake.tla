--------------------------- MODULE CitizenIntake ---------------------------
(***************************************************************************)
(* How citizens' reports become complaints: POST /complaints of the portal *)
(* (routes/complaints.ts), which takes an advisory lock per road, damage   *)
(* and rounded cell, and POST /citizen/complaints (routes/citizen.ts),     *)
(* which takes none.  Both search the road for a complaint to merge into,  *)
(* lock its row, and commit; the portal then inserts the event, and both   *)
(* the SLA row, in statements of their own.  All reports are of one road.  *)
(* A complaint is known by the report that created it.  Postgres runs at   *)
(* READ COMMITTED: a row found is looked at again once it is locked.       *)
(* Keys and claims are ComplaintFiling's; karma, analytics, audit rows and *)
(* notifications write nothing that is read here.                          *)
(***************************************************************************)
EXTENDS Naturals, FiniteSets

CONSTANTS
  Reports,        (* requests, each made once                              *)
  PortalReports,  (* those made through the portal                         *)
  TypeOf,         (* TypeOf[r]: the damage type reported                   *)
  CellOf,         (* CellOf[r]: the rounded cell reported from             *)
  Unlocked,
  MaxMoves,       (* bound on status changes by the other routes           *)
  MaxMishaps      (* bound on failing statements and dying requests        *)

ASSUME IntakeAssumption ==
  /\ IsFiniteSet(Reports) /\ PortalReports \subseteq Reports /\ Unlocked \notin Reports
  /\ MaxMoves \in Nat /\ MaxMishaps \in Nat

VARIABLES
  standing,       (* standing[c]: complaints.status, "none" before COMMIT  *)
  reportCount,    (* reportCount[c]                                        *)
  cellLock,       (* cellLock[k]: the report holding the advisory lock     *)
  rowLock,        (* rowLock[c]: the report holding the row                *)
  report,         (* report[r]: where r is                                 *)
  submitted,      (* complaints with their event in the outbox             *)
  tracked,        (* complaints with a row in sla_tracking                 *)
  passedOver,     (* passedOver[r]: complaints r found, none of them active *)
  moves, mishaps

lockVars == <<cellLock, rowLock>>
intakeVars == <<standing, reportCount, lockVars, report, submitted, tracked, passedOver,
                moves, mishaps>>

Filed == {c \in Reports : standing[c] # "none"}
OfType(r) == {c \in Filed : TypeOf[c] = TypeOf[r]}
Keys == {<<TypeOf[r], CellOf[r]>> : r \in Reports}

Standings == {"OPEN", "FILED", "IN_PROGRESS", "ESCALATED", "RESOLUTION_SUBMITTED", "RESOLVED"}

IntakeTypeOK ==
  /\ standing \in [Reports -> Standings \cup {"none"}] /\ reportCount \in [Reports -> Nat]
  /\ cellLock \in [Keys -> Reports \cup {Unlocked}]
  /\ rowLock \in [Reports -> Reports \cup {Unlocked}]
  /\ report \in [Reports -> [found : SUBSET Reports, target : Reports,
       was : Standings \cup {"none"}, pc : {"new", "search", "active", "resolved", "write",
                                            "publish", "track", "photo", "answered", "failed"}]]
  /\ submitted \subseteq Filed /\ tracked \subseteq Filed
  /\ passedOver \in [Reports -> SUBSET Reports]
  /\ moves \in 0..MaxMoves /\ mishaps \in 0..MaxMishaps

IntakeInit ==
  /\ standing = [c \in Reports |-> "none"] /\ reportCount = [c \in Reports |-> 0]
  /\ cellLock = [k \in Keys |-> Unlocked] /\ rowLock = [c \in Reports |-> Unlocked]
  /\ report = [r \in Reports |-> [pc |-> IF r \in PortalReports THEN "new" ELSE "search",
                                  found |-> {}, target |-> r, was |-> "none"]]
  /\ submitted = {} /\ tracked = {} /\ passedOver = [r \in Reports |-> {}]
  /\ moves = 0 /\ mishaps = 0

Is(r, pc) == report[r].pc = pc
ByPortal(r) == r \in PortalReports
Mishap == mishaps < MaxMishaps /\ mishaps' = mishaps + 1

\* The WHERE of the first search.  The portal also asks for 'INPROGRESS', which
\* nothing writes; the citizen route takes any damage on the road.
Active(r, c) == standing[c] \in {"OPEN", "ESCALATED"}
Matches(r, c) ==
  IF ByPortal(r) THEN c \in OfType(r) /\ Active(r, c)
  ELSE c \in Filed /\ standing[c] # "RESOLVED"

\* The WHERE of the portal's second search.
Recurs(r, c) == c \in OfType(r) /\ standing[c] \in {"RESOLVED", "RESOLUTION_SUBMITTED"}

-----------------------------------------------------------------------------
(* The transaction.                                                        *)

Key(r) == <<TypeOf[r], CellOf[r]>>

FreeMutant(r) == TRUE
Free(r) == cellLock[Key(r)] = Unlocked

\* pg_advisory_xact_lock
LockCell(r) ==
  /\ Is(r, "new") /\ Free(r)
  /\ cellLock' = [cellLock EXCEPT ![Key(r)] = r]
  /\ report' = [report EXCEPT ![r].pc = "search"]
  /\ UNCHANGED <<standing, reportCount, rowLock, submitted, tracked, passedOver, moves, mishaps>>

Search(r) ==
  /\ Is(r, "search")
  /\ LET found == {c \in Reports : Matches(r, c)} IN
       /\ report' = [report EXCEPT ![r].pc = "active", ![r].found = found]
       /\ passedOver' = [passedOver EXCEPT ![r] = OfType(r) \ found]
  /\ UNCHANGED <<standing, reportCount, lockVars, submitted, tracked, moves, mishaps>>

\* FOR UPDATE
TakeMutant(r, c) == rowLock
Take(r, c) == [rowLock EXCEPT ![c] = r]

\* The row found, once it is free, if it still matches.
LockRow(r, c) ==
  /\ Is(r, "active") /\ c \in report[r].found /\ rowLock[c] = Unlocked
  /\ IF Matches(r, c)
     THEN /\ rowLock' = Take(r, c)
          /\ report' = [report EXCEPT ![r].pc = "write", ![r].target = c,
                                      ![r].was = standing[c]]
          /\ UNCHANGED passedOver
     ELSE /\ report' = [report EXCEPT ![r].found = @ \ {c}]
          /\ passedOver' = [passedOver EXCEPT ![r] = @ \cup {c}]
          /\ UNCHANGED rowLock
  /\ UNCHANGED <<standing, reportCount, cellLock, submitted, tracked, moves, mishaps>>

\* The portal then looks for a repair that did not last.
SearchResolved(r) ==
  /\ Is(r, "active") /\ report[r].found = {}
  /\ report' = [report EXCEPT ![r].pc = IF ByPortal(r) THEN "resolved" ELSE "write",
       ![r].found = IF ByPortal(r) THEN {c \in Reports : Recurs(r, c)} ELSE {}]
  /\ UNCHANGED <<standing, reportCount, lockVars, submitted, tracked, passedOver, moves, mishaps>>

LockResolved(r, c) ==
  /\ Is(r, "resolved") /\ c \in report[r].found /\ rowLock[c] = Unlocked
  /\ rowLock' = IF Recurs(r, c) THEN Take(r, c) ELSE rowLock
  /\ report' = [report EXCEPT ![r].found = @ \ {c}]
  /\ UNCHANGED <<standing, reportCount, cellLock, submitted, tracked, passedOver, moves, mishaps>>

\* One of the locked rows, if one is within a hundred metres, or a new one.
Choose(r, c) ==
  /\ Is(r, "resolved") /\ report[r].found = {} /\ (c = r \/ rowLock[c] = r)
  /\ report' = [report EXCEPT ![r].pc = "write", ![r].target = c, ![r].was = standing[c]]
  /\ UNCHANGED <<standing, reportCount, lockVars, submitted, tracked, passedOver, moves, mishaps>>

Unlock(r) ==
  /\ cellLock' = [k \in Keys |-> IF cellLock[k] = r THEN Unlocked ELSE cellLock[k]]
  /\ rowLock' = [c \in Reports |-> IF rowLock[c] = r THEN Unlocked ELSE rowLock[c]]

Creates(r) == report[r].target = r

\* With a photo the citizen route ends between its COMMIT and its SLA row: it
\* answers 409 when the picture is known, or else fails at an audit INSERT, whose id
\* stands unquoted in the text.
AfterInsert(r, photo) == IF ByPortal(r) THEN "publish" ELSE IF photo THEN "photo" ELSE "track"

\* The citizen route's event is in the transaction.
Insert(r, photo) ==
  /\ Is(r, "write") /\ Creates(r) /\ (photo => ~ByPortal(r)) /\ Unlock(r)
  /\ standing' = [standing EXCEPT ![r] = IF ByPortal(r) THEN "OPEN" ELSE "FILED"]
  /\ reportCount' = [reportCount EXCEPT ![r] = 1]
  /\ submitted' = IF ByPortal(r) THEN submitted ELSE submitted \cup {r}
  /\ report' = [report EXCEPT ![r].pc = AfterInsert(r, photo)]
  /\ UNCHANGED <<tracked, passedOver, moves, mishaps>>

\* Merged: the portal writes the status back as it read it, or escalates, as the
\* complaint's age has it.  The citizen route fails after its COMMIT, if not at the
\* picture then at its last audit INSERT, which Postgres refuses for the same id.
Merge(r, escalates) ==
  /\ Is(r, "write") /\ ~Creates(r) /\ (escalates => ByPortal(r)) /\ Unlock(r)
  /\ LET c == report[r].target IN
       /\ reportCount' = [reportCount EXCEPT ![c] = @ + 1]
       /\ standing' = IF ~ByPortal(r) THEN standing
            ELSE [standing EXCEPT ![c] = IF escalates THEN "ESCALATED" ELSE report[r].was]
  /\ report' = [report EXCEPT ![r].pc =
       IF escalates THEN "track" ELSE IF ByPortal(r) THEN "answered" ELSE "failed"]
  /\ UNCHANGED <<submitted, tracked, passedOver, moves, mishaps>>

Rollback(r) ==
  /\ report[r].pc \in {"search", "active", "resolved", "write"} /\ Mishap /\ Unlock(r)
  /\ report' = [report EXCEPT ![r].pc = "failed"]
  /\ UNCHANGED <<standing, reportCount, submitted, tracked, passedOver, moves>>

-----------------------------------------------------------------------------
(* After COMMIT.                                                           *)

\* .catch(() => null)
Publish(r) ==
  /\ Is(r, "publish") /\ report' = [report EXCEPT ![r].pc = "track"]
  /\ \/ submitted' = submitted \cup {r} /\ UNCHANGED mishaps
     \/ Mishap /\ UNCHANGED submitted
  /\ UNCHANGED <<standing, reportCount, lockVars, tracked, passedOver, moves>>

\* ensureSlaTracking; the citizen route fails all the same.
Track(r) ==
  /\ Is(r, "track") /\ tracked' = tracked \cup {report[r].target}
  /\ report' = [report EXCEPT ![r].pc = IF ByPortal(r) THEN "answered" ELSE "failed"]
  /\ UNCHANGED <<standing, reportCount, lockVars, submitted, passedOver, moves, mishaps>>

Dies(r) ==
  /\ report[r].pc \in {"publish", "track"} /\ Mishap
  /\ report' = [report EXCEPT ![r].pc = "failed"]
  /\ UNCHANGED <<standing, reportCount, lockVars, submitted, tracked, passedOver, moves>>

\* The other routes and the scheduler (ComplaintLifecycle).
Move(c, s) ==
  /\ c \in Filed /\ rowLock[c] = Unlocked /\ s # standing[c]
  /\ moves < MaxMoves /\ moves' = moves + 1
  /\ standing' = [standing EXCEPT ![c] = s]
  /\ UNCHANGED <<reportCount, lockVars, report, submitted, tracked, passedOver, mishaps>>

IntakeNext ==
  \/ \E r \in Reports :
       \/ LockCell(r) \/ Search(r) \/ SearchResolved(r) \/ Rollback(r)
       \/ Publish(r) \/ Track(r) \/ Dies(r)
       \/ \E photo \in BOOLEAN : Insert(r, photo)
       \/ \E escalates \in BOOLEAN : Merge(r, escalates)
       \/ \E c \in Reports : LockRow(r, c) \/ LockResolved(r, c) \/ Choose(r, c)
  \/ \E c \in Reports, s \in Standings \ {"OPEN", "FILED"} : Move(c, s)

IntakeSpec == IntakeInit /\ [][IntakeNext]_intakeVars

-----------------------------------------------------------------------------
(* Properties.                                                             *)

\* Of two complaints that the portal created of one damage in one cell, the later
\* knew the earlier, which was not active any more: the advisory lock covers the
\* search and the COMMIT.
DuplicatesWereClosed ==
  \A r, s \in Filed \cap PortalReports :
    r # s /\ Key(r) = Key(s) => s \in passedOver[r] \/ r \in passedOver[s]

\* A complaint without an event, or without an SLA row, its report being over, has
\* a failed statement or a death of its own to account for it.  The citizen route's
\* photos are the exception: they cost the SLA row with nothing gone wrong, though
\* never the event, which is in the transaction.
LossesAreFailures ==
  Cardinality({c \in Filed :
    \/ report[c].pc \in {"answered", "failed"} /\ ~(c \in submitted /\ c \in tracked)
    \/ report[c].pc = "photo" /\ c \notin submitted}) <= mishaps

IntakeInvariant == IntakeTypeOK /\ DuplicatesWereClosed /\ LossesAreFailures

\* A report that is merged writes the status back without undoing what another
\* route has done since the search: it changes nothing but to ESCALATED.
ReportsOnlyEscalate ==
  [][\A c \in Filed : standing'[c] \in {standing[c], "ESCALATED"} \/ moves' # moves]_intakeVars
=============================================================================
