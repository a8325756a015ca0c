--------------------------- MODULE ComplaintLedger ---------------------------
(***************************************************************************)
(* One complaint on the ledger: the complaint chaincode that is deployed   *)
(* (fabric/chaincode/complaint-anchor/contract.js) and the client through  *)
(* which the anchor consumer submits the events of its two topics.         *)
(*                                                                         *)
(* A transaction is endorsed against the ledger as it is, and commits only *)
(* if what it read still stands.  The client's deadline may pass between   *)
(* the two: the consumer then takes for failed what commits later.  When a *)
(* call fails, the consumer starts over with the events it has not settled *)
(* and may give up the oldest of them (dead letter).  A proposal that is   *)
(* not endorsed within its deadline is not endorsed at all.                *)
(***************************************************************************)
EXTENDS Naturals, Sequences, SequencesExt

CONSTANTS
  Events,        (* per kind, the events in the order of their topic: ids  *)
  ReportsOf,     (* ReportsOf[e]: report count a submission carries, at least 1 *)
  MaxEndorsed    (* bound on the transactions endorsed                     *)

Kinds == {"submission", "status"}
EventIds == UNION {Range(Events[kind]) : kind \in Kinds}

ASSUME LedgerAssumption ==
  /\ Events \in [Kinds -> Seq(EventIds)] /\ MaxEndorsed \in Nat
  /\ \A kind \in Kinds : IsInjective(Events[kind])
  /\ Range(Events["submission"]) \cap Range(Events["status"]) = {}
  /\ ReportsOf \in [Range(Events["submission"]) -> Nat \ {0}]

VARIABLES
  complaint,     (* the complaint's record; its version counts its writes  *)
  applied,       (* the writing events in ledger order (GetComplaintHistory) *)
  claimed,       (* event ids with an EVENT key                            *)
  endorsed,      (* transactions endorsed, neither committed nor invalid   *)
  endorsements,  (* how many transactions were endorsed                    *)
  awaited,       (* the transaction the consumer waits for                 *)
  next,          (* next[kind]: event the flush submits next               *)
  settled        (* settled[kind]: events done or given up, the first ones *)

ledgerVars ==
  <<complaint, applied, claimed, endorsed, endorsements, awaited, next, settled>>

None == [version |-> 0, status |-> "none", reports |-> 0]
Idle == 0

LedgerTypeOK ==
  /\ complaint \in [version : Nat, status : {"none", "FILED"} \cup EventIds, reports : Nat]
  /\ applied \in Seq(EventIds) /\ claimed \subseteq EventIds
  /\ endorsed \subseteq [id : 1..MaxEndorsed, event : EventIds, kind : Kinds,
                         read : Nat, noop : BOOLEAN]
  /\ endorsements \in 0..MaxEndorsed /\ awaited \in 0..MaxEndorsed
  /\ next \in [Kinds -> Nat] /\ settled \in [Kinds -> Nat]
  /\ \A kind \in Kinds :
       next[kind] \in 1..Len(Events[kind]) + 1 /\ settled[kind] \in 0..next[kind] - 1

LedgerInit ==
  /\ complaint = None /\ applied = <<>> /\ claimed = {} /\ endorsed = {}
  /\ endorsements = 0 /\ awaited = Idle
  /\ next = [kind \in Kinds |-> 1] /\ settled = [kind \in Kinds |-> 0]

-----------------------------------------------------------------------------
(* The chaincode.                                                          *)

Pending(kind) == next[kind] <= Len(Events[kind])
NextEvent(kind) == Events[kind][next[kind]]

\* claimEvent: FALSE when the event has been written before.
ClaimMutant(e) == TRUE
ClaimEvent(e) == e \notin claimed

\* What a submission that is claimed leaves of the record.
UpsertComplaintSubmission(e) ==
  IF complaint.version = 0
    THEN [version |-> 1, status |-> "FILED", reports |-> ReportsOf[e]]
    ELSE [complaint EXCEPT !.version = @ + 1, !.reports = ReportsOf[e]]

\* Any status of the right shape overwrites the one before (the event's id
\* stands for the status it sets).
UpdateComplaintStatus(e) == [complaint EXCEPT !.version = @ + 1, !.status = e]

\* A status for a complaint the ledger does not have is refused, and its claim
\* goes with the transaction.
Refuses(kind, e) == kind = "status" /\ ClaimEvent(e) /\ complaint.version = 0

\* The EVENT key and the record, as read at endorsement.
StillRead(tx) == tx.noop \/ (ClaimEvent(tx.event) /\ tx.read = complaint.version)

-----------------------------------------------------------------------------
(* The consumer's calls.                                                   *)

\* proposal.endorse and endorsed.submit of createComplaint, updateComplaintStatus.
Submit(kind) ==
  /\ awaited = Idle /\ Pending(kind) /\ endorsements < MaxEndorsed
  /\ ~Refuses(kind, NextEvent(kind))
  /\ endorsements' = endorsements + 1 /\ awaited' = endorsements + 1
  /\ endorsed' = endorsed \cup
       {[id |-> endorsements + 1, event |-> NextEvent(kind), kind |-> kind,
         read |-> complaint.version, noop |-> ~ClaimEvent(NextEvent(kind))]}
  /\ UNCHANGED <<complaint, applied, claimed, next, settled>>

\* The flush throws: it will start over, and what it may give up of each topic
\* are the oldest events, which have failed the most.
GiveUp ==
  /\ \E upTo \in [Kinds -> 0..Len(Events["submission"]) + Len(Events["status"])] :
       /\ \A kind \in Kinds : upTo[kind] \in settled[kind]..Len(Events[kind])
       /\ settled' = upTo
       /\ next' = [kind \in Kinds |-> upTo[kind] + 1]
  /\ awaited' = Idle

\* submitted.getStatus returns that the transaction has committed.
CommitTx(tx) ==
  /\ StillRead(tx) /\ endorsed' = endorsed \ {tx}
  /\ IF tx.noop THEN UNCHANGED <<complaint, applied, claimed>>
     ELSE /\ complaint' = IF tx.kind = "submission" THEN UpsertComplaintSubmission(tx.event)
                                                   ELSE UpdateComplaintStatus(tx.event)
          /\ applied' = Append(applied, tx.event)
          /\ claimed' = claimed \cup {tx.event}
  /\ IF awaited = tx.id
       THEN awaited' = Idle /\ next' = [next EXCEPT ![tx.kind] = @ + 1]
       ELSE UNCHANGED <<awaited, next>>
  /\ UNCHANGED <<endorsements, settled>>

\* Somebody else's write came first: the transaction is marked invalid, and the
\* consumer that waits for it throws.
InvalidateTx(tx) ==
  /\ ~StillRead(tx) /\ endorsed' = endorsed \ {tx}
  /\ IF awaited = tx.id THEN GiveUp ELSE UNCHANGED <<awaited, next, settled>>
  /\ UNCHANGED <<complaint, applied, claimed, endorsements>>

\* The orderer drops a transaction.
LoseTx(tx) ==
  /\ endorsed' = endorsed \ {tx}
  /\ UNCHANGED <<complaint, applied, claimed, endorsements, awaited, next, settled>>

\* A deadline, a refused proposal, a failed SubmitMerkleRoot at the end of the
\* flush, or the consumer's death: what was endorsed may commit all the same.
CallFails ==
  /\ \/ awaited # Idle
     \/ \E kind \in Kinds :
          \/ Pending(kind) /\ Refuses(kind, NextEvent(kind))
          \/ settled[kind] < next[kind] - 1
  /\ GiveUp
  /\ UNCHANGED <<complaint, applied, claimed, endorsed, endorsements>>

\* markProcessed for all that was submitted, and the offsets.
FlushEnds ==
  /\ awaited = Idle /\ settled # [kind \in Kinds |-> next[kind] - 1]
  /\ settled' = [kind \in Kinds |-> next[kind] - 1]
  /\ UNCHANGED <<complaint, applied, claimed, endorsed, endorsements, awaited, next>>

LedgerNext ==
  \/ \E kind \in Kinds : Submit(kind)
  \/ \E tx \in endorsed : CommitTx(tx) \/ InvalidateTx(tx) \/ LoseTx(tx)
  \/ CallFails
  \/ FlushEnds

LedgerSpec == LedgerInit /\ [][LedgerNext]_ledgerVars

-----------------------------------------------------------------------------
(* Properties.                                                             *)

Of(kind, e) == e \in Range(Events[kind])
Place(kind, e) == CHOOSE i \in DOMAIN Events[kind] : Events[kind][i] = e

\* However often events are delivered and whenever late transactions commit, an
\* event is applied at most once and never after a later one of its topic: a
\* report count is not inflated and neither count nor status goes back.
AppliedInOrder ==
  \A kind \in Kinds : \A i, j \in DOMAIN applied :
    i < j /\ Of(kind, applied[i]) /\ Of(kind, applied[j])
      => Place(kind, applied[i]) < Place(kind, applied[j])

\* e is the last event of its kind that was applied.
Latest(kind, e) ==
  \E i \in DOMAIN applied :
    /\ applied[i] = e /\ Of(kind, e)
    /\ \A j \in DOMAIN applied : Of(kind, applied[j]) => j <= i

\* The record says what the last event of each kind said, and the version is
\* the length of its history.
RecordFollowsHistory ==
  /\ complaint.version = Len(applied)
  /\ applied # <<>> => Of("submission", applied[1])
  /\ \A e \in EventIds :
       /\ Latest("submission", e) => complaint.reports = ReportsOf[e]
       /\ Latest("status", e) => complaint.status = e
  /\ (\A i \in DOMAIN applied : ~Of("status", applied[i]))
       => complaint.status = IF applied = <<>> THEN "none" ELSE "FILED"

\* What a flush counts as anchored is on the ledger, so that an event that is
\* settled and not on it was given up for dead.
SubmittedIsClaimed ==
  \A kind \in Kinds : \A i \in settled[kind] + 1..next[kind] - 1 :
    Events[kind][i] \in claimed

LedgerInvariant ==
  LedgerTypeOK /\ AppliedInOrder /\ RecordFollowsHistory /\ SubmittedIsClaimed
=============================================================================
