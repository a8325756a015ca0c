------------------------ MODULE ComplaintFilingProofs ------------------------
(***************************************************************************)
(* Proofs about ComplaintFiling for every set of clients, keys and         *)
(* payloads, every MERGE_SCAN_ATTEMPTS and any number of failures,         *)
(* process deaths and complaints resolved meanwhile.                       *)
(***************************************************************************)
EXTENDS ComplaintFiling, TLAPS

-----------------------------------------------------------------------------
(* The parts of TypeOK, each of which most steps leave alone.              *)

Row(n) == [state : {"none", "claimed", "stored"}, hash : Hashes \cup {""},
           stale : BOOLEAN, body : 0..n]

ClaimType ==
  /\ claim \in [Keys -> Row(Len(complaints))]
  /\ \A k \in Keys : claim[k].state = "stored" <=> claim[k].body # 0

Complaint == [open : BOOLEAN, count : Nat \ {0}]

ComplaintType ==
  /\ complaints \in Seq(Complaint)
  /\ lock \in [Ids -> Clients \cup {NoOne}]

LockType ==
  \A i \in Ids : lock[i] \in Clients => pc[lock[i]] = "write" /\ target[lock[i]] = i

RequestType ==
  /\ pc \in [Clients -> Places]
  /\ target \in [Clients -> 0..Len(complaints)] /\ filed \in [Clients -> 0..Len(complaints)]
  /\ tries \in [Clients -> 0..ScanAttempts]
  /\ answer \in [Clients -> [code : Codes, id : 0..Len(complaints)]]

CountType ==
  /\ reports \in [Keys -> Nat]
  /\ txErrors \in 0..MaxTxErrors /\ lateErrors \in 0..MaxLateErrors
  /\ crashes \in 0..MaxCrashes /\ closes \in 0..MaxCloses

LEMMA TypeParts ==
  TypeOK <=> ClaimType /\ ComplaintType /\ LockType /\ RequestType /\ CountType
  BY DEF TypeOK, ClaimType, Row, Complaint, ComplaintType, LockType, RequestType, CountType

LEMMA TypePartsNext ==
  ClaimType' /\ ComplaintType' /\ LockType' /\ RequestType' /\ CountType' => TypeOK'
  BY DEF TypeOK, ClaimType, Row, Complaint, ComplaintType, LockType, RequestType, CountType

LEMMA CodeFacts == \A c \in Clients : KeyOf[c] \in Keys /\ HashOf[c] \in Hashes
  BY DEF Keys, Hashes

LEMMA AttemptsLeft == ScanAttempts \in Nat /\ 0 < ScanAttempts
  BY FilingAssumption

LEMMA LenNat == TypeOK => Len(complaints) \in Nat
<1> HAVE TypeOK
<1>1. complaints \in Seq(Complaint)
  BY TypeParts DEF ComplaintType
<1> QED BY <1>1

-----------------------------------------------------------------------------
(* Effects the steps are made of.                                          *)

\* An UPDATE of one claim row.
LEMMA RowWritten ==
  ASSUME TypeOK, NEW k \in Keys, NEW row \in Row(Len(complaints)),
         row.state = "stored" <=> row.body # 0,
         claim' = [claim EXCEPT ![k] = row], UNCHANGED complaints
  PROVE  ClaimType'
<1>1. claim \in [Keys -> Row(Len(complaints))]
  BY DEF TypeOK, Row
<1>2. claim' \in [Keys -> Row(Len(complaints))]
  BY <1>1
<1>3. \A j \in Keys : claim'[j].state = "stored" <=> claim'[j].body # 0
  BY <1>1 DEF TypeOK
<1> QED BY <1>2, <1>3 DEF ClaimType

\* A request that moves on, without an answer.
LEMMA MoveType ==
  ASSUME TypeOK, NEW c \in Clients, NEW place \in Places, Goto(c, place),
         UNCHANGED <<complaints, target, tries, filed, answer>>
  PROVE  RequestType'
  BY DEF TypeOK, Goto, RequestType, Codes, Places

\* A request that ends with an answer.
LEMMA AnswerType ==
  ASSUME TypeOK, NEW c \in Clients, NEW code \in Codes, NEW id \in 0..Len(complaints),
         Answer(c, code, id), UNCHANGED complaints
  PROVE  RequestType'
<1>1. pc' \in [Clients -> Places]
  BY DEF TypeOK, Answer, Goto, Places
<1>2. 0 \in 0..Len(complaints) /\ 0 \in 0..ScanAttempts
  BY LenNat, FilingAssumption
<1>3. /\ target' \in [Clients -> 0..Len(complaints)] /\ filed' \in [Clients -> 0..Len(complaints)]
      /\ tries' \in [Clients -> 0..ScanAttempts]
  BY <1>2 DEF TypeOK, Answer
<1>4. answer' \in [Clients -> [code : Codes, id : 0..Len(complaints)]]
  BY DEF TypeOK, Answer
<1> QED BY <1>1, <1>3, <1>4 DEF RequestType, Codes, Places

\* A request that is not in a transaction holds no lock, wherever it goes.
LEMMA LocksKept ==
  ASSUME TypeOK, NEW c \in Clients, pc[c] # "write", UNCHANGED <<complaints, lock>>,
         \A d \in Clients \ {c} : pc'[d] = pc[d] /\ target'[d] = target[d]
  PROVE  LockType'
  BY DEF TypeOK, LockType, Ids

\* The end of a transaction drops its locks.
LEMMA LocksDropped ==
  ASSUME TypeOK, NEW c \in Clients, lock' = Unlock(c), UNCHANGED complaints,
         \A d \in Clients \ {c} : pc'[d] = pc[d] /\ target'[d] = target[d]
  PROVE  LockType' /\ ComplaintType'
  BY TypeParts, FilingAssumption DEF LockType, ComplaintType, Ids, Unlock

\* Nothing but the request's own variables and the claim table moves.
LEMMA SameComplaints ==
  ASSUME TypeOK, UNCHANGED <<complaints, lock>>
  PROVE  ComplaintType'
  BY TypeParts DEF ComplaintType, Ids

LEMMA SameClaim ==
  ASSUME TypeOK, UNCHANGED <<claim, complaints>>
  PROVE  ClaimType'
  BY DEF TypeOK, ClaimType, Row

\* COMMIT, whether its answer arrives or not.
LEMMA CommitType ==
  ASSUME TypeOK, NEW c \in Clients, pc[c] = "write", CommitEffect(c),
         NEW place \in {"store", "release"}, Goto(c, place),
         UNCHANGED <<claim, target, tries, answer>>
  PROVE  ClaimType' /\ ComplaintType' /\ LockType' /\ RequestType' /\ reports' \in [Keys -> Nat]
<1> DEFINE n == Len(complaints)
<1>0. n \in Nat
  BY LenNat
<1>1. reports' \in [Keys -> Nat]
  <2>1. reports \in [Keys -> Nat]
    BY TypeParts DEF CountType
  <2>2. reports' = [reports EXCEPT ![KeyOf[c]] = @ + 1]
    BY DEF CommitEffect
  <2> QED BY <2>1, <2>2, CodeFacts
<1>2. pc' = [pc EXCEPT ![c] = place] /\ pc' \in [Clients -> Places]
  BY DEF TypeOK, Goto, Places
<1>2a. complaints \in Seq(Complaint)
  BY TypeParts DEF ComplaintType
<1>2b. lock \in [1..n -> Clients \cup {NoOne}]
  BY TypeParts DEF ComplaintType, Ids
<1>2c. filed \in [Clients -> 0..n]
  BY TypeParts DEF RequestType
<1>3. target[c] \in 0..n
  BY DEF TypeOK
<1>4. CASE target[c] # 0
  <2>1. target[c] \in 1..n
    BY <1>0, <1>3, <1>4
  <2>2. complaints' = [complaints EXCEPT ![target[c]].count = @ + 1]
    BY <1>4 DEF CommitEffect
  <2>3. complaints' \in Seq(Complaint) /\ Len(complaints') = n
    <3>1. complaints[target[c]] \in Complaint
      BY <1>2a, <2>1
    <3>2. [complaints[target[c]] EXCEPT !.count = @ + 1] \in Complaint
      BY <3>1 DEF Complaint
    <3>3. complaints' = [complaints EXCEPT ![target[c]] = [complaints[target[c]] EXCEPT !.count = @ + 1]]
      BY <2>2
    <3> QED BY <1>2a, <2>1, <3>2, <3>3
  <2>4. filed' \in [Clients -> 0..n]
    BY <1>3, <1>4 DEF TypeOK, CommitEffect
  <2>5. lock' = Unlock(c)
    BY <1>4 DEF CommitEffect
  <2>6. lock' \in [1..n -> Clients \cup {NoOne}]
    BY <1>2b, <2>5 DEF Unlock
  <2>7. \A i \in 1..n : lock'[i] \in Clients => lock'[i] # c /\ lock'[i] = lock[i]
    BY <2>5, FilingAssumption DEF TypeOK, Unlock, Ids
  <2>8. LockType'
    BY <1>2, <2>3, <2>7 DEF TypeOK, LockType, Ids
  <2>9. RequestType'
    BY <1>2, <2>3, <2>4 DEF TypeOK, RequestType
  <2>10. ClaimType'
    BY <2>3 DEF TypeOK, ClaimType, Row
  <2> QED BY <1>1, <2>3, <2>6, <2>8, <2>9, <2>10 DEF ComplaintType, Ids
<1>5. CASE target[c] = 0
  <2>1. complaints' = Append(complaints, [open |-> TRUE, count |-> 1]) /\ lock' = Append(lock, NoOne)
    BY <1>5 DEF CommitEffect
  <2>2. complaints' \in Seq(Complaint) /\ Len(complaints') = n + 1
    <3>1. [open |-> TRUE, count |-> 1] \in Complaint
      BY DEF Complaint
    <3> QED BY <1>2a, <2>1, <3>1
  <2>3. filed' \in [Clients -> 0..n + 1]
    <3>1. filed' = [filed EXCEPT ![c] = n + 1]
      BY <1>5 DEF CommitEffect
    <3> QED BY <1>0, <1>2c, <3>1
  <2>4. lock \in Seq(Clients \cup {NoOne}) /\ Len(lock) = n
    BY <1>0, <1>2b
  <2>5. lock' \in Seq(Clients \cup {NoOne}) /\ Len(lock') = n + 1
    BY <2>1, <2>4
  <2>6. lock' \in [1..n + 1 -> Clients \cup {NoOne}]
    BY <2>5
  <2>7. \A i \in 1..n + 1 : lock'[i] \in Clients => i \in 1..n /\ lock'[i] = lock[i]
    BY <1>0, <2>1, <2>4, FilingAssumption
  <2>8. \A i \in 1..n : lock[i] # c
    <3>1. \A i \in 1..n : lock[i] = c => target[c] = i
      BY TypeParts DEF LockType, Ids
    <3> QED BY <1>0, <1>5, <3>1
  <2>9. LockType'
    BY <1>2, <2>2, <2>7, <2>8 DEF TypeOK, LockType, Ids
  <2>10. 0..n \subseteq 0..n + 1
    BY <1>0
  <2>11. RequestType'
    <3>1. answer \in [Clients -> [code : Codes, id : 0..n + 1]]
      BY <2>10 DEF TypeOK
    <3>2. target \in [Clients -> 0..n + 1]
      BY <2>10 DEF TypeOK
    <3> QED BY <1>2, <2>2, <2>3, <3>1, <3>2 DEF TypeOK, RequestType
  <2>12. ClaimType'
    <3>1. claim \in [Keys -> Row(n + 1)]
      BY <2>10 DEF TypeOK, Row
    <3> QED BY <2>2, <3>1 DEF TypeOK, ClaimType
  <2> QED BY <1>1, <2>2, <2>6, <2>9, <2>11, <2>12 DEF ComplaintType, Ids
<1> QED BY <1>4, <1>5

-----------------------------------------------------------------------------
(* TypeOK is kept by every step.                                           *)

\* A step of the claim: the claim table and the request's own variables move.
LEMMA ClaimStep ==
  ASSUME TypeOK, NEW c \in Clients, pc[c] # "write", ClaimType', RequestType',
         UNCHANGED <<complaints, lock>>, CountType',
         \A d \in Clients \ {c} : pc'[d] = pc[d] /\ target'[d] = target[d]
  PROVE  TypeOK'
<1>1. LockType'
  BY LocksKept
<1>2. ComplaintType'
  BY SameComplaints
<1> QED BY <1>1, <1>2, TypePartsNext

LEMMA MovesOnlyOne ==
  ASSUME TypeOK, NEW c \in Clients, NEW place, Goto(c, place)
  PROVE  \A d \in Clients \ {c} : pc'[d] = pc[d]
  BY DEF TypeOK, Goto

LEMMA AnswersOnlyOne ==
  ASSUME TypeOK, NEW c \in Clients, NEW code, NEW id, Answer(c, code, id)
  PROVE  \A d \in Clients \ {c} : pc'[d] = pc[d] /\ target'[d] = target[d]
  BY DEF TypeOK, Goto, Answer

LEMMA SameCounts ==
  ASSUME TypeOK, UNCHANGED <<reports, faultVars, closes>>
  PROVE  CountType'
  BY TypeParts DEF CountType, faultVars

LEMMA OneMoreTxError ==
  ASSUME TypeOK, TxError, UNCHANGED <<reports, closes>>
  PROVE  CountType'
  BY TypeParts, FilingAssumption DEF CountType, TxError

LEMMA OneMoreLateError ==
  ASSUME TypeOK, LateError, reports' \in [Keys -> Nat], UNCHANGED closes
  PROVE  CountType'
  BY TypeParts, FilingAssumption DEF CountType, LateError

LEMMA SendType == ASSUME TypeOK, NEW c \in Clients, Send(c) PROVE TypeOK'
<1> USE DEF Send
<1>1. RequestType'
  BY MoveType DEF Places
<1> QED BY <1>1, SameClaim, SameCounts, MovesOnlyOne, ClaimStep

LEMMA InsertType == ASSUME TypeOK, NEW c \in Clients, InsertClaim(c) PROVE TypeOK'
<1> USE DEF InsertClaim
<1>1. RequestType'
  BY MoveType DEF Places
<1>2. Taken(c) \in Row(Len(complaints)) /\ (Taken(c).state = "stored" <=> Taken(c).body # 0)
  <2>1. 0 \in 0..Len(complaints)
    BY LenNat
  <2> QED BY <2>1, CodeFacts DEF Taken, Row
<1>3. ClaimType'
  BY <1>2, CodeFacts, RowWritten, SameClaim
<1> QED BY <1>1, <1>3, SameCounts, MovesOnlyOne, ClaimStep

LEMMA SelectType == ASSUME TypeOK, NEW c \in Clients, SelectClaim(c) PROVE TypeOK'
<1>1. /\ pc[c] = "select" 
      /\ UNCHANGED <<claim, complaints, lock, reports, faultVars, closes>>
      /\ \/ \E code \in Codes, id \in 0..Len(complaints) : Answer(c, code, id)
         \/ Goto(c, "reclaim") /\ UNCHANGED <<target, tries, filed, answer>>
  <2>1. claim[KeyOf[c]].body \in 0..Len(complaints) /\ 0 \in 0..Len(complaints)
    <3>1. claim[KeyOf[c]] \in Row(Len(complaints))
      BY CodeFacts, TypeParts DEF ClaimType
    <3>2. claim[KeyOf[c]].body \in 0..Len(complaints)
      BY <3>1 DEF Row
    <3> QED BY <3>2, LenNat
  <2> QED BY <2>1 DEF SelectClaim, Codes
<1>2. CASE \E code \in Codes, id \in 0..Len(complaints) : Answer(c, code, id)
  BY <1>1, <1>2, AnswerType, AnswersOnlyOne, SameClaim, SameCounts, ClaimStep
<1>3. CASE Goto(c, "reclaim") /\ UNCHANGED <<target, tries, filed, answer>>
  <2>1. RequestType'
    BY <1>1, <1>3, MoveType DEF Places
  <2> QED BY <1>1, <1>3, <2>1, MovesOnlyOne, SameClaim, SameCounts, ClaimStep
<1> QED BY <1>1, <1>2, <1>3

LEMMA ReclaimType == ASSUME TypeOK, NEW c \in Clients, Reclaim(c) PROVE TypeOK'
<1> USE DEF Reclaim
<1>1. CASE claim[KeyOf[c]].state = "claimed" /\ claim[KeyOf[c]].stale
  <2> DEFINE row == [claim[KeyOf[c]] EXCEPT !.stale = FALSE]
  <2>1. claim' = [claim EXCEPT ![KeyOf[c]] = row]
    BY <1>1
  <2>2. row \in Row(Len(complaints)) /\ (row.state = "stored" <=> row.body # 0)
    BY CodeFacts, TypeParts DEF ClaimType, Row
  <2>3. ClaimType'
    BY <2>1, <2>2, CodeFacts, RowWritten
  <2>4. RequestType'
    BY <1>1, MoveType DEF Places
  <2> QED BY <1>1, <2>3, <2>4, SameCounts, MovesOnlyOne, ClaimStep
<1>2. CASE ~(claim[KeyOf[c]].state = "claimed" /\ claim[KeyOf[c]].stale)
  <2>1. RequestType'
    BY <1>2, LenNat, AnswerType DEF Codes
  <2> QED BY <1>2, <2>1, AnswersOnlyOne, SameClaim, SameCounts, ClaimStep
<1> QED BY <1>1, <1>2

LEMMA ScanType == ASSUME TypeOK, NEW c \in Clients, Scan(c) PROVE TypeOK'
<1>1. PICK i \in 0..Len(complaints), place \in {"lock", "write"} :
        target' = [target EXCEPT ![c] = i] /\ Goto(c, place)
  <2>1. Ids \subseteq 0..Len(complaints) /\ 0 \in 0..Len(complaints)
    BY LenNat DEF Ids
  <2> QED BY <2>1 DEF Scan
<1>2. RequestType'
  BY <1>1 DEF TypeOK, Scan, RequestType, Goto, Places
<1>3. \A d \in Clients \ {c} : pc'[d] = pc[d] /\ target'[d] = target[d]
  BY <1>1, MovesOnlyOne DEF TypeOK
<1> QED BY <1>2, <1>3, SameClaim, SameCounts, ClaimStep DEF Scan

LEMMA LockStepType ==
  ASSUME TypeOK, NEW c \in Clients, RequestKnows(c), Lock(c) PROVE TypeOK'
<1> USE DEF Lock
<1>1. ClaimType' /\ CountType'
  BY SameClaim, SameCounts
<1>2. CASE complaints[target[c]].open
  <2>1. RequestType'
    BY <1>2, MoveType DEF Places
  <2>2. pc' = [pc EXCEPT ![c] = "write"] /\ lock' = [lock EXCEPT ![target[c]] = c] /\ target' = target
    BY <1>2 DEF Goto
  <2>3. ComplaintType'
    BY <2>2, TypeParts DEF ComplaintType, Ids
  <2>4. LockType'
    BY <2>2, TypeParts, FilingAssumption DEF ComplaintType, RequestType, LockType, Ids
  <2> QED BY <1>1, <2>1, <2>3, <2>4, TypePartsNext
<1>3. CASE ~complaints[target[c]].open
  <2>1. tries[c] \in 0..ScanAttempts /\ tries[c] < ScanAttempts
    BY DEF TypeOK, RequestKnows
  <2>2. tries[c] + 1 \in 0..ScanAttempts /\ 0 \in 0..Len(complaints)
    BY <2>1, LenNat, FilingAssumption
  <2>3. PICK place \in {"scan", "release"} : Goto(c, place)
    BY <1>3
  <2>4. tries' = [tries EXCEPT ![c] = @ + 1] /\ target' = [target EXCEPT ![c] = 0]
    BY <1>3
  <2>5. RequestType'
    <3>1. tries' \in [Clients -> 0..ScanAttempts]
      BY <2>2, <2>4 DEF TypeOK
    <3>2. target' \in [Clients -> 0..Len(complaints)]
      BY <2>2, <2>4 DEF TypeOK
    <3>3. pc' \in [Clients -> Places]
      BY <2>3 DEF TypeOK, Goto, Places
    <3> QED BY <3>1, <3>2, <3>3 DEF TypeOK, RequestType
  <2>6. \A d \in Clients \ {c} : pc'[d] = pc[d] /\ target'[d] = target[d]
    BY <2>3, <2>4, MovesOnlyOne DEF TypeOK
  <2> QED BY <1>1, <1>3, <2>5, <2>6, ClaimStep
<1> QED BY <1>2, <1>3

LEMMA WriteType == ASSUME TypeOK, NEW c \in Clients, Write(c) PROVE TypeOK'
<1>1. CASE MayWrite(c)
  <2>1. ClaimType' /\ ComplaintType' /\ LockType' /\ RequestType' /\ reports' \in [Keys -> Nat]
    BY <1>1, CommitType DEF Write
  <2>2. CountType'
    BY <2>1, TypeParts DEF CountType, Write, faultVars
  <2> QED BY <2>1, <2>2, TypePartsNext
<1>2. CASE ~MayWrite(c)
  <2>1. Goto(c, "release") /\ UNCHANGED <<complaints, lock, target, tries, filed, answer>>
    BY <1>2 DEF Write
  <2>2. RequestType'
    BY <2>1, MoveType DEF Places
  <2>3. \A i \in Ids : lock[i] # c
    BY <1>2, LenNat, TypeParts DEF MayWrite, LockType, Ids
  <2>4. LockType'
    BY <2>1, <2>3, TypeParts, MovesOnlyOne DEF LockType, Ids
  <2>5. ClaimType' /\ ComplaintType' /\ CountType'
    BY <1>2, <2>1, SameClaim, SameComplaints, SameCounts DEF Write
  <2> QED BY <2>2, <2>4, <2>5, TypePartsNext
<1> QED BY <1>1, <1>2

LEMMA TxFailsType == ASSUME TypeOK, NEW c \in Clients, TxFails(c) PROVE TypeOK'
<1> USE DEF TxFails
<1>1. target' = [target EXCEPT ![c] = 0] /\ pc' = [pc EXCEPT ![c] = "release"]
  BY DEF Goto
<1>2. 0 \in 0..Len(complaints)
  BY LenNat
<1>3. target' \in [Clients -> 0..Len(complaints)]
  BY <1>1, <1>2 DEF TypeOK
<1>4. RequestType'
  BY <1>1, <1>3 DEF TypeOK, RequestType, Places
<1>5. \A d \in Clients \ {c} : pc'[d] = pc[d] /\ target'[d] = target[d]
  BY <1>1 DEF TypeOK
<1> QED BY <1>4, <1>5, LocksDropped, SameClaim, OneMoreTxError, TypePartsNext

LEMMA CommitUnknownType == ASSUME TypeOK, NEW c \in Clients, CommitUnknown(c) PROVE TypeOK'
<1>1. ClaimType' /\ ComplaintType' /\ LockType' /\ RequestType' /\ reports' \in [Keys -> Nat]
  BY CommitType DEF CommitUnknown
<1>2. CountType'
  BY <1>1, OneMoreLateError DEF CommitUnknown
<1> QED BY <1>1, <1>2, TypePartsNext

\* The UPDATE that stores an answer.
LEMMA StoredType ==
  ASSUME TypeOK, NEW c \in Clients, RequestKnows(c), pc[c] = "store",
         claim' = Stored(c), UNCHANGED complaints
  PROVE  ClaimType'
<1>1. CASE claim[KeyOf[c]].state = "none"
  BY <1>1, SameClaim DEF Stored
<1>2. CASE claim[KeyOf[c]].state # "none"
  <2> DEFINE row == [claim[KeyOf[c]] EXCEPT !.state = "stored", !.stale = FALSE, !.body = filed[c]]
  <2>1. claim' = [claim EXCEPT ![KeyOf[c]] = row]
    BY <1>2 DEF Stored
  <2>2. filed[c] \in 0..Len(complaints) /\ filed[c] # 0
    BY DEF TypeOK, RequestKnows
  <2>3. claim[KeyOf[c]] \in Row(Len(complaints))
    BY CodeFacts, TypeParts DEF ClaimType
  <2>4. row \in Row(Len(complaints)) /\ row.state = "stored" /\ row.body # 0
    BY <2>2, <2>3 DEF Row
  <2> QED BY <2>1, <2>4, CodeFacts, RowWritten
<1> QED BY <1>1, <1>2

LEMMA StoreType ==
  ASSUME TypeOK, NEW c \in Clients, RequestKnows(c), Store(c) PROVE TypeOK'
<1> USE DEF Store
<1>1. ClaimType'
  BY StoredType
<1>2. filed[c] \in 0..Len(complaints) /\ "ok" \in Codes
  BY DEF TypeOK, Codes
<1>3. RequestType'
  BY <1>2, AnswerType
<1> QED BY <1>1, <1>3, AnswersOnlyOne, SameCounts, ClaimStep

LEMMA StoreFailsType ==
  ASSUME TypeOK, NEW c \in Clients, RequestKnows(c), StoreFails(c) PROVE TypeOK'
<1> USE DEF StoreFails
<1>1. ClaimType'
  BY StoredType, SameClaim
<1>2. RequestType'
  BY MoveType DEF Places
<1>3. CountType'
  BY OneMoreLateError DEF TypeOK
<1> QED BY <1>1, <1>2, <1>3, MovesOnlyOne, ClaimStep

LEMMA FinalCode == \A c : (IF tries[c] > 0 THEN "retry" ELSE "failed") \in Codes
  BY DEF Codes

LEMMA ReleaseType == ASSUME TypeOK, NEW c \in Clients, Release(c) PROVE TypeOK'
<1> USE DEF Release
<1>1. NoClaim \in Row(Len(complaints)) /\ (NoClaim.state = "stored" <=> NoClaim.body # 0)
  <2>1. 0 \in 0..Len(complaints)
    BY LenNat
  <2> QED BY <2>1 DEF NoClaim, Row
<1>2. ClaimType'
  BY <1>1, CodeFacts, RowWritten, SameClaim DEF Released
<1>3. RequestType'
  BY LenNat, FinalCode, AnswerType
<1> QED BY <1>2, <1>3, AnswersOnlyOne, SameCounts, ClaimStep

LEMMA ReleaseFailsType == ASSUME TypeOK, NEW c \in Clients, ReleaseFails(c) PROVE TypeOK'
<1> USE DEF ReleaseFails
<1>1. RequestType'
  BY LenNat, FinalCode, AnswerType
<1> QED BY <1>1, AnswersOnlyOne, SameClaim, OneMoreTxError, ClaimStep

LEMMA CrashType == ASSUME TypeOK, NEW c \in Clients, Crash(c) PROVE TypeOK'
<1> USE DEF Crash
<1>1. RequestType'
  BY LenNat, AnswerType DEF Codes
<1>2. CountType'
  BY TypeParts, FilingAssumption DEF CountType
<1> QED BY <1>1, <1>2, AnswersOnlyOne, LocksDropped, SameClaim, TypePartsNext

LEMMA GoStaleType == ASSUME TypeOK, NEW k \in Keys, GoStale(k) PROVE TypeOK'
<1> USE DEF GoStale
<1> DEFINE row == [claim[k] EXCEPT !.stale = TRUE]
<1>1. row \in Row(Len(complaints)) /\ (row.state = "stored" <=> row.body # 0)
  BY TypeParts DEF ClaimType, Row
<1>2. claim' = [claim EXCEPT ![k] = row]
  OBVIOUS
<1>3. ClaimType'
  BY <1>1, <1>2, RowWritten
<1>4. RequestType' /\ LockType'
  BY TypeParts DEF RequestType, LockType, Ids, requestVars
<1> QED BY <1>3, <1>4, SameComplaints, SameCounts, TypePartsNext

LEMMA CloseType == ASSUME TypeOK, NEW i \in Ids, Close(i) PROVE TypeOK'
<1> USE DEF Close
<1> DEFINE row == [complaints[i] EXCEPT !.open = FALSE]
<1>1. complaints \in Seq(Complaint) /\ Len(complaints) \in Nat /\ i \in 1..Len(complaints)
  BY TypeParts, LenNat DEF ComplaintType, Ids
<1>2. complaints[i] \in Complaint
  BY <1>1
<1>3. row \in Complaint
  BY <1>2 DEF Complaint
<1>4. complaints' = [complaints EXCEPT ![i] = row]
  OBVIOUS
<1>5. complaints' \in Seq(Complaint) /\ Len(complaints') = Len(complaints)
  BY <1>1, <1>3, <1>4
<1>6. ComplaintType'
  BY <1>5, TypeParts DEF ComplaintType, Ids
<1>7. ClaimType' /\ RequestType' /\ LockType'
  BY <1>5, TypeParts DEF ClaimType, RequestType, LockType, Ids, requestVars
<1>8. CountType'
  BY TypeParts, FilingAssumption DEF CountType, faultVars
<1> QED BY <1>6, <1>7, <1>8, TypePartsNext

-----------------------------------------------------------------------------
(* What a request knows stays true, whatever the others do.                *)

Alone(c) ==
  \A d \in Clients \ {c} :
    pc'[d] = pc[d] /\ target'[d] = target[d] /\ tries'[d] = tries[d] /\ filed'[d] = filed[d]

\* The row locks of the others, and the complaints under them, are left alone.
LocksRespected(c) ==
  \A d \in Clients \ {c} : pc[d] = "write" /\ target[d] # 0 /\ lock[target[d]] = d =>
    lock'[target[d]] = d /\ complaints'[target[d]].open = complaints[target[d]].open

LEMMA OthersKnow ==
  ASSUME NEW c, \A d \in Clients : RequestKnows(d), Alone(c), LocksRespected(c)
  PROVE  \A d \in Clients \ {c} : RequestKnows(d)'
  BY DEF RequestKnows, Alone, LocksRespected

LEMMA AnswerAlone ==
  ASSUME TypeOK, NEW c \in Clients, NEW code, NEW id, Answer(c, code, id)
  PROVE  Alone(c) /\ RequestKnows(c)'
<1>1. pc' = [pc EXCEPT ![c] = pc'[c]] /\ pc'[c] \in {"done", "idle"}
  BY DEF TypeOK, Answer, Goto
<1>2. tries'[c] = 0 /\ tries'[c] < ScanAttempts
  BY AttemptsLeft DEF TypeOK, Answer
<1>3. RequestKnows(c)'
  BY <1>1, <1>2 DEF RequestKnows
<1> QED BY <1>1, <1>3 DEF TypeOK, Alone, Answer

LEMMA MoveAlone ==
  ASSUME TypeOK, NEW c \in Clients, NEW place, Goto(c, place), UNCHANGED <<target, tries, filed>>
  PROVE  Alone(c) /\ pc'[c] = place
  BY DEF TypeOK, Goto, Alone

LEMMA UnlockRespects ==
  ASSUME TypeOK, NEW c \in Clients, lock' = Unlock(c), UNCHANGED complaints
  PROVE  LocksRespected(c)
<1>1. \A d \in Clients \ {c} : pc[d] = "write" /\ target[d] # 0 => target[d] \in DOMAIN lock
  BY LenNat, TypeParts DEF RequestType, ComplaintType, Ids
<1> QED BY <1>1 DEF LocksRespected, Unlock

LEMMA NothingTouched ==
  ASSUME NEW c, UNCHANGED <<complaints, lock>> PROVE LocksRespected(c)
  BY DEF LocksRespected

LEMMA CommitRespects ==
  ASSUME TypeOK, NEW c \in Clients, pc[c] = "write", CommitEffect(c)
  PROVE  /\ LocksRespected(c) /\ filed'[c] # 0
         /\ \A d \in Clients \ {c} : filed'[d] = filed[d]
<1> DEFINE n == Len(complaints)
<1>1. n \in Nat /\ complaints \in Seq(Complaint) /\ lock \in [1..n -> Clients \cup {NoOne}]
  BY LenNat, TypeParts DEF ComplaintType, Ids
<1>2. filed \in [Clients -> 0..n] /\ target \in [Clients -> 0..n]
  BY TypeParts DEF RequestType
<1>3. CASE target[c] # 0
  <2>1. /\ complaints' = [complaints EXCEPT ![target[c]] = [complaints[target[c]] EXCEPT !.count = @ + 1]]
        /\ lock' = Unlock(c) /\ filed' = [filed EXCEPT ![c] = target[c]]
    BY <1>3 DEF CommitEffect
  <2>2. \A d \in Clients \ {c} : target[d] # 0 /\ lock[target[d]] = d => lock'[target[d]] = d
    BY <1>1, <1>2, <2>1 DEF Unlock
  <2>3. complaints[target[c]] \in Complaint
    BY <1>1, <1>2, <1>3
  <2>4. \A i \in 1..n : complaints'[i].open = complaints[i].open
    BY <1>1, <2>1, <2>3 DEF Complaint
  <2> QED BY <1>1, <1>2, <1>3, <2>1, <2>2, <2>4 DEF LocksRespected
<1>4. CASE target[c] = 0
  <2>1. /\ complaints' = Append(complaints, [open |-> TRUE, count |-> 1])
        /\ lock' = Append(lock, NoOne) /\ filed' = [filed EXCEPT ![c] = n + 1]
    BY <1>4 DEF CommitEffect
  <2>2. lock \in Seq(Clients \cup {NoOne}) /\ Len(lock) = n
    BY <1>1
  <2>3. \A i \in 1..n : lock'[i] = lock[i]
    BY <1>1, <2>1, <2>2
  <2>4. \A i \in 1..n : complaints'[i] = complaints[i]
    BY <1>1, <2>1
  <2>5. \A d \in Clients : target[d] # 0 => target[d] \in 1..n
    BY <1>1, <1>2
  <2>6. n + 1 # 0
    BY <1>1
  <2> QED BY <1>2, <2>1, <2>3, <2>4, <2>5, <2>6 DEF LocksRespected
<1> QED BY <1>3, <1>4

LEMMA KnowsClaim ==
  ASSUME TypeOK, \A d \in Clients : RequestKnows(d), NEW c \in Clients,
         Send(c) \/ InsertClaim(c) \/ SelectClaim(c) \/ Reclaim(c)
  PROVE  Alone(c) /\ RequestKnows(c)' /\ LocksRespected(c)
<1>1. LocksRespected(c)
  BY NothingTouched DEF Send, InsertClaim, SelectClaim, Reclaim
<1>2. CASE \E code, id : Answer(c, code, id)
  BY <1>1, <1>2, AnswerAlone
<1>3. CASE /\ UNCHANGED <<target, tries, filed>> /\ pc[c] # "release"
           /\ \E place \in {"insert", "select", "reclaim", "scan"} : Goto(c, place)
  <2>1. PICK place \in {"insert", "select", "reclaim", "scan"} : Goto(c, place)
    BY <1>3
  <2>2. Alone(c) /\ pc'[c] = place
    BY <1>3, <2>1, MoveAlone
  <2>3. RequestKnows(c)'
    BY <1>3, <2>2 DEF RequestKnows
  <2> QED BY <1>1, <2>2, <2>3
<1> QED BY <1>2, <1>3 DEF Send, InsertClaim, SelectClaim, Reclaim

LEMMA KnowsScan ==
  ASSUME TypeOK, \A d \in Clients : RequestKnows(d), NEW c \in Clients, Scan(c)
  PROVE  Alone(c) /\ RequestKnows(c)' /\ LocksRespected(c)
<1> USE DEF Scan
<1>1. LocksRespected(c)
  BY NothingTouched
<1>2. PICK i \in 0..Len(complaints), place \in {"lock", "write"} :
        /\ target' = [target EXCEPT ![c] = i] /\ pc' = [pc EXCEPT ![c] = place]
        /\ place = "lock" => i # 0
        /\ place = "write" => i = 0
  BY LenNat DEF Goto, Ids
<1>3. Alone(c) /\ pc'[c] = place /\ target'[c] = i
  BY <1>2 DEF TypeOK, Alone
<1> QED BY <1>1, <1>2, <1>3 DEF RequestKnows

LEMMA KnowsLock ==
  ASSUME TypeOK, \A d \in Clients : RequestKnows(d), NEW c \in Clients, Lock(c)
  PROVE  Alone(c) /\ RequestKnows(c)' /\ LocksRespected(c)
<1> USE DEF Lock
<1>1. target[c] \in Ids /\ lock[target[c]] = NoOne
  <2>1. target[c] \in 0..Len(complaints) /\ target[c] # 0
    BY DEF TypeOK, RequestKnows
  <2> QED BY <2>1, LenNat DEF Ids
<1>2. CASE complaints[target[c]].open
  <2>1. Alone(c) /\ pc'[c] = "write"
    BY <1>2, MoveAlone
  <2>2. lock' = [lock EXCEPT ![target[c]] = c]
    BY <1>2
  <2>3. LocksRespected(c)
    <3>1. \A d \in Clients : d # NoOne
      BY FilingAssumption
    <3>2. \A j : j # target[c] => lock'[j] = lock[j]
      BY <2>2, TypeParts DEF ComplaintType
    <3> QED BY <1>1, <1>2, <3>1, <3>2 DEF LocksRespected
  <2>4. lock'[target[c]] = c
    BY <1>1, <2>2 DEF TypeOK
  <2> QED BY <1>2, <2>1, <2>3, <2>4 DEF RequestKnows
<1>3. CASE ~complaints[target[c]].open
  <2>1. LocksRespected(c)
    BY <1>3, NothingTouched
  <2>2. /\ tries' = [tries EXCEPT ![c] = tries[c] + 1] /\ target' = [target EXCEPT ![c] = 0]
        /\ pc' = [pc EXCEPT ![c] = IF tries[c] + 1 < ScanAttempts THEN "scan" ELSE "release"]
    BY <1>3 DEF Goto
  <2>3. Alone(c)
    BY <1>3, <2>2 DEF TypeOK, Alone
  <2>4. (pc'[c] = "scan" /\ tries'[c] < ScanAttempts) \/ pc'[c] = "release"
    BY <2>2 DEF TypeOK
  <2> QED BY <2>1, <2>3, <2>4 DEF RequestKnows
<1> QED BY <1>2, <1>3

LEMMA KnowsCommit ==
  ASSUME TypeOK, \A d \in Clients : RequestKnows(d), NEW c \in Clients,
         Write(c) \/ CommitUnknown(c)
  PROVE  Alone(c) /\ RequestKnows(c)' /\ LocksRespected(c)
<1>1. pc[c] = "write" /\ UNCHANGED <<target, tries>>
  BY DEF Write, CommitUnknown
<1>2. CASE \E place \in {"store", "release"} : CommitEffect(c) /\ Goto(c, place)
  <2>1. PICK place \in {"store", "release"} : CommitEffect(c) /\ Goto(c, place)
    BY <1>2
  <2>2. LocksRespected(c) /\ filed'[c] # 0 /\ \A d \in Clients \ {c} : filed'[d] = filed[d]
    BY <1>1, <2>1, CommitRespects
  <2>3. pc'[c] = place /\ \A d \in Clients \ {c} : pc'[d] = pc[d]
    BY <2>1 DEF TypeOK, Goto
  <2> QED BY <1>1, <2>2, <2>3 DEF Alone, RequestKnows
<1>3. CASE Goto(c, "release") /\ UNCHANGED <<complaints, lock, filed>>
  <2>1. Alone(c) /\ pc'[c] = "release"
    BY <1>1, <1>3, MoveAlone
  <2> QED BY <1>3, <2>1, NothingTouched DEF RequestKnows
<1> QED BY <1>2, <1>3 DEF Write, CommitUnknown

LEMMA KnowsEnd ==
  ASSUME TypeOK, \A d \in Clients : RequestKnows(d), NEW c \in Clients,
         Store(c) \/ StoreFails(c) \/ Release(c) \/ ReleaseFails(c) \/ TxFails(c) \/ Crash(c)
  PROVE  Alone(c) /\ RequestKnows(c)' /\ LocksRespected(c)
<1>1. LocksRespected(c)
  BY NothingTouched, UnlockRespects DEF Store, StoreFails, Release, ReleaseFails, TxFails, Crash
<1>2. CASE \E code, id : Answer(c, code, id)
  BY <1>1, <1>2, AnswerAlone
<1>3. CASE StoreFails(c)
  <2>1. Alone(c) /\ pc'[c] = "release"
    BY <1>3, MoveAlone DEF StoreFails
  <2> QED BY <1>1, <2>1 DEF RequestKnows
<1>4. CASE TxFails(c)
  <2>1. Alone(c) /\ pc'[c] = "release"
    BY <1>4 DEF TxFails, Goto, TypeOK, Alone
  <2> QED BY <1>1, <2>1 DEF RequestKnows
<1> QED BY <1>2, <1>3, <1>4 DEF Store, Release, ReleaseFails, Crash

LEMMA KnowsStep ==
  ASSUME TypeOK, \A d \in Clients : RequestKnows(d), [Next]_vars
  PROVE  \A d \in Clients : RequestKnows(d)'
<1>1. ASSUME NEW c \in Clients, Request(c) \/ Fault(c)
      PROVE  \A d \in Clients : RequestKnows(d)'
  <2>1. Alone(c) /\ RequestKnows(c)' /\ LocksRespected(c)
    BY <1>1, KnowsClaim, KnowsScan, KnowsLock, KnowsCommit, KnowsEnd DEF Request, Fault
  <2> QED BY <2>1, OthersKnow
<1>2. ASSUME NEW k \in Keys, GoStale(k)
      PROVE  \A d \in Clients : RequestKnows(d)'
  BY <1>2 DEF GoStale, requestVars, RequestKnows
<1>3. ASSUME NEW i \in Ids, Close(i)
      PROVE  \A d \in Clients : RequestKnows(d)'
  <2>1. \A j \in Ids \ {i} : complaints'[j] = complaints[j]
    BY <1>3, TypeParts DEF Close, ComplaintType, Ids
  <2>2. \A d \in Clients : pc[d] = "write" /\ target[d] # 0 => target[d] \in Ids \ {i}
    <3>1. \A d \in Clients : d # NoOne
      BY FilingAssumption
    <3>2. \A d \in Clients : target[d] # 0 => target[d] \in Ids
      BY LenNat, TypeParts DEF RequestType, Ids
    <3> QED BY <1>3, <3>1, <3>2 DEF Close, RequestKnows
  <2> QED BY <1>3, <2>1, <2>2 DEF Close, requestVars, RequestKnows
<1>4. CASE UNCHANGED vars
  BY <1>4 DEF vars, requestVars, RequestKnows
<1> QED BY <1>1, <1>2, <1>3, <1>4 DEF Next

-----------------------------------------------------------------------------
(* Types, and merges into open complaints.                                 *)

Inductive == TypeOK /\ \A c \in Clients : RequestKnows(c)

LEMMA InductiveInit == Init => Inductive
<1> HAVE Init
<1>1. Len(complaints) = 0 /\ Ids = {} /\ 0 \in 0..Len(complaints)
  BY DEF Init, Ids
<1>2. ClaimType
  BY <1>1 DEF Init, ClaimType, Row, NoClaim
<1>3. ComplaintType /\ LockType
  BY <1>1 DEF Init, ComplaintType, LockType
<1>4. RequestType
  BY <1>1, FilingAssumption DEF Init, RequestType, Places, Codes
<1>5. CountType
  BY FilingAssumption DEF Init, CountType
<1>6. \A c \in Clients : RequestKnows(c)
  BY AttemptsLeft DEF Init, RequestKnows
<1> QED BY <1>2, <1>3, <1>4, <1>5, <1>6, TypeParts DEF Inductive

LEMMA InductiveStep == Inductive /\ [Next]_vars => Inductive'
<1> SUFFICES ASSUME Inductive, [Next]_vars PROVE Inductive'
  OBVIOUS
<1> USE DEF Inductive
<1>1. \A c \in Clients : RequestKnows(c)'
  BY KnowsStep
<1>2. ASSUME NEW c \in Clients, Request(c) PROVE TypeOK'
  BY <1>2, SendType, InsertType, SelectType, ReclaimType, ScanType, LockStepType, WriteType,
     StoreType, ReleaseType DEF Request
<1>3. ASSUME NEW c \in Clients, Fault(c) PROVE TypeOK'
  BY <1>3, TxFailsType, CommitUnknownType, StoreFailsType, ReleaseFailsType, CrashType DEF Fault
<1>4. CASE UNCHANGED vars
  <2>1. ClaimType' /\ ComplaintType' /\ CountType'
    BY <1>4, SameClaim, SameComplaints, SameCounts DEF vars
  <2>2. RequestType /\ LockType
    BY TypeParts
  <2>3. UNCHANGED <<complaints, lock, pc, target, tries, filed, answer>>
    BY <1>4 DEF vars, requestVars
  <2>4. RequestType' /\ LockType'
    BY <2>2, <2>3 DEF RequestType, LockType, Ids
  <2> QED BY <1>1, <2>1, <2>4, TypePartsNext
<1> QED BY <1>1, <1>2, <1>3, <1>4, GoStaleType, CloseType DEF Next

\* Every variable keeps its type, and the holder of a row lock is the request
\* that writes the locked complaint.
THEOREM FilingTypeCorrect == Spec => []TypeOK
<1>1. Inductive => TypeOK
  BY DEF Inductive
<1> QED BY <1>1, InductiveInit, InductiveStep, PTL DEF Spec

\* A report is merged only into a complaint that is open when it is written,
\* however the scan, the row lock, rollbacks and resolutions interleave.
THEOREM MergesAreIntoOpen == Spec => MergedWhileOpen
<1>1. Inductive /\ [Next]_vars =>
        [\A i \in Ids : complaints'[i].count # complaints[i].count => complaints[i].open]_vars
  <2> SUFFICES ASSUME Inductive, Next, NEW i \in Ids, complaints'[i].count # complaints[i].count
               PROVE  complaints[i].open
    OBVIOUS
  <2>1. complaints \in Seq(Complaint) /\ Len(complaints) \in Nat /\ i \in 1..Len(complaints)
    BY TypeParts, LenNat DEF Inductive, ComplaintType, Ids
  <2>2. ASSUME NEW c \in Clients, Request(c) \/ Fault(c) PROVE complaints[i].open
    <3>1. pc[c] = "write" /\ CommitEffect(c)
      BY <2>2 DEF Request, Fault, Send, InsertClaim, SelectClaim, Reclaim, Scan, Lock, Write,
                  Store, Release, TxFails, CommitUnknown, StoreFails, ReleaseFails, Crash
    <3>2. CASE target[c] = 0
      BY <2>1, <3>1, <3>2 DEF CommitEffect
    <3>3. CASE target[c] # 0
      <4>1. i = target[c]
        BY <2>1, <3>1, <3>3 DEF CommitEffect
      <4> QED BY <3>1, <3>3, <4>1 DEF Inductive, RequestKnows
    <3> QED BY <3>2, <3>3
  <2>3. ASSUME NEW k \in Keys, GoStale(k) PROVE complaints[i].open
    BY <2>3 DEF GoStale
  <2>4. ASSUME NEW j \in Ids, Close(j) PROVE complaints[i].open
    <3>1. i = j
      BY <2>1, <2>4 DEF Close
    <3> QED BY <2>4, <3>1 DEF Close
  <2> QED BY <2>2, <2>3, <2>4 DEF Next
<1> QED BY <1>1, InductiveInit, InductiveStep, PTL DEF Spec, MergedWhileOpen

-----------------------------------------------------------------------------
(* One owner per key, while a create is shorter than the claim's TTL.      *)

Safe == Inductive /\ FilingInvariant

RowOf(c) == claim[KeyOf[c]]

\* The four ways in which a request moves, seen from its key's row.
Enters(c) ==
  /\ ~Owning(c) /\ pc'[c] = "scan" /\ answer'[c] = answer[c]
  /\ \/ RowOf(c).state = "none"
     \/ RowOf(c).state = "claimed" /\ RowOf(c).stale
  /\ RowOf(c)'.state = "claimed" /\ ~RowOf(c)'.stale

StaysOut(c) ==
  /\ ~Owning(c) /\ pc'[c] \in {"idle", "insert", "select", "reclaim", "done"}
  /\ RowOf(c)' = RowOf(c)
  /\ \/ answer'[c] = answer[c]
     \/ answer'[c].code # "ok"
     \/ RowOf(c).state = "stored" /\ answer'[c].id = RowOf(c).body

StaysIn(c) ==
  /\ Owning(c) /\ pc[c] # "release" /\ answer'[c] = answer[c]
  /\ \/ Owning(c)' /\ RowOf(c)' = RowOf(c)
     \/ pc'[c] = "release" /\ RowOf(c).state # "none" /\ RowOf(c)'.state = "stored"

Leaves(c) ==
  /\ Owning(c) /\ pc'[c] \in {"idle", "done"}
  /\ \/ /\ pc[c] = "store" /\ RowOf(c)'.state = "stored"
        /\ answer'[c].id = RowOf(c)'.body
     \/ /\ answer'[c].code # "ok"
        /\ \/ RowOf(c)' = RowOf(c)
           \/ RowOf(c).state = "claimed" /\ RowOf(c)'.state = "none"

LeavesOthers(c) ==
  /\ \A d \in Clients \ {c} : pc'[d] = pc[d] /\ answer'[d] = answer[d]
  /\ \A k \in Keys \ {KeyOf[c]} : claim'[k] = claim[k]

LEMMA AnswerIs ==
  ASSUME TypeOK, NEW c \in Clients, NEW code, NEW id, Answer(c, code, id)
  PROVE  /\ answer'[c].code = code /\ answer'[c].id = id
         /\ pc'[c] \in {"idle", "done"}
         /\ \A d \in Clients \ {c} : pc'[d] = pc[d] /\ answer'[d] = answer[d]
<1>1. answer'[c] = [code |-> code, id |-> id]
  BY DEF TypeOK, Answer
<1> QED BY <1>1 DEF TypeOK, Answer, Goto

LEMMA MoveIs ==
  ASSUME TypeOK, NEW c \in Clients, NEW place, Goto(c, place), UNCHANGED answer
  PROVE  /\ pc'[c] = place /\ answer'[c] = answer[c]
         /\ \A d \in Clients \ {c} : pc'[d] = pc[d] /\ answer'[d] = answer[d]
  BY DEF TypeOK, Goto

LEMMA OutsideStep ==
  ASSUME TypeOK, NEW c \in Clients, Send(c) \/ InsertClaim(c) \/ SelectClaim(c) \/ Reclaim(c)
  PROVE  LeavesOthers(c) /\ (Enters(c) \/ StaysOut(c))
<1> USE CodeFacts
<1>1. CASE Send(c)
  <2>1. Goto(c, "insert") /\ UNCHANGED <<claim, answer>> /\ pc[c] = "idle"
    BY <1>1 DEF Send
  <2> QED BY <2>1, MoveIs DEF LeavesOthers, StaysOut, Owning, RowOf
<1>2. CASE InsertClaim(c)
  <2>1. UNCHANGED answer /\ pc[c] = "insert"
    BY <1>2 DEF InsertClaim
  <2>2. CASE claim[KeyOf[c]].state = "none"
    <3>1. Goto(c, "scan") /\ claim' = [claim EXCEPT ![KeyOf[c]] = Taken(c)]
      BY <1>2, <2>2 DEF InsertClaim
    <3>2. RowOf(c)' = Taken(c) /\ \A k \in Keys \ {KeyOf[c]} : claim'[k] = claim[k]
      BY <3>1 DEF TypeOK, RowOf
    <3> QED BY <2>1, <2>2, <3>1, <3>2, MoveIs DEF LeavesOthers, Enters, Owning, RowOf, Taken
  <2>3. CASE claim[KeyOf[c]].state # "none"
    <3>1. Goto(c, "select") /\ UNCHANGED claim
      BY <1>2, <2>3 DEF InsertClaim
    <3> QED BY <2>1, <3>1, MoveIs DEF LeavesOthers, StaysOut, Owning, RowOf
  <2> QED BY <2>2, <2>3
<1>3. CASE SelectClaim(c)
  <2>1. UNCHANGED claim /\ pc[c] = "select"
    BY <1>3 DEF SelectClaim
  <2>2. CASE Goto(c, "reclaim") /\ UNCHANGED <<target, tries, filed, answer>>
    BY <2>1, <2>2, MoveIs DEF LeavesOthers, StaysOut, Owning, RowOf
  <2>3. CASE Answer(c, "failed", 0) \/ Answer(c, "reused", 0)
    <3>1. PICK code \in {"failed", "reused"} : Answer(c, code, 0)
      BY <2>3
    <3> QED BY <2>1, <3>1, AnswerIs DEF LeavesOthers, StaysOut, Owning, RowOf
  <2>4. CASE Answer(c, "ok", RowOf(c).body) /\ RowOf(c).state = "stored"
    BY <2>1, <2>4, AnswerIs DEF LeavesOthers, StaysOut, Owning, RowOf
  <2> QED BY <1>3, <2>2, <2>3, <2>4 DEF SelectClaim, RowOf
<1>4. CASE Reclaim(c)
  <2>1. CASE claim[KeyOf[c]].state = "claimed" /\ claim[KeyOf[c]].stale
    <3>1. /\ pc[c] = "reclaim" /\ Goto(c, "scan") /\ UNCHANGED answer
          /\ claim' = [claim EXCEPT ![KeyOf[c]].stale = FALSE]
      BY <1>4, <2>1 DEF Reclaim
    <3>2. claim[KeyOf[c]] \in Row(Len(complaints)) /\ claim \in [Keys -> Row(Len(complaints))]
      BY TypeParts DEF ClaimType
    <3>3. /\ RowOf(c)'.state = "claimed" /\ ~RowOf(c)'.stale
          /\ \A k \in Keys \ {KeyOf[c]} : claim'[k] = claim[k]
      BY <2>1, <3>1, <3>2 DEF RowOf, Row
    <3> QED BY <2>1, <3>1, <3>3, MoveIs DEF LeavesOthers, Enters, Owning, RowOf
  <2>2. CASE ~(claim[KeyOf[c]].state = "claimed" /\ claim[KeyOf[c]].stale)
    <3>1. pc[c] = "reclaim" /\ Answer(c, "busy", 0) /\ UNCHANGED claim
      BY <1>4, <2>2 DEF Reclaim
    <3> QED BY <3>1, AnswerIs DEF LeavesOthers, StaysOut, Owning, RowOf
  <2> QED BY <2>1, <2>2
<1> QED BY <1>1, <1>2, <1>3, <1>4

LEMMA StoredRow ==
  ASSUME TypeOK, NEW c \in Clients, claim' = Stored(c)
  PROVE  /\ RowOf(c).state # "none" => RowOf(c)'.state = "stored" /\ RowOf(c)'.body = filed[c]
         /\ \A k \in Keys \ {KeyOf[c]} : claim'[k] = claim[k]
<1>1. claim[KeyOf[c]] \in Row(Len(complaints)) /\ claim \in [Keys -> Row(Len(complaints))]
  BY CodeFacts, TypeParts DEF ClaimType
<1>2. CASE RowOf(c).state = "none"
  BY <1>2 DEF Stored, RowOf
<1>3. CASE RowOf(c).state # "none"
  <2> DEFINE row == [claim[KeyOf[c]] EXCEPT !.state = "stored", !.stale = FALSE, !.body = filed[c]]
  <2>1. row.state = "stored" /\ row.body = filed[c]
    BY <1>1 DEF Row
  <2>2. claim' = [claim EXCEPT ![KeyOf[c]] = row]
    BY <1>3 DEF Stored, RowOf
  <2>3. claim'[KeyOf[c]] = row /\ \A k \in Keys \ {KeyOf[c]} : claim'[k] = claim[k]
    BY <1>1, <2>2, CodeFacts
  <2> QED BY <2>1, <2>3 DEF RowOf
<1> QED BY <1>2, <1>3

LEMMA InsideStep ==
  ASSUME TypeOK, NEW c \in Clients, OwnerKnows(c),
         \/ Scan(c) \/ Lock(c) \/ Write(c) \/ Store(c) \/ Release(c)
         \/ TxFails(c) \/ CommitUnknown(c) \/ StoreFails(c) \/ ReleaseFails(c)
  PROVE  LeavesOthers(c) /\ (StaysIn(c) \/ Leaves(c))
<1> USE CodeFacts
<1>1. CASE Scan(c) \/ Lock(c) \/ Write(c) \/ TxFails(c) \/ CommitUnknown(c)
  <2>1. /\ UNCHANGED <<claim, answer>> /\ pc[c] \in {"scan", "lock", "write"}
        /\ \E place \in {"scan", "lock", "write", "store", "release"} : Goto(c, place)
    BY <1>1 DEF Scan, Lock, Write, TxFails, CommitUnknown
  <2> QED BY <2>1, MoveIs DEF LeavesOthers, StaysIn, Owning, RowOf
<1>2. CASE Store(c)
  <2>1. pc[c] = "store" /\ claim' = Stored(c) /\ Answer(c, "ok", filed[c])
    BY <1>2 DEF Store
  <2>2. RowOf(c).state # "none"
    BY <2>1 DEF OwnerKnows, Owning, RowOf
  <2> QED BY <2>1, <2>2, StoredRow, AnswerIs DEF LeavesOthers, Leaves, Owning
<1>3. CASE StoreFails(c)
  <2>1. /\ pc[c] = "store" /\ claim' \in {claim, Stored(c)} /\ Goto(c, "release") /\ UNCHANGED answer
    BY <1>3 DEF StoreFails
  <2>2. RowOf(c).state # "none"
    BY <2>1 DEF OwnerKnows, Owning, RowOf
  <2> QED BY <2>1, <2>2, StoredRow, MoveIs DEF LeavesOthers, StaysIn, Owning, RowOf
<1>4. CASE Release(c) \/ ReleaseFails(c)
  <2>1. pc[c] = "release" /\ \E code \in {"retry", "failed"} : Answer(c, code, 0)
    BY <1>4 DEF Release, ReleaseFails
  <2>2. \/ claim' = claim
        \/ RowOf(c).state = "claimed" /\ claim' = [claim EXCEPT ![KeyOf[c]] = NoClaim]
    BY <1>4 DEF Release, ReleaseFails, Released, RowOf
  <2>3. /\ \/ RowOf(c)' = RowOf(c)
           \/ RowOf(c).state = "claimed" /\ RowOf(c)'.state = "none"
        /\ \A k \in Keys \ {KeyOf[c]} : claim'[k] = claim[k]
    <3>1. claim \in [Keys -> Row(Len(complaints))] /\ NoClaim.state = "none"
      BY TypeParts DEF ClaimType, NoClaim
    <3>2. KeyOf[c] \in Keys
      BY CodeFacts
    <3> QED BY <2>2, <3>1, <3>2 DEF RowOf
  <2> QED BY <2>1, <2>3, AnswerIs DEF LeavesOthers, Leaves, Owning
<1> QED BY <1>1, <1>2, <1>3, <1>4

LEMMA CrashStep ==
  ASSUME TypeOK, NEW c \in Clients, Crash(c)
  PROVE  LeavesOthers(c) /\ (StaysOut(c) \/ Leaves(c))
  BY AnswerIs DEF Crash, LeavesOthers, StaysOut, Leaves, Owning, RowOf

OneKeyPart ==
  /\ OneOwnerPerKey
  /\ \A c \in Clients :
       /\ OwnerKnows(c)
       /\ answer[c].code = "ok" =>
            claim[KeyOf[c]].state = "stored" /\ answer[c].id = claim[KeyOf[c]].body

\* However a request moves, its key keeps one owner and one answer.
LEMMA OwnersKept ==
  ASSUME OneKeyPart, NEW c \in Clients, LeavesOthers(c),
         Enters(c) \/ StaysOut(c) \/ StaysIn(c) \/ Leaves(c)
  PROVE  OneKeyPart'
<1> USE CodeFacts
<1>1. ASSUME NEW d \in Clients, KeyOf[d] # KeyOf[c]
      PROVE  /\ OwnerKnows(d)'
             /\ answer'[d].code = "ok" =>
                  claim'[KeyOf[d]].state = "stored" /\ answer'[d].id = claim'[KeyOf[d]].body
             /\ pc'[d] = pc[d]
  BY <1>1 DEF OneKeyPart, LeavesOthers, OwnerKnows, Owning
<1>2. CASE Enters(c)
  BY <1>1, <1>2 DEF OneKeyPart, OneOwnerPerKey, Enters, LeavesOthers, OwnerKnows, Owning, RowOf
<1>3. CASE StaysOut(c)
  BY <1>1, <1>3 DEF OneKeyPart, OneOwnerPerKey, StaysOut, LeavesOthers, OwnerKnows, Owning, RowOf
<1>4. CASE StaysIn(c)
  BY <1>1, <1>4 DEF OneKeyPart, OneOwnerPerKey, StaysIn, LeavesOthers, OwnerKnows, Owning, RowOf
<1>5. CASE Leaves(c)
  BY <1>1, <1>5 DEF OneKeyPart, OneOwnerPerKey, Leaves, LeavesOthers, OwnerKnows, Owning, RowOf
<1> QED BY <1>2, <1>3, <1>4, <1>5

-----------------------------------------------------------------------------
(* Reports are counted once, deaths and late failures aside.               *)

Allowed(k) == crashes + lateErrors + (IF Kept(k) THEN 1 ELSE 0)

CountPart == \A k \in Keys : reports[k] <= Allowed(k)

LEMMA SafeParts ==
  Safe <=> TypeOK /\ (\A c \in Clients : RequestKnows(c)) /\ OneKeyPart /\ CountPart
  BY DEF Safe, Inductive, FilingInvariant, OneKeyPart, CountPart, Allowed

LEMMA SafePartsNext ==
  ASSUME Inductive', OneKeyPart', CountPart' PROVE Safe'
  BY DEF Safe, Inductive, FilingInvariant, OneKeyPart, CountPart, Allowed

LEMMA Numbers ==
  TypeOK => crashes \in Nat /\ lateErrors \in Nat /\ \A k \in Keys : reports[k] \in Nat
<1>1. MaxCrashes \in Nat /\ MaxLateErrors \in Nat
  BY FilingAssumption
<1> QED BY <1>1, TypeParts DEF CountType

\* A key that is kept stays kept, unless its request is about to store.
LEMMA KeptStays ==
  ASSUME NEW c \in Clients, LeavesOthers(c), pc[c] # "store",
         Enters(c) \/ StaysOut(c) \/ StaysIn(c) \/ Leaves(c)
  PROVE  \A k \in Keys : Kept(k) => Kept(k)'
<1>1. \A k \in Keys : claim[k].state = "stored" => claim'[k].state = "stored"
  BY DEF LeavesOthers, Enters, StaysOut, StaysIn, Leaves, RowOf
<1>2. \A d \in Clients : pc[d] = "store" => pc'[d] = "store"
  BY DEF LeavesOthers
<1> QED BY <1>1, <1>2 DEF Kept

LEMMA SameAllowed ==
  ASSUME TypeOK, CountPart, UNCHANGED <<reports, crashes, lateErrors>>,
         \A k \in Keys : Kept(k) => Kept(k)'
  PROVE  CountPart'
  BY Numbers DEF CountPart, Allowed

LEMMA OneMoreAllowed ==
  ASSUME TypeOK, CountPart, UNCHANGED reports,
         \/ crashes' = crashes + 1 /\ lateErrors' = lateErrors
         \/ lateErrors' = lateErrors + 1 /\ crashes' = crashes
  PROVE  CountPart'
  BY Numbers DEF CountPart, Allowed

LEMMA CommitCounts ==
  ASSUME TypeOK, OneKeyPart, CountPart, NEW c \in Clients, pc[c] = "write", CommitEffect(c),
         \A k \in Keys : Kept(k) => Kept(k)', UNCHANGED crashes,
         \/ lateErrors' = lateErrors + 1
         \/ lateErrors' = lateErrors /\ pc'[c] = "store"
  PROVE  CountPart'
<1> DEFINE k == KeyOf[c]
<1>1. k \in Keys
  BY CodeFacts
<1>2. reports' = [reports EXCEPT ![k] = @ + 1] /\ reports \in [Keys -> Nat]
  BY TypeParts DEF CommitEffect, CountType
<1>3. CASE lateErrors' = lateErrors + 1
  BY <1>1, <1>2, <1>3, Numbers DEF CountPart, Allowed
<1>4. CASE lateErrors' = lateErrors /\ pc'[c] = "store"
  <2>1. ~Kept(k)
    BY DEF OneKeyPart, OneOwnerPerKey, OwnerKnows, Owning, Kept
  <2>2. Kept(k)'
    BY <1>4 DEF Kept
  <2>3. reports'[k] <= Allowed(k)'
    <3>1. reports[k] <= crashes + lateErrors /\ reports[k] \in Nat
      BY <1>1, <2>1, Numbers DEF CountPart, Allowed
    <3>2. reports'[k] = reports[k] + 1 /\ Allowed(k)' = crashes + lateErrors + 1
      BY <1>1, <1>2, <1>4, <2>2 DEF Allowed
    <3> QED BY <3>1, <3>2, Numbers
  <2>4. ASSUME NEW j \in Keys, j # k PROVE reports'[j] <= Allowed(j)'
    <3>1. reports'[j] = reports[j]
      BY <1>2, <2>4
    <3> QED BY <1>4, <3>1, Numbers DEF CountPart, Allowed
  <2> QED BY <2>3, <2>4 DEF CountPart
<1> QED BY <1>3, <1>4

LEMMA MovesKept ==
  ASSUME TypeOK, OneKeyPart, NEW c \in Clients, Request(c) \/ Fault(c)
  PROVE  LeavesOthers(c) /\ (Enters(c) \/ StaysOut(c) \/ StaysIn(c) \/ Leaves(c))
  BY OutsideStep, InsideStep, CrashStep DEF OneKeyPart, Request, Fault

LEMMA CountsKept ==
  ASSUME TypeOK, OneKeyPart, CountPart, NEW c \in Clients, Request(c) \/ Fault(c)
  PROVE  CountPart'
<1>1. LeavesOthers(c) /\ (Enters(c) \/ StaysOut(c) \/ StaysIn(c) \/ Leaves(c))
  BY MovesKept
<1>2. CASE Store(c)
  <2>1. claim' = Stored(c) /\ pc[c] = "store" /\ UNCHANGED <<reports, crashes, lateErrors>>
    BY <1>2 DEF Store, faultVars
  <2>2. RowOf(c).state # "none"
    BY <2>1 DEF OneKeyPart, OwnerKnows, Owning, RowOf
  <2>3. RowOf(c)'.state = "stored" /\ \A k \in Keys \ {KeyOf[c]} : claim'[k] = claim[k]
    BY <2>1, <2>2, StoredRow
  <2>4. \A k \in Keys : Kept(k) => Kept(k)'
    BY <1>1, <2>3 DEF Kept, LeavesOthers, RowOf
  <2> QED BY <2>1, <2>4, SameAllowed
<1>3. CASE StoreFails(c) \/ Crash(c)
  BY <1>3, OneMoreAllowed DEF StoreFails, Crash, LateError
<1>4. CASE CommitUnknown(c) \/ (Write(c) /\ MayWrite(c))
  <2>1. /\ pc[c] = "write" /\ CommitEffect(c) /\ UNCHANGED crashes
        /\ \/ lateErrors' = lateErrors + 1
           \/ lateErrors' = lateErrors /\ Goto(c, "store")
    BY <1>4 DEF CommitUnknown, Write, LateError, faultVars
  <2>2. Goto(c, "store") => pc'[c] = "store"
    BY DEF TypeOK, Goto
  <2>3. \A k \in Keys : Kept(k) => Kept(k)'
    BY <1>1, <2>1, KeptStays
  <2> QED BY <2>1, <2>2, <2>3, CommitCounts
<1>5. CASE ~(Store(c) \/ StoreFails(c) \/ Crash(c) \/ CommitUnknown(c) \/ (Write(c) /\ MayWrite(c)))
  <2>1. pc[c] # "store" /\ UNCHANGED <<reports, crashes, lateErrors>>
    BY <1>5 DEF Request, Fault, Send, InsertClaim, SelectClaim, Reclaim, Scan, Lock, Write, Release,
                TxFails, ReleaseFails, TxError, faultVars
  <2>2. \A k \in Keys : Kept(k) => Kept(k)'
    BY <1>1, <2>1, KeptStays
  <2> QED BY <2>1, <2>2, SameAllowed
<1> QED BY <1>2, <1>3, <1>4, <1>5

LEMMA GoStaleKeeps ==
  ASSUME SlowOwners = FALSE, TypeOK, OneKeyPart, CountPart, NEW k \in Keys, GoStale(k)
  PROVE  OneKeyPart' /\ CountPart'
<1>1. claim' = [claim EXCEPT ![k] = [claim[k] EXCEPT !.stale = TRUE]]
  BY DEF GoStale
<1>2. claim \in [Keys -> Row(Len(complaints))]
  BY TypeParts DEF ClaimType
<1>3. /\ claim'[k].state = "claimed" /\ claim[k].state = "claimed"
      /\ \A j \in Keys \ {k} : claim'[j] = claim[j]
  BY <1>1, <1>2 DEF GoStale, Row
<1>4. \A c \in Clients : Owning(c) => KeyOf[c] # k
  BY DEF GoStale
<1>5. UNCHANGED <<pc, answer, reports, crashes, lateErrors>>
  BY DEF GoStale, requestVars, faultVars
<1>6. OneKeyPart'
  BY <1>3, <1>4, <1>5, CodeFacts DEF OneKeyPart, OneOwnerPerKey, OwnerKnows, Owning
<1>7. \A j \in Keys : Kept(j) => Kept(j)'
  BY <1>3, <1>5 DEF Kept
<1> QED BY <1>5, <1>6, <1>7, SameAllowed

LEMMA QuietKeeps ==
  ASSUME TypeOK, OneKeyPart, CountPart,
         UNCHANGED <<claim, pc, answer, reports, crashes, lateErrors>>
  PROVE  OneKeyPart' /\ CountPart'
<1>1. \A j \in Keys : Kept(j) => Kept(j)'
  BY DEF Kept
<1>2. OneKeyPart'
  BY DEF OneKeyPart, OneOwnerPerKey, OwnerKnows, Owning
<1> QED BY <1>1, <1>2, SameAllowed

LEMMA SafeInit == Init => Safe
<1> HAVE Init
<1>1. Inductive
  BY InductiveInit
<1>2. OneKeyPart
  BY DEF Init, OneKeyPart, OneOwnerPerKey, OwnerKnows, Owning
<1>3. CountPart
  BY DEF Init, CountPart, Allowed
<1> QED BY <1>1, <1>2, <1>3, SafeParts DEF Inductive

LEMMA SafeStep == ASSUME SlowOwners = FALSE PROVE Safe /\ [Next]_vars => Safe'
<1> SUFFICES ASSUME Safe, [Next]_vars PROVE Safe'
  OBVIOUS
<1>1. Inductive'
  BY InductiveStep DEF Safe
<1>2. TypeOK /\ OneKeyPart /\ CountPart
  BY SafeParts
<1>3. ASSUME NEW c \in Clients, Request(c) \/ Fault(c) PROVE OneKeyPart' /\ CountPart'
  BY <1>2, <1>3, MovesKept, OwnersKept, CountsKept
<1>4. ASSUME NEW k \in Keys, GoStale(k) PROVE OneKeyPart' /\ CountPart'
  BY <1>2, <1>4, GoStaleKeeps
<1>5. ASSUME NEW i \in Ids, Close(i) PROVE OneKeyPart' /\ CountPart'
  BY <1>2, <1>5, QuietKeeps DEF Close, requestVars, faultVars
<1>6. ASSUME UNCHANGED vars PROVE OneKeyPart' /\ CountPart'
  BY <1>2, <1>6, QuietKeeps DEF vars, requestVars, faultVars
<1>7. OneKeyPart' /\ CountPart'
  BY <1>3, <1>4, <1>5, <1>6 DEF Next
<1> QED BY <1>1, <1>7, SafePartsNext

\* The inductive invariant: who owns a key's claim, what the owner and the
\* answered clients know of its row, and how often its report was counted.
THEOREM FilingSafe == ASSUME SlowOwners = FALSE PROVE Spec => []FilingInvariant
<1>1. Safe => FilingInvariant
  BY DEF Safe
<1> QED BY <1>1, SafeInit, SafeStep, PTL DEF Spec

\* Past its claim there is one request per key, whatever retries, deaths and
\* lost releases came before: only the conditional UPDATE hands a claim over.
THEOREM OneOwner == ASSUME SlowOwners = FALSE PROVE Spec => []OneOwnerPerKey
<1>1. FilingInvariant => OneOwnerPerKey
  BY DEF FilingInvariant
<1> QED BY <1>1, FilingSafe, PTL

\* A key's report is counted once, plus at most once for each process death and
\* each failure at or after COMMIT.
THEOREM ReportsCountedOnce == ASSUME SlowOwners = FALSE PROVE Spec => []EachReportOnce
<1>1. Safe => EachReportOnce
  BY Numbers DEF Safe, Inductive, FilingInvariant, EachReportOnce
<1> QED BY <1>1, SafeInit, SafeStep, PTL DEF Spec

\* Every success answered for one key names the same complaint.
THEOREM AnswersNameOneComplaint == ASSUME SlowOwners = FALSE PROVE Spec => []AnswersAgree
<1>1. Safe => AnswersAgree
  <2>1. Safe => \A k \in Keys : claim[k].state = "stored" => claim[k].body # 0
    BY TypeParts DEF Safe, Inductive, ClaimType
  <2> QED BY <2>1, CodeFacts DEF Safe, FilingInvariant, AnswersAgree
<1> QED BY <1>1, SafeInit, SafeStep, PTL DEF Spec

=============================================================================
