--------------------------- MODULE ComplaintFiling ---------------------------
(***************************************************************************)
(* Filing a complaint: POST /complaints of routes/authority.ts on the      *)
(* gateway, with the idempotency claim of idempotency.ts around it.        *)
(*                                                                         *)
(* A request claims its key, looks for an open complaint nearby, merges    *)
(* into it under a row lock or inserts a new one in the same transaction,  *)
(* and stores its answer.  Clients repeat a request that was not answered  *)
(* with success.  All reports are at one spot and name no id of their own; *)
(* escalating a merge leaves it open, so it is not told apart here.        *)
(***************************************************************************)
EXTENDS Naturals, Sequences

CONSTANTS
  Clients,          (* one request at a time each                          *)
  KeyOf,            (* KeyOf[c]: its idempotency key                       *)
  HashOf,           (* HashOf[c]: the hash of its payload                  *)
  ScanAttempts,     (* MERGE_SCAN_ATTEMPTS                                 *)
  SlowOwners,       (* whether a create may take longer than the claim TTL *)
  MaxTxErrors,      (* bound on failed statements before COMMIT            *)
  MaxLateErrors,    (* bound on failures at or after COMMIT                *)
  MaxCrashes,       (* bound on requests whose process dies                *)
  MaxCloses         (* bound on complaints resolved meanwhile              *)

Keys == {KeyOf[c] : c \in Clients}
NoOne == "nobody"

ASSUME FilingAssumption ==
  /\ NoOne \notin Clients
  /\ DOMAIN KeyOf = Clients /\ DOMAIN HashOf = Clients
  /\ ScanAttempts \in Nat \ {0} /\ SlowOwners \in BOOLEAN
  /\ MaxTxErrors \in Nat /\ MaxLateErrors \in Nat
  /\ MaxCrashes \in Nat /\ MaxCloses \in Nat

VARIABLES
  claim,        (* claim[k]: the row of api_idempotency_keys               *)
  complaints,   (* committed complaints, in the order of creation          *)
  lock,         (* lock[i]: who holds the row lock on complaint i          *)
  pc,           (* where the request of a client is                        *)
  target,       (* complaint found by the scan, or locked (0: none)        *)
  tries,        (* stale candidates seen under the lock                    *)
  filed,        (* complaint this attempt has committed to (0: none)       *)
  answer,       (* last answer of a client: code and complaint             *)
  reports,      (* reports[k]: times key k was counted in a complaint      *)
  txErrors, lateErrors, crashes, closes

requestVars == <<pc, target, tries, filed, answer>>
faultVars == <<txErrors, lateErrors, crashes>>
vars == <<claim, complaints, lock, requestVars, reports, faultVars, closes>>

NoClaim == [state |-> "none", hash |-> "", stale |-> FALSE, body |-> 0]
Ids == 1..Len(complaints)
Hashes == {HashOf[c] : c \in Clients}
Places == {"idle", "insert", "select", "reclaim", "scan", "lock", "write", "store", "release", "done"}
Codes == {"none", "ok", "reused", "busy", "failed", "retry"}    \* 200 409 409 500 503

TypeOK ==
  /\ claim \in [Keys -> [state : {"none", "claimed", "stored"}, hash : Hashes \cup {""},
                         stale : BOOLEAN, body : 0..Len(complaints)]]
  /\ \A k \in Keys : claim[k].state = "stored" <=> claim[k].body # 0
  /\ complaints \in Seq([open : BOOLEAN, count : Nat \ {0}])
  /\ lock \in [Ids -> Clients \cup {NoOne}]
  /\ pc \in [Clients -> Places]
  /\ target \in [Clients -> 0..Len(complaints)] /\ filed \in [Clients -> 0..Len(complaints)]
  /\ tries \in [Clients -> 0..ScanAttempts]
  /\ answer \in [Clients -> [code : Codes, id : 0..Len(complaints)]]
  /\ reports \in [Keys -> Nat]
  /\ \A i \in Ids : lock[i] \in Clients => pc[lock[i]] = "write" /\ target[lock[i]] = i
  /\ txErrors \in 0..MaxTxErrors /\ lateErrors \in 0..MaxLateErrors
  /\ crashes \in 0..MaxCrashes /\ closes \in 0..MaxCloses

Init ==
  /\ claim = [k \in Keys |-> NoClaim]
  /\ complaints = <<>> /\ lock = <<>>
  /\ pc = [c \in Clients |-> "idle"]
  /\ target = [c \in Clients |-> 0] /\ tries = [c \in Clients |-> 0]
  /\ filed = [c \in Clients |-> 0]
  /\ answer = [c \in Clients |-> [code |-> "none", id |-> 0]]
  /\ reports = [k \in Keys |-> 0]
  /\ txErrors = 0 /\ lateErrors = 0 /\ crashes = 0 /\ closes = 0

Goto(c, place) == pc' = [pc EXCEPT ![c] = place]

\* The request of c ends with this answer: only a success, or a key that was
\* used for another payload, keeps the client from sending it again.
Answer(c, code, id) ==
  /\ answer' = [answer EXCEPT ![c] = [code |-> code, id |-> id]]
  /\ Goto(c, IF code \in {"ok", "reused"} THEN "done" ELSE "idle")
  /\ target' = [target EXCEPT ![c] = 0] /\ tries' = [tries EXCEPT ![c] = 0]
  /\ filed' = [filed EXCEPT ![c] = 0]

TxError == txErrors < MaxTxErrors /\ txErrors' = txErrors + 1 /\ UNCHANGED <<lateErrors, crashes>>
LateError == lateErrors < MaxLateErrors /\ lateErrors' = lateErrors + 1 /\ UNCHANGED <<txErrors, crashes>>

-----------------------------------------------------------------------------
(* claimIdempotency.                                                       *)

Send(c) ==
  /\ pc[c] = "idle" /\ Goto(c, "insert")
  /\ UNCHANGED <<claim, complaints, lock, target, tries, filed, answer, reports, faultVars, closes>>

Taken(c) == [state |-> "claimed", hash |-> HashOf[c], stale |-> FALSE, body |-> 0]

InsertMutant(c) ==      \* ON CONFLICT DO UPDATE: counts as a fresh claim
  /\ pc[c] = "insert"
  /\ claim' = [claim EXCEPT ![KeyOf[c]] = Taken(c)] /\ Goto(c, "scan")
  /\ UNCHANGED <<complaints, lock, target, tries, filed, answer, reports, faultVars, closes>>

\* INSERT ... ON CONFLICT DO NOTHING.
InsertClaim(c) ==
  /\ pc[c] = "insert"
  /\ IF claim[KeyOf[c]].state = "none"
       THEN claim' = [claim EXCEPT ![KeyOf[c]] = Taken(c)] /\ Goto(c, "scan")
       ELSE UNCHANGED claim /\ Goto(c, "select")
  /\ UNCHANGED <<complaints, lock, target, tries, filed, answer, reports, faultVars, closes>>

\* The existing row: gone since the INSERT, of another payload, stored, or
\* incomplete.
SelectClaim(c) ==
  /\ pc[c] = "select"
  /\ LET row == claim[KeyOf[c]]
     IN CASE row.state = "none"       -> Answer(c, "failed", 0)
          [] row.hash # HashOf[c]     -> Answer(c, "reused", 0)
          [] row.state = "stored"     -> Answer(c, "ok", row.body)
          [] OTHER -> Goto(c, "reclaim") /\ UNCHANGED <<target, tries, filed, answer>>
  /\ UNCHANGED <<claim, complaints, lock, reports, faultVars, closes>>

ReclaimMutant(c) ==      \* updated_at is not renewed by the UPDATE
  /\ pc[c] = "reclaim"
  /\ IF claim[KeyOf[c]].state = "claimed" /\ claim[KeyOf[c]].stale
       THEN Goto(c, "scan") /\ UNCHANGED <<claim, target, tries, filed, answer>>
       ELSE UNCHANGED claim /\ Answer(c, "busy", 0)
  /\ UNCHANGED <<complaints, lock, reports, faultVars, closes>>

NeverReclaim(c) ==      \* an incomplete claim is never taken over
  /\ pc[c] = "reclaim"
  /\ Answer(c, "busy", 0)
  /\ UNCHANGED <<claim, complaints, lock, reports, faultVars, closes>>

\* The conditional UPDATE: only one request takes a stale claim over.
Reclaim(c) ==
  /\ pc[c] = "reclaim"
  /\ IF claim[KeyOf[c]].state = "claimed" /\ claim[KeyOf[c]].stale
       THEN /\ claim' = [claim EXCEPT ![KeyOf[c]].stale = FALSE]
            /\ Goto(c, "scan") /\ UNCHANGED <<target, tries, filed, answer>>
       ELSE UNCHANGED claim /\ Answer(c, "busy", 0)
  /\ UNCHANGED <<complaints, lock, reports, faultVars, closes>>

-----------------------------------------------------------------------------
(* The transaction.                                                        *)

Newest(i) == complaints[i].open /\ \A j \in Ids : complaints[j].open => j <= i

\* The unlocked scan: the newest open complaint, if any.
Scan(c) ==
  /\ pc[c] = "scan"
  /\ \/ \E i \in Ids : Newest(i) /\ target' = [target EXCEPT ![c] = i] /\ Goto(c, "lock")
     \/ /\ \A i \in Ids : ~complaints[i].open
        /\ target' = [target EXCEPT ![c] = 0] /\ Goto(c, "write")
  /\ UNCHANGED <<claim, complaints, lock, tries, filed, answer, reports, faultVars, closes>>

LockMutant(c) ==      \* the row is not looked at again under the lock
  /\ pc[c] = "lock" /\ lock[target[c]] = NoOne
  /\ lock' = [lock EXCEPT ![target[c]] = c] /\ Goto(c, "write") /\ UNCHANGED <<tries, target>>
  /\ UNCHANGED <<claim, complaints, filed, answer, reports, faultVars, closes>>

\* SELECT ... FOR UPDATE waits for the lock; the row is checked again under it.
\* A stale candidate keeps its lock until the transaction ends; as nothing
\* writes a closed complaint, the lock is left out.
Lock(c) ==
  /\ pc[c] = "lock" /\ lock[target[c]] = NoOne
  /\ IF complaints[target[c]].open
       THEN lock' = [lock EXCEPT ![target[c]] = c] /\ Goto(c, "write") /\ UNCHANGED <<tries, target>>
       ELSE /\ tries' = [tries EXCEPT ![c] = @ + 1]
            /\ target' = [target EXCEPT ![c] = 0]
            /\ Goto(c, IF tries[c] + 1 < ScanAttempts THEN "scan" ELSE "release")
            /\ UNCHANGED lock
  /\ UNCHANGED <<claim, complaints, filed, answer, reports, faultVars, closes>>

\* A scan that finds nothing after a stale candidate is contention as well.
MayWrite(c) == target[c] # 0 \/ tries[c] = 0

Unlock(c) == [i \in DOMAIN lock |-> IF lock[i] = c THEN NoOne ELSE lock[i]]

\* COMMIT: one more report in the locked complaint, or a new complaint.
CommitEffect(c) ==
  /\ reports' = [reports EXCEPT ![KeyOf[c]] = @ + 1]
  /\ IF target[c] # 0
       THEN /\ complaints' = [complaints EXCEPT ![target[c]].count = @ + 1]
            /\ lock' = Unlock(c)
            /\ filed' = [filed EXCEPT ![c] = target[c]]
       ELSE /\ complaints' = Append(complaints, [open |-> TRUE, count |-> 1])
            /\ lock' = Append(lock, NoOne)
            /\ filed' = [filed EXCEPT ![c] = Len(complaints) + 1]

Write(c) ==
  /\ pc[c] = "write"
  /\ IF MayWrite(c)
       THEN CommitEffect(c) /\ Goto(c, "store")
       ELSE Goto(c, "release") /\ UNCHANGED <<complaints, lock, filed, reports>>
  /\ UNCHANGED <<claim, target, tries, answer, faultVars, closes>>

\* A statement of the transaction throws: everything is rolled back.
TxFails(c) ==
  /\ pc[c] \in {"scan", "lock", "write"} /\ TxError
  /\ lock' = Unlock(c)
  /\ Goto(c, "release") /\ target' = [target EXCEPT ![c] = 0]
  /\ UNCHANGED <<claim, complaints, tries, filed, answer, reports, closes>>

\* The answer to COMMIT is lost: the route sees an error for a durable write.
CommitUnknown(c) ==
  /\ pc[c] = "write" /\ MayWrite(c) /\ LateError
  /\ CommitEffect(c) /\ Goto(c, "release")
  /\ UNCHANGED <<claim, target, tries, answer, closes>>

-----------------------------------------------------------------------------
(* The answer.                                                             *)

StoredNoBody(c) ==      \* response_code without response_body
  IF claim[KeyOf[c]].state = "none" THEN claim
  ELSE [claim EXCEPT ![KeyOf[c]].state = "stored"]

StoredLatest(c) ==      \* the latest complaint, not the one this request filed
  IF claim[KeyOf[c]].state = "none" THEN claim
  ELSE [claim EXCEPT ![KeyOf[c]] = [@ EXCEPT !.state = "stored", !.body = Len(complaints)]]

Stored(c) ==
  IF claim[KeyOf[c]].state = "none" THEN claim
  ELSE [claim EXCEPT ![KeyOf[c]] = [@ EXCEPT !.state = "stored", !.stale = FALSE, !.body = filed[c]]]

\* The UPDATE of storeIdempotencyResult; then the request answers.
Store(c) ==
  /\ pc[c] = "store"
  /\ claim' = Stored(c)
  /\ Answer(c, "ok", filed[c])
  /\ UNCHANGED <<complaints, lock, reports, faultVars, closes>>

StoreFails(c) ==
  /\ pc[c] = "store" /\ LateError
  /\ claim' \in {claim, Stored(c)}
  /\ Goto(c, "release")
  /\ UNCHANGED <<complaints, lock, target, tries, filed, answer, reports, closes>>

ReleasedAnyway(k) == [claim EXCEPT ![k] = NoClaim]    \* stored answers are dropped too

Released(k) == IF claim[k].state = "claimed" THEN [claim EXCEPT ![k] = NoClaim] ELSE claim

\* The catch block: the incomplete claim is dropped, the error answered.
Release(c) ==
  /\ pc[c] = "release"
  /\ claim' = Released(KeyOf[c])
  /\ Answer(c, IF tries[c] > 0 THEN "retry" ELSE "failed", 0)
  /\ UNCHANGED <<complaints, lock, reports, faultVars, closes>>

\* releaseIdempotencyKey ignores its own failure.
ReleaseFails(c) ==
  /\ pc[c] = "release" /\ TxError
  /\ Answer(c, IF tries[c] > 0 THEN "retry" ELSE "failed", 0)
  /\ UNCHANGED <<claim, complaints, lock, reports, closes>>

Request(c) ==
  \/ Send(c) \/ InsertClaim(c) \/ SelectClaim(c) \/ Reclaim(c)
  \/ Scan(c) \/ Lock(c) \/ Write(c) \/ Store(c) \/ Release(c)

-----------------------------------------------------------------------------
(* The surroundings.                                                       *)

Owning(c) == pc[c] \in {"scan", "lock", "write", "store", "release"}

\* CLAIM_TTL_SECONDS pass since the row was last written.
GoStale(k) ==
  /\ claim[k].state = "claimed" /\ ~claim[k].stale
  /\ SlowOwners \/ \A c \in Clients : KeyOf[c] = k => ~Owning(c)
  /\ claim' = [claim EXCEPT ![k].stale = TRUE]
  /\ UNCHANGED <<complaints, lock, requestVars, reports, faultVars, closes>>

\* The process dies: the database rolls its transaction back, the client's
\* connection breaks and it sends its request again.
Crash(c) ==
  /\ pc[c] \notin {"idle", "done"}
  /\ crashes < MaxCrashes /\ crashes' = crashes + 1
  /\ lock' = Unlock(c) /\ Answer(c, "none", 0)
  /\ UNCHANGED <<claim, complaints, reports, txErrors, lateErrors, closes>>

\* Another route resolves a complaint; its UPDATE waits for the row lock.
Close(i) ==
  /\ closes < MaxCloses /\ closes' = closes + 1
  /\ complaints[i].open /\ lock[i] = NoOne
  /\ complaints' = [complaints EXCEPT ![i].open = FALSE]
  /\ UNCHANGED <<claim, lock, requestVars, reports, faultVars>>

Fault(c) == TxFails(c) \/ CommitUnknown(c) \/ StoreFails(c) \/ ReleaseFails(c) \/ Crash(c)

Next ==
  \/ \E c \in Clients : Request(c) \/ Fault(c)
  \/ \E k \in Keys : GoStale(k)
  \/ \E i \in Ids : Close(i)

Spec == Init /\ [][Next]_vars

\* Clients repeat, statements return, time passes.
Fairness ==
  /\ \A c \in Clients : WF_vars(Request(c))
  /\ \A k \in Keys : WF_vars(GoStale(k))

FairSpec == Spec /\ Fairness

-----------------------------------------------------------------------------
(* Properties.                                                             *)

\* "Two concurrent retries cannot both proceed": past its claim there is one
\* request per key, while a create takes less than the claim's TTL.
OneOwnerPerKey ==
  \A c, d \in Clients : c # d /\ KeyOf[c] = KeyOf[d] => ~(Owning(c) /\ Owning(d))

\* Repeated and concurrent requests with one key are counted once; each process
\* death, and each failure at or after COMMIT, may cost one repetition.
EachReportOnce == \A k \in Keys : reports[k] <= 1 + crashes + lateErrors

\* Every success answered for a key names the complaint that was filed for it.
AnswersAgree ==
  \A c, d \in Clients : KeyOf[c] = KeyOf[d] /\ answer[c].code = "ok" /\ answer[d].code = "ok"
    => answer[c].id = answer[d].id /\ answer[c].id # 0

\* A complaint that was resolved or removed between the scan and the lock is no
\* merge target: report_count changes only while the complaint is open.
MergedWhileOpen ==
  [][\A i \in Ids : complaints'[i].count # complaints[i].count => complaints[i].open]_vars

\* Why they hold: what a request may count on.  A merge is written under the row
\* lock of an open complaint, and only an answer to COMMIT leads to "store".
RequestKnows(c) ==
  /\ pc[c] # "release" => tries[c] < ScanAttempts
  /\ pc[c] = "lock" => target[c] # 0
  /\ pc[c] = "store" => filed[c] # 0
  /\ pc[c] = "write" /\ target[c] # 0 =>
       lock[target[c]] = c /\ complaints[target[c]].open

\* While a create is shorter than the claim's TTL, its row stays as the request
\* left it: claimed and fresh, or stored by an UPDATE whose answer was lost.
OwnerKnows(c) ==
  Owning(c) => \/ claim[KeyOf[c]].state = "claimed" /\ ~claim[KeyOf[c]].stale
               \/ claim[KeyOf[c]].state = "stored" /\ pc[c] = "release"

\* The key's report is counted, and its answer stored or about to be.
Kept(k) ==
  claim[k].state = "stored" \/ \E c \in Clients : KeyOf[c] = k /\ pc[c] = "store"

\* The inductive invariant behind the four properties above.
FilingInvariant ==
  /\ OneOwnerPerKey
  /\ \A c \in Clients :
       /\ RequestKnows(c) /\ OwnerKnows(c)
       /\ answer[c].code = "ok" =>
            claim[KeyOf[c]].state = "stored" /\ answer[c].id = claim[KeyOf[c]].body
  /\ \A k \in Keys : reports[k] <= crashes + lateErrors + (IF Kept(k) THEN 1 ELSE 0)

\* The catch block: "reaching here means none of it committed and the retry
\* starts clean".
ReleaseStartsClean == \A c \in Clients : pc[c] = "release" => filed[c] = 0

\* A key is never blocked for good: every client is answered in the end, with
\* success or because it used the key for another payload.
AllAnswered == \A c \in Clients : pc[c] = "done"
EventuallyAnswered == <>AllAnswered
=============================================================================
