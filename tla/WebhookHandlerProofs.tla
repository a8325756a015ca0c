------------------------ MODULE WebhookHandlerProofs ------------------------
(***************************************************************************)
(* Proofs about WebhookHandler for any consumers, partitions and messages, *)
(* and any number of handler errors, Redis errors, deaths and rebalances.  *)
(***************************************************************************)
EXTENDS WebhookHandler, FiniteSetTheorems, WellFoundedInduction, TLAPS

\* A set of natural numbers that is not empty has a minimum, and Min is it.
LEMMA MinIsLeast ==
  ASSUME NEW S \in SUBSET Nat, S # {} PROVE Min(S) \in S /\ \A y \in S : Min(S) =< y
<1>1. \E x \in S : \A y \in S : ~ (<<y, x>> \in OpToRel(<, Nat))
  BY NatLessThanWellFounded, WFMin
<1>2. PICK m \in S : \A y \in S : ~ (<<y, m>> \in OpToRel(<, Nat))
  BY <1>1
<1>3. ASSUME NEW y \in S PROVE m =< y
  <2>1. y < m <=> <<y, m>> \in OpToRel(<, Nat)
    <3>1. <<y, m>> \in Nat \X Nat /\ <<y, m>>[1] = y /\ <<y, m>>[2] = m
      OBVIOUS
    <3> QED BY <3>1, Zenon DEF OpToRel
  <2>2. ~ (y < m)
    BY <1>2, <2>1, Zenon
  <2> QED BY <2>2
<1> QED BY <1>3 DEF Min

-----------------------------------------------------------------------------
(* What a step must know for the properties to be inductive.               *)

Busy == {"work", "release", "deadLetter"}

CallRecord ==
  [at : {"idle", "claim"} \cup Busy, msg : 0..NumMsgs, step : Nat]

GroupTypes ==
  /\ owner \in [Partitions -> Consumers]
  /\ pos \in [Partitions -> 0..NumMsgs] /\ committed \in [Partitions -> 0..NumMsgs]

RunTypes ==
  /\ run \in [Consumers -> [Partitions -> CallRecord]]
  /\ \A c \in Consumers, p \in Partitions : run[c][p].at # "idle" =>
       run[c][p].msg \in Msgs /\ PartOf[run[c][p].msg] = p

StoreTypes ==
  /\ claims \subseteq Msgs /\ dlq \subseteq Msgs
  /\ completions \in [Msgs -> Nat] /\ column \in [Partitions -> 0..NumMsgs]
  /\ redisErrors \in Nat /\ moves \in Nat

\* The consumers that have m beyond its claim.
Doing(m) ==
  {c \in Consumers : run[c][PartOf[m]].at \in Busy /\ run[c][PartOf[m]].msg = m}

Dead(m) == IF m \in dlq THEN 1 ELSE 0
Claimed(m) == IF m \in claims THEN 1 ELSE 0

\* What has been done and is being done of a message, the claim of its key or a
\* Redis failure accounts for.
ClaimsAccount ==
  \A m \in Msgs : completions[m] + Dead(m) + Cardinality(Doing(m)) <= redisErrors + Claimed(m)

\* The messages of a partition that lie behind position n have their keys.
BehindClaimed(p, n) == \A m \in Msgs : PartOf[m] = p /\ m <= n => m \in claims

\* While no partition has moved and Redis has not failed, only the owner runs a
\* handler, on the next message of the partition, which is no older than the
\* event that last wrote the status.
InOrder ==
  moves = 0 /\ redisErrors = 0 =>
    /\ \A c \in Consumers, p \in Partitions : run[c][p].at # "idle" =>
         /\ owner[p] = c
         /\ BehindClaimed(p, run[c][p].msg - 1)
         /\ run[c][p].at \in Busy => run[c][p].msg \in claims /\ column[p] <= run[c][p].msg
         /\ pos[p] < run[c][p].msg
    /\ \A p \in Partitions : /\ BehindClaimed(p, pos[p]) /\ BehindClaimed(p, column[p] - 1)
                              /\ committed[p] <= pos[p]

HInv == GroupTypes /\ RunTypes /\ StoreTypes /\ ClaimsAccount /\ InOrder

LEMMA ConsumerSets ==
  ASSUME NEW S \in SUBSET Consumers PROVE IsFiniteSet(S) /\ Cardinality(S) \in Nat
BY FS_Subset, FS_CardinalityType, WebhookAssumption

LEMMA DoingFinite ==
  ASSUME NEW m PROVE IsFiniteSet(Doing(m)) /\ Cardinality(Doing(m)) \in Nat
BY ConsumerSets DEF Doing

LEMMA InitHInv == Init => HInv
<1> SUFFICES ASSUME Init PROVE HInv
  OBVIOUS
<1> USE WebhookAssumption DEF Init
<1>1. GroupTypes /\ StoreTypes
  BY DEF GroupTypes, StoreTypes
<1>2. RunTypes
  BY DEF RunTypes, CallRecord, Idle
<1>3. ClaimsAccount
  <2>1. \A m \in Msgs : Doing(m) = {}
    BY DEF Doing, Idle, Busy
  <2>2. \A m \in Msgs : Cardinality(Doing(m)) = 0
    BY <2>1, FS_EmptySet
  <2> QED BY <2>2 DEF ClaimsAccount, Dead, Claimed
<1>4. InOrder
  BY DEF InOrder, BehindClaimed, Idle, Msgs
<1> QED BY <1>1, <1>2, <1>3, <1>4 DEF HInv

-----------------------------------------------------------------------------
(* What the steps share.                                                   *)

\* The call of c on p becomes new.
Becomes(c, p, new) == run' = [run EXCEPT ![c][p] = new]

LEMMA CallChanges ==
  ASSUME HInv, NEW c \in Consumers, NEW p \in Partitions, NEW new \in CallRecord,
         new.at # "idle" => new.msg \in Msgs /\ PartOf[new.msg] = p,
         Becomes(c, p, new)
  PROVE  /\ RunTypes'
         /\ run'[c][p] = new
         /\ \A d \in Consumers, q \in Partitions : d # c \/ q # p => run'[d][q] = run[d][q]
         /\ \A m \in Msgs : Doing(m)' =
              IF new.at \in Busy /\ new.msg = m THEN Doing(m) \cup {c}
              ELSE IF PartOf[m] = p THEN Doing(m) \ {c} ELSE Doing(m)
<1>1. run \in [Consumers -> [Partitions -> CallRecord]]
  BY DEF HInv, RunTypes
<1>2. run' = [run EXCEPT ![c] = [run[c] EXCEPT ![p] = new]]
  BY DEF Becomes
<1>3. /\ run' \in [Consumers -> [Partitions -> CallRecord]]
      /\ run'[c][p] = new
      /\ \A d \in Consumers, q \in Partitions : d # c \/ q # p => run'[d][q] = run[d][q]
  BY <1>1, <1>2
<1>4. RunTypes'
  <2> SUFFICES ASSUME NEW d \in Consumers, NEW q \in Partitions, run'[d][q].at # "idle"
               PROVE  run'[d][q].msg \in Msgs /\ PartOf[run'[d][q].msg] = q
    BY <1>3 DEF RunTypes
  <2>1. CASE d = c /\ q = p
    BY <1>3, <2>1
  <2>2. CASE d # c \/ q # p
    BY <1>3, <2>2 DEF HInv, RunTypes
  <2> QED BY <2>1, <2>2
<1>5. ASSUME NEW m \in Msgs
      PROVE  Doing(m)' = IF new.at \in Busy /\ new.msg = m THEN Doing(m) \cup {c}
                         ELSE IF PartOf[m] = p THEN Doing(m) \ {c} ELSE Doing(m)
  <2>1. PartOf[m] \in Partitions
    BY WebhookAssumption
  <2>2. CASE new.at \in Busy /\ new.msg = m
    <3>1. PartOf[m] = p
      BY <2>2 DEF Busy
    <3> QED BY <1>3, <2>2, <3>1 DEF Doing
  <2>3. CASE ~ (new.at \in Busy /\ new.msg = m) /\ PartOf[m] = p
    BY <1>3, <2>3 DEF Doing
  <2>4. CASE ~ (new.at \in Busy /\ new.msg = m) /\ PartOf[m] # p
    <3>1. \A d \in Consumers : run'[d][PartOf[m]] = run[d][PartOf[m]]
      BY <1>3, <2>1, <2>4
    <3> QED BY <2>4, <3>1 DEF Doing
  <2> QED BY <2>2, <2>3, <2>4
<1> QED BY <1>3, <1>4, <1>5

\* A step of a call that has the message m, which touches no other.
LEMMA OneMessage ==
  ASSUME HInv, NEW c \in Consumers, NEW p \in Partitions, NEW new \in CallRecord,
         NEW m \in Msgs, m = run[c][p].msg, run[c][p].at # "idle",
         new.at # "idle" => new.msg = m,
         Becomes(c, p, new),
         StoreTypes', redisErrors <= redisErrors',
         \A k \in Msgs \ {m} : /\ completions'[k] = completions[k]
                               /\ k \in dlq' <=> k \in dlq
                               /\ k \in claims' <=> k \in claims,
         completions'[m] + Dead(m)' + Cardinality(Doing(m))
             + (IF new.at \in Busy THEN 1 ELSE 0)
             - (IF run[c][p].at \in Busy THEN 1 ELSE 0)
           <= redisErrors' + Claimed(m)'
  PROVE  ClaimsAccount'
<1>1. PartOf[m] = p
  BY DEF HInv, RunTypes
<1>2. \A k \in Msgs : Doing(k)' =
        IF new.at \in Busy /\ new.msg = k THEN Doing(k) \cup {c}
        ELSE IF PartOf[k] = p THEN Doing(k) \ {c} ELSE Doing(k)
  <2>1. new.at # "idle" => new.msg \in Msgs /\ PartOf[new.msg] = p
    BY <1>1
  <2> QED BY <2>1, CallChanges
<1> USE DEF HInv
<1>3. c \in Doing(m) <=> run[c][p].at \in Busy
  BY <1>1 DEF Doing
<1> SUFFICES ASSUME NEW k \in Msgs
             PROVE  completions'[k] + Dead(k)' + Cardinality(Doing(k)') <= redisErrors' + Claimed(k)'
  BY DEF ClaimsAccount
<1>4. CASE k = m
  <2>1. Cardinality(Doing(m)') = Cardinality(Doing(m))
             + (IF new.at \in Busy THEN 1 ELSE 0) - (IF run[c][p].at \in Busy THEN 1 ELSE 0)
    <3>1. CASE new.at \in Busy
      <4>1. Doing(m)' = Doing(m) \cup {c}
        BY <1>2, <3>1 DEF Busy
      <4>2. /\ Cardinality(Doing(m)') =
                 IF c \in Doing(m) THEN Cardinality(Doing(m)) ELSE Cardinality(Doing(m)) + 1
            /\ Cardinality(Doing(m)) \in Nat
        <5>1. IsFiniteSet(Doing(m)) /\ Cardinality(Doing(m)) \in Nat
          BY DoingFinite
        <5>2. Cardinality(Doing(m) \cup {c}) =
                 IF c \in Doing(m) THEN Cardinality(Doing(m)) ELSE Cardinality(Doing(m)) + 1
          BY <5>1, FS_AddElement
        <5> QED BY <4>1, <5>1, <5>2
      <4> QED BY <1>3, <3>1, <4>2
    <3>2. CASE new.at \notin Busy
      <4>1. Doing(m)' = Doing(m) \ {c}
        BY <1>1, <1>2, <3>2
      <4>2. /\ Cardinality(Doing(m)') =
                 IF c \in Doing(m) THEN Cardinality(Doing(m)) - 1 ELSE Cardinality(Doing(m))
            /\ Cardinality(Doing(m)) \in Nat
        BY <4>1, DoingFinite, FS_RemoveElement
      <4> QED BY <1>3, <3>2, <4>2
    <3> QED BY <3>1, <3>2
  <2>2. Dead(m)' \in {0, 1} /\ completions'[m] \in Nat /\ Cardinality(Doing(m)) \in Nat
    BY DoingFinite DEF Dead, StoreTypes
  <2> QED BY <1>4, <2>1, <2>2
<1>5. CASE k # m
  <2>1. Doing(k)' = Doing(k)
    <3>1. PartOf[k] = p => c \notin Doing(k)
      BY <1>5 DEF Doing
    <3>2. ~ (new.at \in Busy /\ new.msg = k)
      BY <1>5 DEF Busy
    <3> QED BY <1>2, <3>1, <3>2
  <2>2. Dead(k)' = Dead(k) /\ Claimed(k)' = Claimed(k) /\ completions'[k] = completions[k]
    BY <1>5 DEF Dead, Claimed
  <2>3. /\ completions[k] \in Nat /\ Dead(k) \in Nat /\ Claimed(k) \in Nat
        /\ Cardinality(Doing(k)) \in Nat /\ redisErrors \in Nat /\ redisErrors' \in Nat
    BY DoingFinite DEF Dead, Claimed, StoreTypes
  <2>4. completions[k] + Dead(k) + Cardinality(Doing(k)) <= redisErrors + Claimed(k)
    BY DEF ClaimsAccount
  <2> QED BY <2>1, <2>2, <2>3, <2>4
<1> QED BY <1>4, <1>5

LEMMA OneMessageInOrder ==
  ASSUME HInv, NEW c \in Consumers, NEW p \in Partitions, NEW new \in CallRecord,
         NEW m \in Msgs, m = run[c][p].msg, run[c][p].at # "idle",
         new.at # "idle" => new.msg = m,
         Becomes(c, p, new),
         UNCHANGED <<owner, committed, redisErrors, moves>>, GroupTypes', StoreTypes',
         \A k \in Msgs \ {m} : k \in claims' <=> k \in claims,
         \A q \in Partitions \ {p} : pos'[q] = pos[q] /\ column'[q] = column[q],
         \/ m \in claims'
         \/ m \notin claims
         \/ run[c][p].at \in Busy /\ new.at = "idle",
         pos'[p] = pos[p] \/ (pos'[p] = m /\ m \in claims' /\ new.at = "idle"),
         column'[p] = column[p] \/ (run[c][p].at \in Busy /\ column'[p] = m),
         new.at \in Busy => m \in claims' /\ (run[c][p].at \in Busy \/ m \notin claims)
  PROVE  InOrder'
<1> SUFFICES ASSUME moves = 0, redisErrors = 0
    PROVE /\ \A d \in Consumers, q \in Partitions : run'[d][q].at # "idle" =>
               /\ owner[q] = d
               /\ BehindClaimed(q, run[d][q].msg - 1)'
               /\ run'[d][q].at \in Busy => /\ run'[d][q].msg \in claims'
                                            /\ column'[q] <= run'[d][q].msg
               /\ pos'[q] < run'[d][q].msg
          /\ \A q \in Partitions : /\ BehindClaimed(q, pos[q])' /\ BehindClaimed(q, column[q] - 1)'
                                    /\ committed[q] <= pos'[q]
  BY DEF InOrder
<1>1. /\ PartOf[m] = p /\ owner[p] = c /\ BehindClaimed(p, m - 1) /\ pos[p] < m
      /\ run[c][p].at \in Busy => m \in claims /\ column[p] <= m
      /\ BehindClaimed(p, pos[p]) /\ BehindClaimed(p, column[p] - 1)
  BY DEF HInv, InOrder, RunTypes
<1>2. /\ run'[c][p] = new
      /\ \A d \in Consumers, q \in Partitions : d # c \/ q # p => run'[d][q] = run[d][q]
  <2>1. new.at # "idle" => new.msg \in Msgs /\ PartOf[new.msg] = p
    BY <1>1
  <2> QED BY <2>1, CallChanges
<1> USE DEF HInv
<1>3. \A k \in Msgs : k \in Nat
  BY WebhookAssumption DEF Msgs
<1>4. pos[p] \in Nat /\ column[p] \in Nat /\ pos'[p] \in Nat /\ column'[p] \in Nat
  BY WebhookAssumption DEF GroupTypes, StoreTypes
<1>5. BehindClaimed(p, m - 1)'
  BY <1>1, <1>3 DEF BehindClaimed
<1>6. column[p] <= m \/ m \in claims
  BY <1>1, <1>3, <1>4 DEF BehindClaimed
<1>7. BehindClaimed(p, pos[p])' /\ BehindClaimed(p, column[p] - 1)'
  <2>1. BehindClaimed(p, pos[p])'
    <3>1. CASE pos'[p] = pos[p]
      BY <1>1, <1>3, <1>4, <3>1 DEF BehindClaimed
    <3>2. CASE pos'[p] = m /\ m \in claims'
      BY <1>3, <1>5, <3>2 DEF BehindClaimed
    <3> QED BY <3>1, <3>2
  <2>2. BehindClaimed(p, column[p] - 1)'
    <3>1. CASE column'[p] = m
      BY <1>5, <3>1 DEF BehindClaimed
    <3>2. CASE column'[p] = column[p]
      <4>1. \A k \in Msgs : PartOf[k] = p /\ k <= column[p] - 1 => k \in claims
        BY <1>1 DEF BehindClaimed
      <4>2. m \notin claims' => ~ (m <= column[p] - 1)
        BY <1>1, <1>3, <1>4, <4>1
      <4> QED BY <3>2, <4>1, <4>2 DEF BehindClaimed
    <3> QED BY <3>1, <3>2
  <2> QED BY <2>1, <2>2
<1>8. ASSUME NEW q \in Partitions, q # p
      PROVE  \A n : BehindClaimed(q, n) => BehindClaimed(q, n)'
  BY <1>1, <1>8 DEF BehindClaimed
<1>9. ASSUME NEW d \in Consumers, NEW q \in Partitions, run'[d][q].at # "idle"
      PROVE  /\ owner[q] = d
             /\ BehindClaimed(q, run[d][q].msg - 1)'
             /\ run'[d][q].at \in Busy => /\ run'[d][q].msg \in claims'
                                          /\ column'[q] <= run'[d][q].msg
             /\ pos'[q] < run'[d][q].msg
  <2>1. CASE q = p
    <3>1. d = c
      BY <1>1, <1>2, <1>9, <2>1 DEF InOrder
    <3>2. new.at # "idle" /\ new.msg = m /\ run'[d][q] = new
      BY <1>2, <1>9, <2>1, <3>1
    <3>3. new.at \in Busy => column'[p] <= m
      BY <1>1, <1>3, <1>4, <1>6
    <3>4. pos'[p] = pos[p]
      BY <3>2
    <3>5. BehindClaimed(q, run[d][q].msg - 1)'
      BY <1>5, <2>1, <3>2 DEF BehindClaimed
    <3> QED BY <1>1, <2>1, <3>1, <3>2, <3>3, <3>4, <3>5
  <2>2. CASE q # p
    <3>1. run'[d][q] = run[d][q]
      BY <1>2, <2>2
    <3>2. /\ owner[q] = d /\ BehindClaimed(q, run[d][q].msg - 1) /\ pos[q] < run[d][q].msg
          /\ run[d][q].at \in Busy => run[d][q].msg \in claims /\ column[q] <= run[d][q].msg
      BY <1>9, <3>1 DEF InOrder
    <3>3. run[d][q].msg # m /\ run[d][q].msg \in Msgs
      BY <1>1, <1>9, <2>2, <3>1 DEF RunTypes
    <3>4. \A k \in Msgs : PartOf[k] = q /\ k <= run[d][q].msg - 1 => k \in claims'
      BY <1>1, <2>2, <3>2 DEF BehindClaimed
    <3> QED BY <2>2, <3>1, <3>2, <3>3, <3>4 DEF BehindClaimed
  <2> QED BY <2>1, <2>2
<1>10. ASSUME NEW q \in Partitions
       PROVE  /\ BehindClaimed(q, pos[q])' /\ BehindClaimed(q, column[q] - 1)'
              /\ committed[q] <= pos'[q]
  <2>2. committed[q] <= pos[q]
    BY DEF InOrder
  <2>1. CASE q # p
    <3>1. BehindClaimed(q, pos[q]) /\ BehindClaimed(q, column[q] - 1)
      BY DEF InOrder
    <3>2. pos'[q] = pos[q] /\ column'[q] = column[q]
      BY <2>1
    <3> QED BY <1>1, <2>1, <2>2, <3>1, <3>2 DEF BehindClaimed
  <2>3. CASE q = p
    <3>1. committed[p] <= pos'[p]
      <4>1. committed[p] \in Nat
        BY WebhookAssumption DEF GroupTypes
      <4> QED BY <1>1, <1>3, <1>4, <2>2, <2>3, <4>1
    <3> QED BY <1>7, <2>3, <3>1
  <2> QED BY <2>1, <2>3
<1> QED BY <1>9, <1>10

LEMMA CallFacts ==
  ASSUME HInv, NEW c \in Consumers, NEW p \in Partitions, run[c][p].at # "idle"
  PROVE  /\ run[c][p].msg \in Msgs /\ PartOf[run[c][p].msg] = p /\ run[c][p] \in CallRecord
         /\ completions[run[c][p].msg] + Dead(run[c][p].msg) + Cardinality(Doing(run[c][p].msg))
              <= redisErrors + Claimed(run[c][p].msg)
BY DEF HInv, RunTypes, ClaimsAccount

LEMMA CountTypes ==
  ASSUME StoreTypes, NEW m \in Msgs
  PROVE  /\ completions[m] \in Nat /\ Dead(m) \in {0, 1} /\ Claimed(m) \in {0, 1}
         /\ Cardinality(Doing(m)) \in Nat /\ redisErrors \in Nat
BY DoingFinite DEF StoreTypes, Dead, Claimed

LEMMA GotoBecomes ==
  ASSUME HInv, NEW c \in Consumers, NEW p \in Partitions, NEW place \in Busy, NEW n \in Nat,
         Goto(c, p, place, n)
  PROVE  \E new \in CallRecord :
           new.at = place /\ new.msg = run[c][p].msg /\ Becomes(c, p, new)
<1>1. run \in [Consumers -> [Partitions -> CallRecord]]
  BY DEF HInv, RunTypes
<1> DEFINE new == [run[c][p] EXCEPT !.at = place, !.step = n]
<1>2. new \in CallRecord /\ new.at = place /\ new.msg = run[c][p].msg
  <2>1. run[c][p] \in CallRecord
    BY <1>1
  <2> QED BY <2>1 DEF CallRecord
<1>3. run' = [run EXCEPT ![c] = [run[c] EXCEPT ![p] = new]]
  BY <1>1 DEF Goto, CallRecord
<1> QED BY <1>2, <1>3 DEF Becomes

LEMMA IdleIsCall == Idle \in CallRecord /\ Idle.at = "idle" /\ Idle.at \notin Busy
BY WebhookAssumption DEF Idle, CallRecord, Busy

LEMMA ResolveMoves ==
  ASSUME HInv, NEW c \in Consumers, NEW p \in Partitions, run[c][p].at # "idle", Resolve(c, p)
  PROVE  /\ GroupTypes' /\ UNCHANGED <<owner, committed>> /\ Becomes(c, p, Idle)
         /\ \A q \in Partitions \ {p} : pos'[q] = pos[q]
         /\ pos'[p] = pos[p] \/ pos'[p] = run[c][p].msg
<1>1. run[c][p].msg \in 0..NumMsgs /\ GroupTypes
  BY CallFacts, WebhookAssumption DEF HInv, Msgs
<1> QED BY <1>1 DEF Resolve, Return, Becomes, GroupTypes

-----------------------------------------------------------------------------
(* The steps of a call.                                                    *)

LEMMA DeliverStep ==
  ASSUME HInv, NEW c \in Consumers, NEW p \in Partitions, Deliver(c, p) PROVE HInv'
<1> DEFINE ahead == {m \in Msgs : PartOf[m] = p /\ m > pos[p]}
           m == Min(ahead)
           new == [at |-> "claim", msg |-> Min(ahead), step |-> 0]
<1>0. \A k \in Msgs : k \in Nat
  BY WebhookAssumption DEF Msgs
<1>1. m \in ahead /\ \A k \in ahead : m <= k
  <2>1. ahead \in SUBSET Nat /\ ahead # {}
    BY <1>0 DEF Deliver
  <2> HIDE DEF ahead
  <2> QED BY <2>1, MinIsLeast
<1>2. m \in Msgs /\ PartOf[m] = p /\ pos[p] < m /\ m \in Nat /\ pos[p] \in Nat
  BY <1>0, <1>1, WebhookAssumption DEF HInv, GroupTypes
<1>3. /\ UNCHANGED <<groupVars, claims, storeVars, faultVars>>
      /\ owner[p] = c /\ run[c][p] = Idle
      /\ Becomes(c, p, new)
  BY DEF Deliver, Becomes
<1>4. \A k \in Msgs : PartOf[k] = p /\ k <= m - 1 => k <= pos[p]
  <2>1. \A k \in Msgs : PartOf[k] = p /\ k > pos[p] => m <= k
    BY <1>1
  <2> HIDE DEF m
  <2> QED BY <1>0, <1>2, <2>1
<1>5. new \in CallRecord /\ new.at = "claim" /\ new.msg = m
  <2>1. m \in 0..NumMsgs
    BY <1>2, WebhookAssumption DEF Msgs
  <2> HIDE DEF m
  <2> QED BY <2>1 DEF CallRecord, m
<1> HIDE DEF new, m, ahead
<1>6. /\ RunTypes' /\ run'[c][p] = new
      /\ \A d \in Consumers, q \in Partitions : d # c \/ q # p => run'[d][q] = run[d][q]
      /\ \A k \in Msgs : Doing(k)' = IF new.at \in Busy /\ new.msg = k THEN Doing(k) \cup {c}
                                     ELSE IF PartOf[k] = p THEN Doing(k) \ {c} ELSE Doing(k)
  <2>1. new.at # "idle" => new.msg \in Msgs /\ PartOf[new.msg] = p
    BY <1>2, <1>5
  <2> QED BY <1>3, <1>5, <2>1, CallChanges
<1> USE DEF HInv
<1>7. GroupTypes' /\ StoreTypes'
  BY <1>3 DEF GroupTypes, StoreTypes, groupVars, storeVars, faultVars
<1>8. ClaimsAccount'
  <2>1. \A k \in Msgs : Doing(k)' = Doing(k)
    <3> SUFFICES ASSUME NEW k \in Msgs PROVE Doing(k)' = Doing(k)
      OBVIOUS
    <3>1. PartOf[k] = p => c \notin Doing(k)
      BY <1>3, IdleIsCall DEF Doing
    <3>2. new.at \notin Busy
      BY <1>5 DEF Busy
    <3> QED BY <1>6, <3>1, <3>2
  <2> QED BY <1>3, <2>1 DEF ClaimsAccount, Dead, Claimed, storeVars, faultVars
<1>9. InOrder'
  <2> SUFFICES ASSUME moves = 0, redisErrors = 0
      PROVE /\ \A d \in Consumers, q \in Partitions : run'[d][q].at # "idle" =>
               /\ owner[q] = d /\ BehindClaimed(q, run'[d][q].msg - 1)
               /\ run'[d][q].at \in Busy => /\ run'[d][q].msg \in claims
                                            /\ column[q] <= run'[d][q].msg
               /\ pos[q] < run'[d][q].msg
            /\ \A q \in Partitions : /\ BehindClaimed(q, pos[q]) /\ BehindClaimed(q, column[q] - 1)
                                     /\ committed[q] <= pos[q]
    BY <1>3 DEF InOrder, BehindClaimed, groupVars, storeVars, faultVars
  <2>1. BehindClaimed(p, m - 1)
    BY <1>4 DEF InOrder, BehindClaimed
  <2>2. ASSUME NEW d \in Consumers, NEW q \in Partitions, run'[d][q].at # "idle"
        PROVE  /\ owner[q] = d /\ BehindClaimed(q, run'[d][q].msg - 1)
               /\ run'[d][q].at \in Busy => /\ run'[d][q].msg \in claims
                                            /\ column[q] <= run'[d][q].msg
               /\ pos[q] < run'[d][q].msg
    <3>1. CASE d = c /\ q = p
      BY <1>2, <1>3, <1>5, <1>6, <2>1, <3>1 DEF Busy
    <3>2. CASE d # c \/ q # p
      BY <1>6, <2>2, <3>2 DEF InOrder
    <3> QED BY <3>1, <3>2
  <2> QED BY <2>2 DEF InOrder
<1> QED BY <1>6, <1>7, <1>8, <1>9

\* SET NX, or its failure.
LEMMA ClaimStep ==
  ASSUME HInv, NEW c \in Consumers, NEW p \in Partitions, Claim(c, p) \/ ClaimError(c, p)
  PROVE  HInv'
<1>0. run[c][p].at = "claim" /\ run[c][p].at # "idle" /\ run[c][p].at \notin Busy
  BY DEF Claim, ClaimError, Busy
<1>1. PICK m \in Msgs :
      /\ m = run[c][p].msg /\ PartOf[m] = p
      /\ completions[m] + Dead(m) + Cardinality(Doing(m)) <= redisErrors + Claimed(m)
  BY <1>0, CallFacts
<1>2. /\ completions[m] \in Nat /\ Dead(m) \in {0, 1} /\ Claimed(m) \in {0, 1}
      /\ Cardinality(Doing(m)) \in Nat /\ redisErrors \in Nat
  BY <1>1, CountTypes DEF HInv
<1>3. UNCHANGED <<completions, dlq, column, moves>> /\ Dead(m)' = Dead(m)
  <2>1. UNCHANGED <<completions, dlq, column, moves>>
    BY DEF Claim, ClaimError, storeVars, faultVars, RedisError
  <2> QED BY <2>1 DEF Dead
<1>4. CASE Claim(c, p) /\ m \in claims
  <2>1. Resolve(c, p) /\ UNCHANGED <<claims, redisErrors>>
    BY <1>1, <1>4 DEF Claim, faultVars
  <2>2. /\ GroupTypes' /\ UNCHANGED <<owner, committed>> /\ Becomes(c, p, Idle)
        /\ \A q \in Partitions \ {p} : pos'[q] = pos[q]
        /\ pos'[p] = pos[p] \/ pos'[p] = m
    BY <1>0, <1>1, <2>1, ResolveMoves
  <2>3. StoreTypes' /\ Claimed(m)' = Claimed(m)
    BY <1>3, <2>1 DEF HInv, StoreTypes, Claimed
  <2>4. RunTypes'
    BY <2>2, IdleIsCall, CallChanges
  <2>5. ClaimsAccount'
    BY <1>0, <1>1, <1>2, <1>3, <2>1, <2>2, <2>3, IdleIsCall, OneMessage
  <2>6. InOrder'
    BY <1>0, <1>1, <1>3, <1>4, <2>1, <2>2, <2>3, IdleIsCall, OneMessageInOrder
  <2> QED BY <2>2, <2>3, <2>4, <2>5, <2>6 DEF HInv
<1>5. CASE (Claim(c, p) /\ m \notin claims) \/ ClaimError(c, p)
  <2>1. Goto(c, p, "work", 1) /\ UNCHANGED groupVars
        /\ \/ claims' = claims \cup {m} /\ redisErrors' = redisErrors /\ m \notin claims
           \/ claims' \in {claims, claims \cup {m}} /\ redisErrors' = redisErrors + 1
    BY <1>1, <1>5 DEF Claim, ClaimError, faultVars, RedisError
  <2>2. PICK new \in CallRecord : new.at = "work" /\ new.msg = m /\ Becomes(c, p, new)
    BY <1>1, <2>1, GotoBecomes DEF Busy
  <2>3. new.at \in Busy /\ new.at # "idle"
    BY <2>2 DEF Busy
  <2>4. GroupTypes' /\ StoreTypes'
    BY <1>1, <1>2, <1>3, <2>1 DEF HInv, GroupTypes, StoreTypes, groupVars
  <2>5. RunTypes'
    BY <1>1, <2>2, CallChanges
  <2>6. ClaimsAccount'
    <3>1. completions'[m] + Dead(m)' + Cardinality(Doing(m)) + 1 - 0 <= redisErrors' + Claimed(m)'
      <4>1. CASE claims' = claims \cup {m} /\ redisErrors' = redisErrors /\ m \notin claims
        BY <1>1, <1>2, <1>3, <4>1 DEF Claimed
      <4>2. CASE claims' \in {claims, claims \cup {m}} /\ redisErrors' = redisErrors + 1
        <5>1. Claimed(m) <= Claimed(m)' /\ Claimed(m)' \in {0, 1}
          BY <4>2 DEF Claimed
        <5> QED BY <1>1, <1>2, <1>3, <4>2, <5>1
      <4> QED BY <2>1, <4>1, <4>2
    <3>2. redisErrors <= redisErrors' /\ \A k \in Msgs \ {m} : k \in claims' <=> k \in claims
      BY <1>2, <2>1
    <3> QED BY <1>0, <1>1, <1>3, <2>2, <2>3, <2>4, <3>1, <3>2, OneMessage
  <2>7. InOrder'
    <3>1. CASE redisErrors' = redisErrors + 1
      BY <1>2, <3>1 DEF InOrder
    <3>2. CASE claims' = claims \cup {m} /\ redisErrors' = redisErrors /\ m \notin claims
      BY <1>0, <1>1, <1>3, <2>1, <2>2, <2>3, <2>4, <3>2, OneMessageInOrder DEF groupVars
    <3> QED BY <2>1, <3>1, <3>2
  <2> QED BY <2>4, <2>5, <2>6, <2>7 DEF HInv
<1> QED BY <1>4, <1>5

\* A step of a call beyond its claim that goes on with the message.
LEMMA GoesOnBusy ==
  ASSUME HInv, NEW c \in Consumers, NEW p \in Partitions, run[c][p].at \in Busy,
         NEW place \in Busy, NEW n \in Nat, Goto(c, p, place, n),
         UNCHANGED <<groupVars, claims, completions, dlq, redisErrors, moves>>,
         column' = column \/ column' = [column EXCEPT ![p] = run[c][p].msg]
  PROVE  HInv'
<1>0. run[c][p].at # "idle"
  BY DEF Busy
<1>1. PICK m \in Msgs :
      /\ m = run[c][p].msg /\ PartOf[m] = p /\ m \in 0..NumMsgs
      /\ completions[m] + Dead(m) + Cardinality(Doing(m)) <= redisErrors + Claimed(m)
  BY <1>0, CallFacts, WebhookAssumption DEF Msgs
<1>2. /\ completions[m] \in Nat /\ Dead(m) \in {0, 1} /\ Claimed(m) \in {0, 1}
      /\ Cardinality(Doing(m)) \in Nat /\ redisErrors \in Nat
  BY <1>1, CountTypes DEF HInv
<1>3. PICK new \in CallRecord : new.at = place /\ new.msg = m /\ Becomes(c, p, new)
  BY <1>1, GotoBecomes
<1>4. new.at \in Busy /\ new.at # "idle"
  BY <1>3 DEF Busy
<1>5. GroupTypes' /\ StoreTypes'
  BY <1>1 DEF HInv, GroupTypes, StoreTypes, groupVars
<1>6. RunTypes'
  BY <1>1, <1>3, CallChanges
<1>7. ClaimsAccount'
  <2>1. completions'[m] + Dead(m)' + Cardinality(Doing(m)) + 1 - 1 <= redisErrors' + Claimed(m)'
    BY <1>1, <1>2 DEF Dead, Claimed
  <2>2. redisErrors <= redisErrors'
    BY <1>2
  <2> QED BY <1>0, <1>1, <1>3, <1>4, <1>5, <2>1, <2>2, OneMessage
<1>8. /\ \A q \in Partitions \ {p} : pos'[q] = pos[q] /\ column'[q] = column[q]
      /\ column'[p] = column[p] \/ column'[p] = m
  BY <1>1 DEF HInv, StoreTypes, groupVars
<1>9. InOrder'
  <2>1. CASE moves = 0 /\ redisErrors = 0
    <3>1. m \in claims
      BY <1>0, <1>1, <2>1 DEF HInv, InOrder
    <3> QED BY <1>0, <1>1, <1>3, <1>4, <1>5, <1>8, <3>1, OneMessageInOrder DEF groupVars
  <2>2. CASE ~ (moves = 0 /\ redisErrors = 0)
    BY <2>2 DEF InOrder
  <2> QED BY <2>1, <2>2
<1> QED BY <1>5, <1>6, <1>7, <1>9 DEF HInv

\* A step with which a call beyond its claim ends.
LEMMA Ends ==
  ASSUME HInv, NEW c \in Consumers, NEW p \in Partitions, run[c][p].at \in Busy,
         NEW m, m = run[c][p].msg,
         Becomes(c, p, Idle), UNCHANGED <<owner, committed, moves>>, GroupTypes', StoreTypes',
         \A q \in Partitions \ {p} : pos'[q] = pos[q],
         redisErrors' = redisErrors \/ redisErrors' = redisErrors + 1,
         \A k \in Msgs \ {m} : /\ completions'[k] = completions[k]
                               /\ k \in dlq' <=> k \in dlq
                               /\ k \in claims' <=> k \in claims,
         \A q \in Partitions \ {p} : column'[q] = column[q],
         column'[p] = column[p] \/ column'[p] = m,
         \/ /\ UNCHANGED claims /\ (pos'[p] = pos[p] \/ pos'[p] = m)
            /\ completions'[m] + Dead(m)' <= completions[m] + Dead(m) + 1
         \/ UNCHANGED <<pos, completions, dlq>>
  PROVE  HInv'
<1>0. run[c][p].at # "idle"
  BY DEF Busy
<1>1. /\ m \in Msgs /\ PartOf[m] = p
      /\ completions[m] + Dead(m) + Cardinality(Doing(m)) <= redisErrors + Claimed(m)
  BY <1>0, CallFacts
<1>2. /\ completions[m] \in Nat /\ Dead(m) \in {0, 1} /\ Claimed(m) \in {0, 1}
      /\ Cardinality(Doing(m)) \in Nat /\ redisErrors \in Nat
      /\ completions'[m] \in Nat /\ Dead(m)' \in {0, 1} /\ Claimed(m)' \in {0, 1}
  BY <1>1, CountTypes DEF HInv, StoreTypes, Dead, Claimed
<1>3. RunTypes'
  BY IdleIsCall, CallChanges
<1>4. ClaimsAccount'
  <2>1. completions'[m] + Dead(m)' + Cardinality(Doing(m)) + 0 - 1 <= redisErrors' + Claimed(m)'
    <3>1. CASE UNCHANGED claims /\ completions'[m] + Dead(m)' <= completions[m] + Dead(m) + 1
      <4>1. Claimed(m)' = Claimed(m)
        BY <3>1 DEF Claimed
      <4> QED BY <1>1, <1>2, <3>1, <4>1
    <3>2. CASE UNCHANGED <<completions, dlq>>
      <4>1. Dead(m)' = Dead(m)
        BY <3>2 DEF Dead
      <4> QED BY <1>1, <1>2, <3>2, <4>1
    <3> QED BY <3>1, <3>2
  <2>2. redisErrors <= redisErrors'
    BY <1>2
  <2> QED BY <1>0, <1>1, <2>1, <2>2, IdleIsCall, OneMessage
<1>5. InOrder'
  <2>1. CASE moves = 0 /\ redisErrors = 0 /\ redisErrors' = redisErrors
    <3>1. m \in claims
      BY <1>0, <2>1 DEF HInv, InOrder
    <3>2. pos'[p] = pos[p] \/ (pos'[p] = m /\ m \in claims')
      BY <3>1
    <3> QED BY <1>0, <1>1, <2>1, <3>1, <3>2, IdleIsCall, OneMessageInOrder
  <2>2. CASE ~ (moves = 0 /\ redisErrors = 0 /\ redisErrors' = redisErrors)
    BY <1>2, <2>2 DEF InOrder
  <2> QED BY <2>1, <2>2
<1> QED BY <1>3, <1>4, <1>5 DEF HInv

LEMMA ColumnMoves ==
  ASSUME StoreTypes, NEW p \in Partitions, NEW m \in Msgs,
         column' = column \/ column' = [column EXCEPT ![p] = m]
  PROVE  /\ column' \in [Partitions -> 0..NumMsgs]
         /\ \A q \in Partitions \ {p} : column'[q] = column[q]
         /\ column'[p] = column[p] \/ column'[p] = m
<1>1. m \in 0..NumMsgs /\ column \in [Partitions -> 0..NumMsgs]
  BY WebhookAssumption DEF StoreTypes, Msgs
<1>2. CASE column' = column
  BY <1>1, <1>2
<1>3. CASE column' = [column EXCEPT ![p] = m]
  BY <1>1, <1>3
<1> QED BY <1>2, <1>3

LEMMA WorkStep ==
  ASSUME HInv, NEW c \in Consumers, NEW p \in Partitions, Work(c, p) PROVE HInv'
<1>0. run[c][p].at \in Busy /\ run[c][p].at = "work" /\ run[c][p].at # "idle"
  BY DEF Work, Busy
<1>1. PICK m \in Msgs : m = run[c][p].msg /\ run[c][p] \in CallRecord
  BY <1>0, CallFacts
<1>2. /\ UNCHANGED <<claims, dlq, redisErrors, moves>>
      /\ column' = column \/ column' = [column EXCEPT ![p] = m]
  BY <1>1 DEF Work, Write, faultVars
<1>3. CASE Goto(c, p, "work", run[c][p].step + 1) /\ UNCHANGED <<groupVars, completions>>
  <2>1. run[c][p].step + 1 \in Nat
    BY <1>1 DEF CallRecord
  <2> QED BY <1>0, <1>1, <1>2, <1>3, <2>1, GoesOnBusy DEF Busy
<1>4. CASE Resolve(c, p) /\ completions' = [completions EXCEPT ![m] = @ + 1]
  <2>1. /\ GroupTypes' /\ UNCHANGED <<owner, committed>> /\ Becomes(c, p, Idle)
        /\ \A q \in Partitions \ {p} : pos'[q] = pos[q]
        /\ pos'[p] = pos[p] \/ pos'[p] = m
    BY <1>0, <1>1, <1>4, ResolveMoves
  <2>2. StoreTypes /\ completions[m] \in Nat
    BY DEF HInv, StoreTypes
  <2>3. /\ completions'[m] = completions[m] + 1 /\ completions' \in [Msgs -> Nat]
        /\ \A k \in Msgs \ {m} : completions'[k] = completions[k]
    BY <1>4, <2>2 DEF StoreTypes
  <2>4. StoreTypes'
    BY <1>2, <2>2, <2>3, ColumnMoves DEF StoreTypes
  <2>5. completions'[m] + Dead(m)' <= completions[m] + Dead(m) + 1
    BY <1>2, <2>2, <2>3 DEF Dead
  <2> QED BY <1>0, <1>1, <1>2, <2>1, <2>2, <2>3, <2>4, <2>5, ColumnMoves, Ends
<1> QED BY <1>1, <1>3, <1>4 DEF Work

LEMMA WorkFailsStep ==
  ASSUME HInv, NEW c \in Consumers, NEW p \in Partitions, WorkFails(c, p) PROVE HInv'
<1>0. run[c][p].at \in Busy /\ run[c][p].at # "idle"
  BY DEF WorkFails, Busy
<1>1. PICK m \in Msgs : m = run[c][p].msg /\ run[c][p].step \in Nat
  BY <1>0, CallFacts DEF CallRecord
<1>2. /\ UNCHANGED <<groupVars, claims, completions, dlq, redisErrors, moves>>
      /\ column' = column \/ column' = [column EXCEPT ![p] = m]
  BY <1>1 DEF WorkFails, Write, faultVars, HandlerError
<1>3. PICK place \in Busy : Goto(c, p, place, run[c][p].step)
  BY DEF WorkFails, Throw, Busy
<1> QED BY <1>0, <1>1, <1>2, <1>3, GoesOnBusy

LEMMA DeadLetterStep ==
  ASSUME HInv, NEW c \in Consumers, NEW p \in Partitions, DeadLetter(c, p) PROVE HInv'
<1>0. run[c][p].at \in Busy /\ run[c][p].at # "idle"
  BY DEF DeadLetter, Busy
<1>1. PICK m \in Msgs : m = run[c][p].msg
  BY <1>0, CallFacts
<1>2. /\ UNCHANGED <<claims, completions, column, redisErrors, moves>> /\ Resolve(c, p)
      /\ dlq' \in {dlq, dlq \cup {m}}
  BY <1>1 DEF DeadLetter, faultVars
<1>3. /\ GroupTypes' /\ UNCHANGED <<owner, committed>> /\ Becomes(c, p, Idle)
      /\ \A q \in Partitions \ {p} : pos'[q] = pos[q]
      /\ pos'[p] = pos[p] \/ pos'[p] = m
  BY <1>0, <1>1, <1>2, ResolveMoves
<1>4. StoreTypes' /\ completions[m] \in Nat
  BY <1>2 DEF HInv, StoreTypes
<1>5. Dead(m)' \in {0, 1} /\ Dead(m) \in {0, 1}
  BY DEF Dead
<1>6. completions'[m] + Dead(m)' <= completions[m] + Dead(m) + 1
  BY <1>2, <1>4, <1>5
<1> QED BY <1>0, <1>1, <1>2, <1>3, <1>4, <1>6, Ends

LEMMA ReleaseStep ==
  ASSUME HInv, NEW c \in Consumers, NEW p \in Partitions, Release(c, p) \/ ReleaseError(c, p)
  PROVE  HInv'
<1>0. run[c][p].at \in Busy /\ run[c][p].at # "idle"
  BY DEF Release, ReleaseError, Busy
<1>1. PICK m \in Msgs : m = run[c][p].msg
  BY <1>0, CallFacts
<1>2. /\ UNCHANGED <<owner, pos, committed, completions, dlq, column, moves>> /\ Becomes(c, p, Idle)
      /\ claims' \in {claims, claims \ {m}}
      /\ redisErrors' = redisErrors \/ redisErrors' = redisErrors + 1
  BY <1>1 DEF Release, ReleaseError, Return, Becomes, groupVars, storeVars, faultVars, RedisError
<1>3. GroupTypes' /\ StoreTypes'
  BY <1>2 DEF HInv, GroupTypes, StoreTypes
<1> QED BY <1>0, <1>1, <1>2, <1>3, Ends

-----------------------------------------------------------------------------
(* Kafka and the process.                                                  *)

\* Steps that leave every message and Redis alone, and end calls at most.
LEMMA Counts ==
  ASSUME HInv, UNCHANGED <<claims, completions, dlq, redisErrors>>,
         \A c \in Consumers, p \in Partitions : run'[c][p] = run[c][p] \/ run'[c][p] = Idle
  PROVE  ClaimsAccount'
<1> SUFFICES ASSUME NEW m \in Msgs
             PROVE  completions[m] + Dead(m) + Cardinality(Doing(m)') <= redisErrors + Claimed(m)
  BY DEF ClaimsAccount, Dead, Claimed
<1>1. PartOf[m] \in Partitions
  BY WebhookAssumption
<1>2. Doing(m)' \subseteq Doing(m)
  BY <1>1, IdleIsCall DEF Doing
<1>3. Cardinality(Doing(m)') <= Cardinality(Doing(m)) /\ Cardinality(Doing(m)') \in Nat
  <2>1. Doing(m)' \subseteq Consumers
    BY DEF Doing
  <2> QED BY <1>2, <2>1, DoingFinite, ConsumerSets, FS_Subset
<1>4. /\ completions[m] \in Nat /\ Dead(m) \in {0, 1} /\ Claimed(m) \in {0, 1}
      /\ Cardinality(Doing(m)) \in Nat /\ redisErrors \in Nat
  BY CountTypes DEF HInv
<1>5. completions[m] + Dead(m) + Cardinality(Doing(m)) <= redisErrors + Claimed(m)
  BY DEF HInv, ClaimsAccount
<1> QED BY <1>3, <1>4, <1>5

LEMMA AutoCommitStep ==
  ASSUME HInv, (\E p \in Partitions : AutoCommit(p)) \/ UNCHANGED vars PROVE HInv'
<1>1. /\ UNCHANGED <<owner, pos, run, claims, completions, column, dlq, redisErrors, moves>>
      /\ committed' = committed \/ \E p \in Partitions : committed' = [committed EXCEPT ![p] = pos[p]]
  BY DEF AutoCommit, vars, groupVars, storeVars, faultVars
<1>2. /\ committed' \in [Partitions -> 0..NumMsgs]
      /\ \A p \in Partitions : committed'[p] \in {committed[p], pos[p]}
  BY <1>1 DEF HInv, GroupTypes
<1>3. GroupTypes' /\ RunTypes' /\ StoreTypes'
  BY <1>1, <1>2 DEF HInv, GroupTypes, RunTypes, StoreTypes
<1>4. ClaimsAccount'
  BY <1>1, Counts
<1>5. InOrder'
  <2>1. \A p \in Partitions : pos[p] \in Nat
    BY WebhookAssumption DEF HInv, GroupTypes
  <2> QED BY <1>1, <1>2, <2>1 DEF HInv, InOrder, BehindClaimed
<1> QED BY <1>3, <1>4, <1>5 DEF HInv

LEMMA RebalanceStep ==
  ASSUME HInv, NEW c \in Consumers, NEW p \in Partitions, Rebalance(c, p) PROVE HInv'
<1>1. /\ UNCHANGED <<committed, run, claims, completions, column, dlq, redisErrors>>
      /\ moves' = moves + 1
  BY DEF Rebalance, storeVars
<1>2. GroupTypes' /\ RunTypes' /\ StoreTypes'
  BY <1>1 DEF Rebalance, HInv, GroupTypes, RunTypes, StoreTypes
<1>3. ClaimsAccount'
  BY <1>1, Counts
<1>4. InOrder'
  BY <1>1 DEF HInv, StoreTypes, InOrder
<1> QED BY <1>2, <1>3, <1>4 DEF HInv

LEMMA CrashStep ==
  ASSUME HInv, NEW c \in Consumers, Crash(c) PROVE HInv'
<1>1. /\ UNCHANGED <<owner, committed, claims, completions, column, dlq, redisErrors, moves>>
      /\ run' = [run EXCEPT ![c] = [p \in Partitions |-> Idle]]
      /\ pos' = [p \in Partitions |-> IF owner[p] = c THEN committed[p] ELSE pos[p]]
  BY DEF Crash, storeVars
<1>2. /\ \A p \in Partitions : run'[c][p] = Idle
      /\ \A d \in Consumers \ {c}, p \in Partitions : run'[d][p] = run[d][p]
      /\ run' \in [Consumers -> [Partitions -> CallRecord]]
  BY <1>1, IdleIsCall DEF HInv, RunTypes
<1>3. \A d \in Consumers, p \in Partitions : run'[d][p].at # "idle" => d # c /\ run'[d][p] = run[d][p]
  BY <1>2, IdleIsCall
<1>4. GroupTypes' /\ RunTypes' /\ StoreTypes'
  BY <1>1, <1>2, <1>3 DEF HInv, GroupTypes, RunTypes, StoreTypes
<1>5. ClaimsAccount'
  <2>1. \A d \in Consumers, p \in Partitions : run'[d][p] = run[d][p] \/ run'[d][p] = Idle
    BY <1>2
  <2> QED BY <1>1, <2>1, Counts
<1>6. InOrder'
  <2> SUFFICES ASSUME moves = 0, redisErrors = 0
      PROVE /\ \A d \in Consumers, q \in Partitions : run'[d][q].at # "idle" =>
               /\ owner[q] = d /\ BehindClaimed(q, run'[d][q].msg - 1)
               /\ run'[d][q].at \in Busy => /\ run'[d][q].msg \in claims
                                            /\ column[q] <= run'[d][q].msg
               /\ pos'[q] < run'[d][q].msg
            /\ \A q \in Partitions : /\ BehindClaimed(q, pos'[q]) /\ BehindClaimed(q, column[q] - 1)
                                     /\ committed[q] <= pos'[q]
    BY <1>1 DEF InOrder, BehindClaimed
  <2>1. \A d \in Consumers, q \in Partitions : run'[d][q].at # "idle" =>
               /\ owner[q] = d /\ pos'[q] = pos[q] /\ run'[d][q] = run[d][q]
    BY <1>1, <1>3 DEF HInv, InOrder
  <2>2. ASSUME NEW q \in Partitions
        PROVE  /\ BehindClaimed(q, pos'[q]) /\ BehindClaimed(q, column[q] - 1)
               /\ committed[q] <= pos'[q]
    <3>1. BehindClaimed(q, pos[q]) /\ BehindClaimed(q, column[q] - 1) /\ committed[q] <= pos[q]
      BY DEF HInv, InOrder
    <3>2. committed[q] \in Nat /\ pos[q] \in Nat /\ \A k \in Msgs : k \in Nat
      BY WebhookAssumption DEF HInv, GroupTypes, Msgs
    <3> QED BY <1>1, <3>1, <3>2 DEF BehindClaimed
  <2> QED BY <2>1, <2>2 DEF HInv, InOrder
<1> QED BY <1>4, <1>5, <1>6 DEF HInv

-----------------------------------------------------------------------------
LEMMA HandlerSteps == HInv /\ [Next]_vars => HInv'
BY DeliverStep, ClaimStep, WorkStep, WorkFailsStep, DeadLetterStep, ReleaseStep,
   AutoCommitStep, RebalanceStep, CrashStep DEF Next, Step

LEMMA HInvHolds == Spec => []HInv
BY InitHInv, HandlerSteps, PTL DEF Spec

\* handleWithDedupe and processMessage complete or dead-letter a message once,
\* and once more for each Redis call that failed, whatever throws, dies or moves.
THEOREM HandledAtMostOnce == Spec => []AtMostOnce
<1>1. HInv => AtMostOnce
  <2> SUFFICES ASSUME HInv, NEW m \in Msgs
               PROVE  completions[m] + Dead(m) <= 1 + redisErrors
    BY DEF AtMostOnce, Dead
  <2>1. /\ completions[m] \in Nat /\ Dead(m) \in {0, 1} /\ Claimed(m) \in {0, 1}
        /\ Cardinality(Doing(m)) \in Nat /\ redisErrors \in Nat
    BY CountTypes DEF HInv
  <2>2. completions[m] + Dead(m) + Cardinality(Doing(m)) <= redisErrors + Claimed(m)
    BY DEF HInv, ClaimsAccount
  <2> QED BY <2>1, <2>2
<1> QED BY <1>1, HInvHolds, PTL

\* Until a partition moves or Redis fails, handleComplaintStatusChanged never writes an
\* older status over a newer one, whatever is delivered again.
THEOREM StatusOnlyAdvances == Spec => StatusNeverRegresses
<1>1. HInv /\ [Next]_vars =>
        [moves' = 0 /\ redisErrors' = 0 => \A p \in Partitions : column'[p] >= column[p]]_vars
  <2> SUFFICES ASSUME HInv, Next, moves' = 0, redisErrors' = 0, NEW p \in Partitions
               PROVE  column'[p] >= column[p]
    OBVIOUS
  <2>1. column[p] \in Nat /\ moves \in Nat /\ redisErrors \in Nat
    BY WebhookAssumption DEF HInv, StoreTypes
  <2>2. CASE UNCHANGED column
    BY <2>1, <2>2
  <2>3. ASSUME NEW c \in Consumers, NEW q \in Partitions, Work(c, q) \/ WorkFails(c, q)
        PROVE  column'[p] >= column[p]
    <3>1. /\ column' = column \/ column' = [column EXCEPT ![q] = run[c][q].msg]
          /\ UNCHANGED <<moves, redisErrors>> /\ run[c][q].at \in Busy /\ run[c][q].at # "idle"
      BY <2>3 DEF Work, WorkFails, Write, Busy, faultVars, HandlerError
    <3>2. column[q] <= run[c][q].msg
      BY <3>1 DEF HInv, InOrder
    <3> QED BY <2>1, <3>1, <3>2 DEF HInv, StoreTypes
  <2> QED BY <2>2, <2>3 DEF Next, Step, Deliver, Claim, ClaimError, DeadLetter, Release,
          ReleaseError, Rebalance, AutoCommit, Crash, storeVars
<1> QED BY <1>1, HInvHolds, PTL DEF Spec, StatusNeverRegresses

-----------------------------------------------------------------------------
(* The rows a message may leave.  Each life of a process and each owner of *)
(* a partition brings MaxAttempts attempts; what an attempt has written    *)
(* when it ends, its own share of that budget has paid for.                *)

One(b) == IF b THEN 1 ELSE 0

\* Whether a call may still write rows of m, and whether it has written some.
Attempts(call, m) == call.at \in {"claim", "work"} /\ call.msg = m
HasWritten(call, m) ==
  TopicOf[m] = "authority-action" /\ call.at = "work" /\ call.msg = m /\ call.step >= 2

\* Former owners of the partition that still attempt m, and calls half-way through it.
Outsiders(m) ==
  {c \in Consumers : c # owner[PartOf[m]] /\ Attempts(run[c][PartOf[m]], m)}
HalfDone(m) == {c \in Consumers : HasWritten(run[c][PartOf[m]], m)}

\* The attempts the owner has left, the one under way included.
Left(m) ==
  IF pos[PartOf[m]] < m THEN MaxAttempts - attempts[owner[PartOf[m]]][m] ELSE 0

PerAttempt(m) == RowsPerAttempt(TopicOf[m])
AttemptsGiven == MaxAttempts * (1 + crashes + moves)

\* x rows, and n attempts of r rows to come, fit the budget g, but for the h rows of
\* attempts half-way; the k rows of a step, and a share of a attempts after it, are
\* paid for by a share of b attempts before it.
Covered(x, r, n, g, h) == x + r * n <= g + h
Paid(k, r, b, w, a, v) == k + r * a + w <= r * b + v

RowsAccount ==
  \A m \in Msgs :
    Covered(rows[m], PerAttempt(m), Cardinality(Outsiders(m)) + Left(m),
            AttemptsGiven * PerAttempt(m), Cardinality(HalfDone(m)))

\* A call has a message of its partition, the owner's one lies ahead, and attempts
\* are used up only while the message is being dead-lettered.
CallsFit ==
  /\ \A c \in Consumers, p \in Partitions : run[c][p].at # "idle" =>
       /\ run[c][p].msg \in Msgs /\ PartOf[run[c][p].msg] = p
       /\ run[c][p].at = "work" => run[c][p].step \in 1..Len(StepsOf(TopicOf[run[c][p].msg]))
       /\ owner[p] = c => pos[p] < run[c][p].msg
  /\ \A c \in Consumers, m \in Msgs : attempts[c][m] = MaxAttempts =>
       run[c][PartOf[m]].at = "deadLetter" /\ run[c][PartOf[m]].msg = m

RInv == TypeOK /\ CallsFit /\ RowsAccount

LEMMA PerAttemptIs ==
  ASSUME NEW m \in Msgs
  PROVE  PerAttempt(m) = IF TopicOf[m] = "authority-action" THEN 3
                         ELSE IF TopicOf[m] \in {"complaint-anchored", "complaint-status-changed"} THEN 2
                         ELSE 1
BY WebhookAssumption DEF PerAttempt, RowsPerAttempt, Topics

LEMMA BudgetSets ==
  ASSUME NEW m
  PROVE  /\ IsFiniteSet(Outsiders(m)) /\ Cardinality(Outsiders(m)) \in Nat
         /\ IsFiniteSet(HalfDone(m)) /\ Cardinality(HalfDone(m)) \in Nat
<1>1. Outsiders(m) \subseteq Consumers /\ HalfDone(m) \subseteq Consumers
  BY DEF Outsiders, HalfDone
<1> QED BY <1>1, ConsumerSets

\* What joining or leaving a set does to its size.
LEMMA InOrOut ==
  ASSUME NEW S, IsFiniteSet(S), NEW c, NEW b \in BOOLEAN
  PROVE  Cardinality(IF b THEN S \cup {c} ELSE S \ {c}) = Cardinality(S) + One(b) - One(c \in S)
<1>1. Cardinality(S) \in Nat
  BY FS_CardinalityType
<1>2. CASE b
  <2>1. Cardinality(S \cup {c}) = IF c \in S THEN Cardinality(S) ELSE Cardinality(S) + 1
    BY FS_AddElement
  <2> QED BY <1>1, <1>2, <2>1 DEF One
<1>3. CASE ~ b
  <2>1. Cardinality(S \ {c}) = IF c \in S THEN Cardinality(S) - 1 ELSE Cardinality(S)
    BY FS_RemoveElement
  <2> QED BY <1>1, <1>3, <2>1 DEF One
<1> QED BY <1>2, <1>3

LEMMA AttemptsGivenType ==
  ASSUME RInv PROVE AttemptsGiven \in Nat /\ crashes \in Nat /\ moves \in Nat
<1>1. crashes \in Nat /\ moves \in Nat /\ MaxAttempts \in Nat
  BY WebhookAssumption DEF RInv, TypeOK
<1>2. \A a, b \in Nat : a * b \in Nat
  OBVIOUS
<1>3. 1 + crashes + moves \in Nat
  BY <1>1
<1> QED BY <1>1, <1>2, <1>3 DEF AttemptsGiven

LEMMA StaysCovered ==
  \A r \in {1, 2, 3} : \A x, k, n, g, h, a, b \in Nat : \A w, v \in {0, 1} :
    Covered(x, r, n, g, h) /\ Paid(k, r, b, w, a, v) => Covered(x + k, r, n + a - b, g, h + v - w)
<1> SUFFICES ASSUME NEW r \in {1, 2, 3}, NEW x \in Nat, NEW k \in Nat, NEW n \in Nat, NEW g \in Nat,
                    NEW h \in Nat, NEW a \in Nat, NEW b \in Nat, NEW w \in {0, 1}, NEW v \in {0, 1},
                    x + r * n <= g + h, k + r * a + w <= r * b + v
             PROVE  x + k + r * (n + a - b) <= g + (h + v - w)
  BY DEF Covered, Paid
<1>1. CASE r = 1
  BY <1>1
<1>2. CASE r = 2
  BY <1>2
<1>3. CASE r = 3
  BY <1>3
<1> QED BY <1>1, <1>2, <1>3

LEMMA LessIsCovered ==
  \A r \in {1, 2, 3} : \A x, n, j, g, h \in Nat :
    Covered(x, r, n, g, h) /\ j <= n => Covered(x, r, j, g, h)
<1> SUFFICES ASSUME NEW r \in {1, 2, 3}, NEW x \in Nat, NEW n \in Nat, NEW j \in Nat, NEW g \in Nat,
                    NEW h \in Nat, x + r * n <= g + h, j <= n
             PROVE  x + r * j <= g + h
  BY DEF Covered
<1>1. CASE r = 1
  BY <1>1
<1>2. CASE r = 2
  BY <1>2
<1>3. CASE r = 3
  BY <1>3
<1> QED BY <1>1, <1>2, <1>3

\* What the change of one call does to the two sets.
LEMMA BudgetMoves ==
  ASSUME run \in [Consumers -> [Partitions -> Calls]], UNCHANGED owner,
         NEW c \in Consumers, NEW p \in Partitions, NEW new \in Calls, Becomes(c, p, new),
         NEW m \in Msgs
  PROVE  /\ PartOf[m] # p => Outsiders(m)' = Outsiders(m) /\ HalfDone(m)' = HalfDone(m)
         /\ PartOf[m] = p =>
              /\ Cardinality(Outsiders(m)') = Cardinality(Outsiders(m))
                   + One(c # owner[p] /\ Attempts(new, m))
                   - One(c # owner[p] /\ Attempts(run[c][p], m))
              /\ Cardinality(HalfDone(m)') = Cardinality(HalfDone(m))
                   + One(HasWritten(new, m)) - One(HasWritten(run[c][p], m))
<1>1. run' = [run EXCEPT ![c] = [run[c] EXCEPT ![p] = new]]
  BY DEF Becomes
<1>2. /\ run'[c][p] = new
      /\ \A d \in Consumers, q \in Partitions : d # c \/ q # p => run'[d][q] = run[d][q]
  BY <1>1
<1>3. PartOf[m] \in Partitions
  BY WebhookAssumption
<1>4. CASE PartOf[m] # p
  <2>1. \A d \in Consumers : run'[d][PartOf[m]] = run[d][PartOf[m]]
    BY <1>2, <1>3, <1>4
  <2> QED BY <1>4, <2>1 DEF Outsiders, HalfDone
<1>5. CASE PartOf[m] = p
  <2> DEFINE b == c # owner[p] /\ Attempts(new, m)
             h == HasWritten(new, m)
  <2>1. b \in BOOLEAN /\ h \in BOOLEAN
    BY DEF Attempts, HasWritten
  <2>2. Outsiders(m)' = IF b THEN Outsiders(m) \cup {c} ELSE Outsiders(m) \ {c}
    <3>1. Outsiders(m)' = {d \in Consumers : d # owner[p] /\ Attempts(run'[d][p], m)}
      BY <1>5 DEF Outsiders, Attempts
    <3>2. Outsiders(m) = {d \in Consumers : d # owner[p] /\ Attempts(run[d][p], m)}
      BY <1>5 DEF Outsiders
    <3>3. \A d \in Consumers : d # c => run'[d][p] = run[d][p]
      BY <1>2
    <3>4. Attempts(run'[c][p], m) <=> Attempts(new, m)
      BY <1>2
    <3> HIDE DEF Attempts
    <3> QED BY <3>1, <3>2, <3>3, <3>4
  <2>3. HalfDone(m)' = IF h THEN HalfDone(m) \cup {c} ELSE HalfDone(m) \ {c}
    <3>1. HalfDone(m)' = {d \in Consumers : HasWritten(run'[d][p], m)}
      BY <1>5 DEF HalfDone, HasWritten
    <3>2. HalfDone(m) = {d \in Consumers : HasWritten(run[d][p], m)}
      BY <1>5 DEF HalfDone
    <3>3. \A d \in Consumers : d # c => run'[d][p] = run[d][p]
      BY <1>2
    <3>4. HasWritten(run'[c][p], m) <=> HasWritten(new, m)
      BY <1>2
    <3> QED BY <3>1, <3>2, <3>3, <3>4
  <2>4. /\ c \in Outsiders(m) <=> c # owner[p] /\ Attempts(run[c][p], m)
        /\ c \in HalfDone(m) <=> HasWritten(run[c][p], m)
    BY <1>5 DEF Outsiders, HalfDone
  <2>5. One(c \in Outsiders(m)) = One(c # owner[p] /\ Attempts(run[c][p], m))
        /\ One(c \in HalfDone(m)) = One(HasWritten(run[c][p], m))
    BY <2>4 DEF One
  <2> HIDE DEF b, h
  <2>6. /\ Cardinality(Outsiders(m)') = Cardinality(Outsiders(m)) + One(b) - One(c \in Outsiders(m))
        /\ Cardinality(HalfDone(m)') = Cardinality(HalfDone(m)) + One(h) - One(c \in HalfDone(m))
    BY <2>1, <2>2, <2>3, InOrOut, BudgetSets
  <2> QED BY <1>5, <2>5, <2>6 DEF b, h
<1> QED BY <1>4, <1>5

\* What the owner, or a former owner, may still write of m.
Share(c, p, call, left, m) ==
  IF owner[p] = c THEN left ELSE One(Attempts(call, m))

\* The k rows a step writes as the call becomes new are paid for by the share it gives up.
Pays(c, p, m, new, k, left) ==
  Paid(k, PerAttempt(m), Share(c, p, run[c][p], MaxAttempts - attempts[c][m], m),
       One(HasWritten(run[c][p], m)),
       Share(c, p, new, left, m), One(HasWritten(new, m)))

LEMMA OneCallPays ==
  ASSUME RInv, TypeOK', NEW c \in Consumers, NEW p \in Partitions, NEW m \in Msgs, PartOf[m] = p,
         NEW new \in Calls, Becomes(c, p, new),
         run[c][p].at # "idle" => run[c][p].msg = m, new.at # "idle" => new.msg = m,
         UNCHANGED <<owner, AttemptsGiven>>, owner[p] = c => pos[p] < m,
         NEW resolved \in BOOLEAN, resolved => owner[p] = c,
         \A q \in Partitions : pos'[q] = IF resolved /\ q = p THEN m ELSE pos[q],
         \A d \in Consumers, j \in Msgs : d # c \/ j # m => attempts'[d][j] = attempts[d][j],
         NEW k \in Nat, \A j \in Msgs : rows'[j] = IF j = m THEN rows[m] + k ELSE rows[j],
         Pays(c, p, m, new, k, IF resolved THEN 0 ELSE MaxAttempts - attempts'[c][m])
  PROVE  RowsAccount'
<1> SUFFICES ASSUME NEW j \in Msgs
             PROVE  Covered(rows'[j], PerAttempt(j), Cardinality(Outsiders(j)') + Left(j)',
                            AttemptsGiven * PerAttempt(j), Cardinality(HalfDone(j)'))
  BY DEF RowsAccount, Covered, PerAttempt
<1>1. Covered(rows[j], PerAttempt(j), Cardinality(Outsiders(j)) + Left(j),
              AttemptsGiven * PerAttempt(j), Cardinality(HalfDone(j)))
  BY DEF RInv, RowsAccount
<1>2. /\ PerAttempt(j) \in {1, 2, 3} /\ AttemptsGiven * PerAttempt(j) \in Nat
      /\ Cardinality(Outsiders(j)) \in Nat /\ Cardinality(HalfDone(j)) \in Nat
      /\ Cardinality(Outsiders(j)') \in Nat /\ Cardinality(HalfDone(j)') \in Nat
      /\ rows[j] \in Nat /\ rows'[j] \in Nat /\ Left(j) \in Nat /\ Left(j)' \in Nat
  <2>1. PerAttempt(j) \in {1, 2, 3} /\ AttemptsGiven \in Nat
    BY PerAttemptIs, AttemptsGivenType
  <2>2. \A a, b \in Nat : a * b \in Nat
    OBVIOUS
  <2>3. rows[j] \in Nat /\ rows'[j] \in Nat
    BY DEF RInv, TypeOK
  <2>4. Left(j) \in Nat /\ Left(j)' \in Nat
    <3>1. /\ attempts[owner[PartOf[j]]][j] \in 0..MaxAttempts
          /\ attempts'[owner'[PartOf[j]]][j] \in 0..MaxAttempts
      BY WebhookAssumption DEF RInv, TypeOK
    <3>2. \A a \in 0..MaxAttempts : MaxAttempts - a \in Nat
      BY WebhookAssumption
    <3> QED BY <3>1, <3>2 DEF Left
  <2>5. /\ Cardinality(Outsiders(j)) \in Nat /\ Cardinality(HalfDone(j)) \in Nat
        /\ Cardinality(Outsiders(j)') \in Nat /\ Cardinality(HalfDone(j)') \in Nat
    <3>1. /\ Outsiders(j)' \subseteq Consumers /\ HalfDone(j)' \subseteq Consumers
      BY DEF Outsiders, HalfDone
    <3> QED BY <3>1, BudgetSets, ConsumerSets
  <2> QED BY <2>1, <2>2, <2>3, <2>4, <2>5
<1>3. /\ run \in [Consumers -> [Partitions -> Calls]] /\ owner \in [Partitions -> Consumers]
      /\ PartOf[j] \in Partitions /\ owner[PartOf[j]] \in Consumers /\ j \in Nat /\ m \in Nat
  <2>1. j \in Nat /\ m \in Nat
    BY DEF Msgs
  <2> QED BY <2>1, WebhookAssumption DEF RInv, TypeOK
<1>4. /\ Left(j) = IF pos[PartOf[j]] < j THEN MaxAttempts - attempts[owner[PartOf[j]]][j] ELSE 0
      /\ Left(j)' = IF pos'[PartOf[j]] < j THEN MaxAttempts - attempts'[owner[PartOf[j]]][j] ELSE 0
  BY DEF Left
<1>5. CASE PartOf[j] # p
  <2>1. Outsiders(j)' = Outsiders(j) /\ HalfDone(j)' = HalfDone(j)
    BY <1>3, <1>5, BudgetMoves
  <2>2. Left(j)' = Left(j) /\ rows'[j] = rows[j]
    <3>1. j # m
      BY <1>5
    <3> QED BY <1>3, <1>4, <1>5, <3>1
  <2> QED BY <1>1, <2>1, <2>2
<1>6. CASE PartOf[j] = p /\ j # m
  <2>1. /\ One(c # owner[p] /\ Attempts(new, j)) = 0 /\ One(HasWritten(new, j)) = 0
        /\ One(c # owner[p] /\ Attempts(run[c][p], j)) = 0 /\ One(HasWritten(run[c][p], j)) = 0
    BY <1>6 DEF One, Attempts, HasWritten
  <2>2. /\ Cardinality(Outsiders(j)') = Cardinality(Outsiders(j)) + 0 - 0
        /\ Cardinality(HalfDone(j)') = Cardinality(HalfDone(j)) + 0 - 0
    BY <1>3, <1>6, <2>1, BudgetMoves
  <2>3. Left(j)' <= Left(j)
    <3>1. attempts'[owner[p]][j] = attempts[owner[p]][j]
      BY <1>3, <1>6
    <3>2. pos[p] \in Nat /\ pos'[p] >= pos[p]
      <4>1. pos[p] \in Nat
        BY WebhookAssumption DEF RInv, TypeOK
      <4> QED BY <1>3, <4>1
    <3>3. pos'[p] \in Nat
      BY <1>3, <3>2
    <3> QED BY <1>2, <1>3, <1>4, <1>6, <3>1, <3>2, <3>3
  <2>4. rows'[j] = rows[j]
    BY <1>6
  <2> DEFINE n == Cardinality(Outsiders(j)) + Left(j)  i == Cardinality(Outsiders(j)) + Left(j)'
  <2>5. n \in Nat /\ i \in Nat /\ i <= n
    BY <1>2, <2>3
  <2>6. Covered(rows[j], PerAttempt(j), n, AttemptsGiven * PerAttempt(j), Cardinality(HalfDone(j)))
    BY <1>1
  <2> HIDE DEF n, i
  <2>7. Covered(rows[j], PerAttempt(j), i, AttemptsGiven * PerAttempt(j), Cardinality(HalfDone(j)))
    BY <1>2, <2>5, <2>6, LessIsCovered
  <2>8. Cardinality(Outsiders(j)') = Cardinality(Outsiders(j)) /\ Cardinality(HalfDone(j)') = Cardinality(HalfDone(j))
    BY <1>2, <2>2
  <2> QED BY <2>4, <2>7, <2>8 DEF i
<1>7. CASE j = m
  <2> DEFINE b == Share(c, p, run[c][p], MaxAttempts - attempts[c][m], m)
             a == Share(c, p, new, IF resolved THEN 0 ELSE MaxAttempts - attempts'[c][m], m)
             w == One(HasWritten(run[c][p], m))
             v == One(HasWritten(new, m))
  <2>1. Paid(k, PerAttempt(m), b, w, a, v)
    BY DEF Pays
  <2>2. w \in {0, 1} /\ v \in {0, 1}
    BY DEF One
  <2>3. /\ Cardinality(Outsiders(m)') = Cardinality(Outsiders(m))
               + One(c # owner[p] /\ Attempts(new, m)) - One(c # owner[p] /\ Attempts(run[c][p], m))
        /\ Cardinality(HalfDone(m)') = Cardinality(HalfDone(m)) + v - w
    BY <1>3, BudgetMoves
  <2>4. /\ a \in Nat /\ b \in Nat
        /\ Cardinality(Outsiders(m)') + Left(m)' = Cardinality(Outsiders(m)) + Left(m) + a - b
    <3>1. CASE owner[p] = c
      <4>1. Left(m) = MaxAttempts - attempts[c][m] /\ b = MaxAttempts - attempts[c][m]
        BY <1>4, <1>7, <3>1 DEF Share
      <4>2. Left(m)' = IF resolved THEN 0 ELSE MaxAttempts - attempts'[c][m]
        BY <1>3, <1>4, <1>7, <3>1
      <4>3. a = IF resolved THEN 0 ELSE MaxAttempts - attempts'[c][m]
        BY <3>1 DEF Share
      <4>4. One(c # owner[p] /\ Attempts(new, m)) = 0 /\ One(c # owner[p] /\ Attempts(run[c][p], m)) = 0
        BY <3>1 DEF One
      <4>5. Left(m)' = a /\ Left(m) = b
        BY <4>1, <4>2, <4>3
      <4> HIDE DEF a, b
      <4> QED BY <1>2, <1>7, <2>3, <4>4, <4>5
    <3>2. CASE owner[p] # c
      <4>1. b = One(Attempts(run[c][p], m)) /\ a = One(Attempts(new, m))
        BY <3>2 DEF Share
      <4>2. Left(m)' = Left(m)
        BY <1>3, <1>4, <1>7, <3>2
      <4>3. /\ One(c # owner[p] /\ Attempts(new, m)) = One(Attempts(new, m))
            /\ One(c # owner[p] /\ Attempts(run[c][p], m)) = One(Attempts(run[c][p], m))
        BY <3>2 DEF One
      <4>4. a \in Nat /\ b \in Nat
        BY <4>1 DEF One
      <4> HIDE DEF a, b
      <4> QED BY <1>2, <1>7, <2>3, <4>1, <4>2, <4>3, <4>4
    <3> QED BY <3>1, <3>2
  <2>5. rows'[m] = rows[m] + k
    OBVIOUS
  <2> DEFINE n == Cardinality(Outsiders(m)) + Left(m)
  <2>6. Covered(rows[m], PerAttempt(m), n, AttemptsGiven * PerAttempt(m), Cardinality(HalfDone(m)))
    BY <1>1, <1>7
  <2>7. n \in Nat
    BY <1>2, <1>7
  <2> HIDE DEF a, b, w, v
  <2>8. Covered(rows[m] + k, PerAttempt(m), n + a - b, AttemptsGiven * PerAttempt(m),
                Cardinality(HalfDone(m)) + v - w)
    <3> HIDE DEF n
    <3>1. /\ PerAttempt(m) \in {1, 2, 3} /\ AttemptsGiven * PerAttempt(m) \in Nat
          /\ rows[m] \in Nat /\ Cardinality(HalfDone(m)) \in Nat
      BY <1>2, <1>7
    <3> DEFINE g == AttemptsGiven * PerAttempt(m)
    <3> HIDE DEF g
    <3>2. /\ PerAttempt(m) \in {1, 2, 3} /\ g \in Nat
          /\ Covered(rows[m], PerAttempt(m), n, g, Cardinality(HalfDone(m)))
      BY <2>6, <3>1 DEF g
    <3>3. Covered(rows[m] + k, PerAttempt(m), n + a - b, g, Cardinality(HalfDone(m)) + v - w)
      <4>1. \A x, i, j1, g1, h, a1, b1 \in Nat : \A w1, v1 \in {0, 1} :
              Covered(x, PerAttempt(m), j1, g1, h) /\ Paid(i, PerAttempt(m), b1, w1, a1, v1)
                => Covered(x + i, PerAttempt(m), j1 + a1 - b1, g1, h + v1 - w1)
        BY <3>1, StaysCovered, Zenon
      <4>2. \A i, a1, b1 \in Nat : \A w1, v1 \in {0, 1} :
              Paid(i, PerAttempt(m), b1, w1, a1, v1)
                => Covered(rows[m] + i, PerAttempt(m), n + a1 - b1, g, Cardinality(HalfDone(m)) + v1 - w1)
        <5>1. \A i, j1, g1, h, a1, b1 \in Nat : \A w1, v1 \in {0, 1} :
                Covered(rows[m], PerAttempt(m), j1, g1, h) /\ Paid(i, PerAttempt(m), b1, w1, a1, v1)
                  => Covered(rows[m] + i, PerAttempt(m), j1 + a1 - b1, g1, h + v1 - w1)
          BY <3>1, <4>1, Zenon
        <5>2. \A i, g1, h, a1, b1 \in Nat : \A w1, v1 \in {0, 1} :
                Covered(rows[m], PerAttempt(m), n, g1, h) /\ Paid(i, PerAttempt(m), b1, w1, a1, v1)
                  => Covered(rows[m] + i, PerAttempt(m), n + a1 - b1, g1, h + v1 - w1)
          BY <2>7, <5>1, Zenon
        <5> QED BY <3>1, <3>2, <5>2, Zenon
      <4> QED BY <2>1, <2>2, <2>4, <4>2, Zenon
    <3> QED BY <3>3 DEF g
  <2> QED BY <1>7, <2>3, <2>4, <2>5, <2>8
<1> QED BY <1>5, <1>6, <1>7

\* A step of one call, on the message m.
LEMMA OneCall ==
  ASSUME RInv, NEW c \in Consumers, NEW p \in Partitions, NEW m \in Msgs, PartOf[m] = p,
         NEW new \in Calls, Becomes(c, p, new),
         run[c][p].at # "idle" => run[c][p].msg = m, new.at # "idle" => new.msg = m,
         new.at = "work" => new.step \in 1..Len(StepsOf(TopicOf[m])),
         UNCHANGED <<owner, committed, crashes, moves>>, owner[p] = c => pos[p] < m,
         NEW resolved \in BOOLEAN, resolved => owner[p] = c /\ new.at = "idle",
         pos' = IF resolved THEN [pos EXCEPT ![p] = m] ELSE pos,
         NEW n \in 0..MaxAttempts, attempts' = [attempts EXCEPT ![c][m] = n],
         n = MaxAttempts => new.at = "deadLetter",
         NEW k \in Nat, rows' = [rows EXCEPT ![m] = @ + k],
         claims' \subseteq Msgs, dlq' \subseteq Msgs, completions' \in [Msgs -> Nat],
         column' \in [Partitions -> 0..NumMsgs],
         errors' \in 0..MaxErrors, redisErrors' \in 0..MaxRedisErrors,
         Pays(c, p, m, new, k, IF resolved THEN 0 ELSE MaxAttempts - n)
  PROVE  RInv'
<1>0. /\ m \in 0..NumMsgs /\ NumMsgs \in Nat /\ \A j \in Msgs : j \in Nat /\ PartOf[j] \in Partitions
  <2>1. \A j \in Msgs : j \in Nat /\ j \in 0..NumMsgs
    BY WebhookAssumption DEF Msgs
  <2> QED BY <2>1, WebhookAssumption
<1>1. /\ run \in [Consumers -> [Partitions -> Calls]] /\ owner \in [Partitions -> Consumers]
      /\ pos \in [Partitions -> 0..NumMsgs] /\ attempts \in [Consumers -> [Msgs -> 0..MaxAttempts]]
      /\ rows \in [Msgs -> Nat]
  BY DEF RInv, TypeOK
<1>2. /\ run' = [run EXCEPT ![c] = [run[c] EXCEPT ![p] = new]]
      /\ attempts' = [attempts EXCEPT ![c] = [attempts[c] EXCEPT ![m] = n]]
  BY <1>1 DEF Becomes
<1>3. /\ run' \in [Consumers -> [Partitions -> Calls]] /\ run'[c][p] = new
      /\ \A d \in Consumers, q \in Partitions : d # c \/ q # p => run'[d][q] = run[d][q]
  BY <1>1, <1>2
<1>4. /\ attempts' \in [Consumers -> [Msgs -> 0..MaxAttempts]] /\ attempts'[c][m] = n
      /\ \A d \in Consumers, j \in Msgs : d # c \/ j # m => attempts'[d][j] = attempts[d][j]
  BY <1>1, <1>2
<1>5. /\ rows' \in [Msgs -> Nat]
      /\ \A j \in Msgs : rows'[j] = IF j = m THEN rows[m] + k ELSE rows[j]
  BY <1>1
<1>6. /\ pos' \in [Partitions -> 0..NumMsgs]
      /\ \A q \in Partitions : pos'[q] = IF resolved /\ q = p THEN m ELSE pos[q]
  BY <1>0, <1>1
<1>7. TypeOK'
  <2>1. \A q \in Partitions : committed[q] <= pos'[q]
    <3>1. \A q \in Partitions : committed[q] <= pos[q] /\ committed[q] \in Nat /\ pos[q] \in Nat
      BY <1>0 DEF RInv, TypeOK
    <3> QED BY <1>0, <1>6, <3>1
  <2> QED BY <1>3, <1>4, <1>5, <1>6, <2>1 DEF RInv, TypeOK
<1>8. CallsFit'
  <2>1. ASSUME NEW d \in Consumers, NEW q \in Partitions, run'[d][q].at # "idle"
        PROVE  /\ run'[d][q].msg \in Msgs /\ PartOf[run'[d][q].msg] = q
               /\ run'[d][q].at = "work" => run'[d][q].step \in 1..Len(StepsOf(TopicOf[run'[d][q].msg]))
               /\ owner'[q] = d => pos'[q] < run'[d][q].msg
    <3>1. CASE d = c /\ q = p
      BY <1>3, <1>6, <2>1, <3>1
    <3>2. CASE d # c \/ q # p
      <4>1. run'[d][q] = run[d][q]
        BY <1>3, <3>2
      <4>2. owner[q] = d => pos'[q] = pos[q]
        BY <1>6, <3>2
      <4> QED BY <2>1, <4>1, <4>2 DEF RInv, CallsFit
    <3> QED BY <3>1, <3>2
  <2>2. ASSUME NEW d \in Consumers, NEW j \in Msgs, attempts'[d][j] = MaxAttempts
        PROVE  run'[d][PartOf[j]].at = "deadLetter" /\ run'[d][PartOf[j]].msg = j
    <3>1. CASE d = c /\ j = m
      BY <1>3, <1>4, <2>2, <3>1
    <3>2. CASE d # c \/ j # m
      <4>1. run[d][PartOf[j]].at = "deadLetter" /\ run[d][PartOf[j]].msg = j
        BY <1>4, <2>2, <3>2 DEF RInv, CallsFit
      <4>2. d # c \/ PartOf[j] # p
        BY <3>2, <4>1
      <4> QED BY <1>0, <1>3, <4>1, <4>2
    <3> QED BY <3>1, <3>2
  <2> QED BY <2>1, <2>2 DEF CallsFit
<1>9. RowsAccount'
  <2>1. AttemptsGiven' = AttemptsGiven
    BY DEF AttemptsGiven
  <2>2. Pays(c, p, m, new, k, IF resolved THEN 0 ELSE MaxAttempts - attempts'[c][m])
    BY <1>4
  <2> QED BY <1>4, <1>5, <1>6, <1>7, <2>1, <2>2, OneCallPays
<1> QED BY <1>7, <1>8, <1>9 DEF RInv

\* One write leaves no more rows than its place in the handler allows.
LEMMA WriteFits ==
  ASSUME NEW m \in Msgs, NEW n \in 1..Len(StepsOf(TopicOf[m])), NEW k \in RowsOf(StepsOf(TopicOf[m])[n])
  PROVE  /\ k \in Nat /\ n \in 0..3 /\ Len(StepsOf(TopicOf[m])) \in 1..3
         /\ k + One(TopicOf[m] = "authority-action" /\ n >= 2) <= PerAttempt(m)
         /\ n < Len(StepsOf(TopicOf[m])) =>
              k + One(TopicOf[m] = "authority-action" /\ n >= 2) <= One(TopicOf[m] = "authority-action")
<1>1. TopicOf[m] \in Topics
  BY WebhookAssumption
<1> USE DEF StepsOf, RowsOf, One
<1>2. CASE TopicOf[m] = "authority-action"
  <2>1. n \in {1, 2, 3} /\ PerAttempt(m) = 3 /\ Len(StepsOf(TopicOf[m])) = 3
    BY <1>2, PerAttemptIs
  <2>2. k \in {0, 1, 2} /\ (n = 1 => k = 1) /\ (n = 2 => k = 0)
    BY <1>2, <2>1
  <2> QED BY <1>2, <2>1, <2>2
<1>3. CASE TopicOf[m] \in {"complaint-anchored", "complaint-status-changed"}
  <2>1. n \in {1, 2} /\ PerAttempt(m) = 2 /\ Len(StepsOf(TopicOf[m])) = 2
    BY <1>3, PerAttemptIs
  <2>2. k \in {0, 1, 2} /\ (n = 1 => k = 0)
    BY <1>3, <2>1
  <2> QED BY <1>3, <2>1, <2>2
<1>4. CASE TopicOf[m] = "complaint-submitted"
  <2>1. n \in {1, 2} /\ PerAttempt(m) = 1 /\ Len(StepsOf(TopicOf[m])) = 2
    BY <1>4, PerAttemptIs
  <2>2. k \in {0, 1} /\ (n = 1 => k = 0)
    BY <1>4, <2>1
  <2> QED BY <1>4, <2>1, <2>2
<1>5. CASE TopicOf[m] = "notification-send"
  <2>1. n = 1 /\ PerAttempt(m) = 1 /\ Len(StepsOf(TopicOf[m])) = 1
    BY <1>5, PerAttemptIs
  <2>2. k = 1
    BY <1>5, <2>1
  <2> QED BY <1>5, <2>1, <2>2
<1> QED BY <1>1, <1>2, <1>3, <1>4, <1>5 DEF Topics

\* What is known of a call and of its message.
LEMMA CallIs ==
  ASSUME RInv, NEW c \in Consumers, NEW p \in Partitions, run[c][p].at # "idle"
  PROVE  /\ run[c][p] \in Calls /\ run[c][p].msg \in Msgs /\ PartOf[run[c][p].msg] = p
         /\ owner[p] = c => pos[p] < run[c][p].msg
         /\ run[c][p].at = "work" => run[c][p].step \in 1..Len(StepsOf(TopicOf[run[c][p].msg]))
         /\ attempts[c][run[c][p].msg] \in 0..MaxAttempts
         /\ run[c][p].at # "deadLetter" => attempts[c][run[c][p].msg] # MaxAttempts
BY DEF RInv, TypeOK, CallsFit

LEMMA GotoIs ==
  ASSUME RInv, NEW c \in Consumers, NEW p \in Partitions, NEW n \in 0..3,
         NEW place \in {"work", "release", "deadLetter"}, Goto(c, p, place, n)
  PROVE  \E new \in Calls :
           /\ new.at = place /\ new.msg = run[c][p].msg /\ new.step = n /\ Becomes(c, p, new)
<1>1. run \in [Consumers -> [Partitions -> Calls]]
  BY DEF RInv, TypeOK
<1> DEFINE new == [run[c][p] EXCEPT !.at = place, !.step = n]
<1>2. new \in Calls /\ new.at = place /\ new.msg = run[c][p].msg /\ new.step = n
  <2>1. run[c][p] \in Calls
    BY <1>1
  <2> QED BY <2>1 DEF Calls
<1>3. Becomes(c, p, new)
  BY <1>1 DEF Goto, Calls, Becomes
<1> QED BY <1>2, <1>3

LEMMA IdleCall == Idle \in Calls /\ Idle.at = "idle"
BY WebhookAssumption DEF Idle, Calls

LEMMA Stores ==
  ASSUME RInv
  PROVE  /\ claims \subseteq Msgs /\ dlq \subseteq Msgs /\ completions \in [Msgs -> Nat]
         /\ column \in [Partitions -> 0..NumMsgs] /\ rows \in [Msgs -> Nat]
         /\ errors \in 0..MaxErrors /\ redisErrors \in 0..MaxRedisErrors
         /\ attempts \in [Consumers -> [Msgs -> 0..MaxAttempts]]
         /\ MaxErrors \in Nat /\ MaxRedisErrors \in Nat /\ MaxAttempts \in Nat /\ MaxAttempts # 0
BY WebhookAssumption DEF RInv, TypeOK

\* Steps that write no row pay when they keep, or give up, their share.
LEMMA NothingWritten ==
  ASSUME RInv, NEW c \in Consumers, NEW p \in Partitions, NEW m \in Msgs, NEW new \in Calls,
         ~ HasWritten(run[c][p], m), NEW left \in Nat,
         owner[p] = c => left <= MaxAttempts - attempts[c][m],
         owner[p] # c => (Attempts(new, m) => Attempts(run[c][p], m))
  PROVE  Pays(c, p, m, new, 0, left)
<1> DEFINE b == Share(c, p, run[c][p], MaxAttempts - attempts[c][m], m)
           a == Share(c, p, new, left, m)
<1>1. a \in Nat /\ b \in Nat /\ a <= b
  <2>1. attempts[c][m] \in 0..MaxAttempts /\ MaxAttempts \in Nat
    BY Stores
  <2> QED BY <2>1 DEF Share, One
<1>2. One(HasWritten(run[c][p], m)) = 0 /\ One(HasWritten(new, m)) \in {0, 1}
  BY DEF One
<1>3. PerAttempt(m) \in {1, 2, 3}
  BY PerAttemptIs
<1> HIDE DEF a, b
<1>4. PerAttempt(m) * a <= PerAttempt(m) * b /\ PerAttempt(m) * a \in Nat /\ PerAttempt(m) * b \in Nat
  <2>1. CASE PerAttempt(m) = 1
    BY <1>1, <2>1
  <2>2. CASE PerAttempt(m) = 2
    BY <1>1, <2>2
  <2>3. CASE PerAttempt(m) = 3
    BY <1>1, <2>3
  <2> QED BY <1>3, <2>1, <2>2, <2>3
<1>5. 0 + PerAttempt(m) * a + 0 <= PerAttempt(m) * b + One(HasWritten(new, m))
  BY <1>2, <1>4
<1> QED BY <1>2, <1>5 DEF Pays, Paid, a, b

\* An attempt that ends, and gives up its share for all that it may have written.
LEMMA AttemptEnds ==
  ASSUME RInv, NEW c \in Consumers, NEW p \in Partitions, NEW m \in Msgs, NEW new \in Calls,
         Attempts(run[c][p], m), ~ Attempts(new, m), NEW k \in Nat, NEW left \in Nat,
         k + One(HasWritten(run[c][p], m)) <= PerAttempt(m),
         owner[p] = c => left < MaxAttempts - attempts[c][m]
  PROVE  Pays(c, p, m, new, k, left)
<1> DEFINE b == Share(c, p, run[c][p], MaxAttempts - attempts[c][m], m)
           a == Share(c, p, new, left, m)
<1>1. a \in Nat /\ b \in Nat /\ a + 1 <= b
  <2>1. attempts[c][m] \in 0..MaxAttempts /\ MaxAttempts \in Nat
    BY Stores
  <2> QED BY <2>1 DEF Share, One
<1>2. One(HasWritten(run[c][p], m)) \in {0, 1} /\ One(HasWritten(new, m)) \in {0, 1}
  BY DEF One
<1>3. PerAttempt(m) \in {1, 2, 3}
  BY PerAttemptIs
<1> HIDE DEF a, b
<1>4. /\ PerAttempt(m) * a + PerAttempt(m) <= PerAttempt(m) * b
      /\ PerAttempt(m) * a \in Nat /\ PerAttempt(m) * b \in Nat
  <2>1. CASE PerAttempt(m) = 1
    BY <1>1, <2>1
  <2>2. CASE PerAttempt(m) = 2
    BY <1>1, <2>2
  <2>3. CASE PerAttempt(m) = 3
    BY <1>1, <2>3
  <2> QED BY <1>3, <2>1, <2>2, <2>3
<1>5. k + PerAttempt(m) * a + One(HasWritten(run[c][p], m)) <= PerAttempt(m) * b + One(HasWritten(new, m))
  BY <1>2, <1>3, <1>4
<1> QED BY <1>5 DEF Pays, Paid, a, b

\* An attempt that goes on: what it has written so far is kept apart.
LEMMA AttemptGoesOn ==
  ASSUME RInv, NEW c \in Consumers, NEW p \in Partitions, NEW m \in Msgs, NEW new \in Calls,
         Attempts(run[c][p], m) <=> Attempts(new, m), NEW k \in Nat, attempts[c][m] \in 0..MaxAttempts,
         k + One(HasWritten(run[c][p], m)) <= One(HasWritten(new, m))
  PROVE  Pays(c, p, m, new, k, MaxAttempts - attempts[c][m])
<1> DEFINE b == Share(c, p, run[c][p], MaxAttempts - attempts[c][m], m)
           a == Share(c, p, new, MaxAttempts - attempts[c][m], m)
<1>1. b \in Nat /\ a = b
  BY Stores DEF Share, One
<1>2. One(HasWritten(run[c][p], m)) \in {0, 1} /\ One(HasWritten(new, m)) \in {0, 1}
  BY DEF One
<1>3. PerAttempt(m) \in {1, 2, 3}
  BY PerAttemptIs
<1> HIDE DEF a, b
<1>4. PerAttempt(m) * b \in Nat
  BY <1>1, <1>3
<1>5. k + PerAttempt(m) * a + One(HasWritten(run[c][p], m)) <= PerAttempt(m) * b + One(HasWritten(new, m))
  BY <1>1, <1>2, <1>4
<1> QED BY <1>5 DEF Pays, Paid, a, b

LEMMA NoChange ==
  ASSUME RInv, NEW c \in Consumers, NEW m \in Msgs
  PROVE  /\ attempts = [attempts EXCEPT ![c][m] = attempts[c][m]]
         /\ rows = [rows EXCEPT ![m] = @ + 0]
<1>1. attempts \in [Consumers -> [Msgs -> 0..MaxAttempts]] /\ rows \in [Msgs -> Nat]
  BY Stores
<1>2. [attempts EXCEPT ![c][m] = attempts[c][m]] = [attempts EXCEPT ![c] = [attempts[c] EXCEPT ![m] = attempts[c][m]]]
  BY <1>1
<1>3. [attempts[c] EXCEPT ![m] = attempts[c][m]] = attempts[c]
  BY <1>1
<1> QED BY <1>1, <1>2, <1>3

LEMMA DeliverKeeps ==
  ASSUME RInv, NEW c \in Consumers, NEW p \in Partitions, Deliver(c, p) PROVE RInv'
<1> DEFINE ahead == {j \in Msgs : PartOf[j] = p /\ j > pos[p]}
           m == Min(ahead)
           new == [at |-> "claim", msg |-> Min(ahead), step |-> 0]
<1>0. \A k \in Msgs : k \in Nat /\ k \in 0..NumMsgs
  BY WebhookAssumption DEF Msgs
<1>1. m \in ahead
  <2>1. ahead \in SUBSET Nat /\ ahead # {}
    BY <1>0 DEF Deliver
  <2> HIDE DEF ahead
  <2> QED BY <2>1, MinIsLeast
<1>2. m \in Msgs /\ PartOf[m] = p /\ m > pos[p]
  BY <1>1
<1>3. /\ UNCHANGED <<groupVars, claims, attempts, storeVars, faultVars>>
      /\ owner[p] = c /\ run[c][p] = Idle /\ Becomes(c, p, new)
  BY DEF Deliver, Becomes
<1>4. new \in Calls /\ new.at = "claim" /\ new.msg = m
  <2>1. m \in 0..NumMsgs
    BY <1>0, <1>2
  <2> HIDE DEF m
  <2> QED BY <2>1 DEF Calls, m
<1> HIDE DEF new, m, ahead
<1>5. attempts[c][m] \in 0..MaxAttempts /\ attempts[c][m] # MaxAttempts
  <2>1. attempts[c][m] = MaxAttempts => run[c][PartOf[m]].at = "deadLetter"
    BY <1>2 DEF RInv, CallsFit
  <2> QED BY <1>2, <1>3, <2>1, IdleCall, Stores
<1>6. ~ HasWritten(run[c][p], m)
  BY <1>3, IdleCall DEF HasWritten
<1>7. Pays(c, p, m, new, 0, MaxAttempts - attempts[c][m])
  <2>1. MaxAttempts - attempts[c][m] \in Nat
    BY <1>5, Stores
  <2> QED BY <1>2, <1>3, <1>4, <1>6, <2>1, NothingWritten
<1>8. pos[p] < m
  <2>1. pos[p] \in Nat /\ m \in Nat
    BY <1>0, <1>2, WebhookAssumption DEF RInv, TypeOK
  <2> QED BY <1>2, <2>1
<1>9. /\ attempts' = [attempts EXCEPT ![c][m] = attempts[c][m]] /\ rows' = [rows EXCEPT ![m] = @ + 0]
      /\ UNCHANGED <<owner, pos, committed, claims, dlq, completions, column, errors, redisErrors, crashes, moves>>
  BY <1>2, <1>3, NoChange DEF groupVars, storeVars, faultVars
<1>10. run[c][p].at = "idle" /\ new.at # "work" /\ new.at # "idle"
  BY <1>3, <1>4, IdleCall
<1> DEFINE resolved == FALSE
<1>11. /\ resolved \in BOOLEAN /\ resolved => owner[p] = c /\ new.at = "idle"
       /\ pos' = IF resolved THEN [pos EXCEPT ![p] = m] ELSE pos
       /\ Pays(c, p, m, new, 0, IF resolved THEN 0 ELSE MaxAttempts - attempts[c][m])
  BY <1>7, <1>9
<1> QED BY <1>2, <1>3, <1>4, <1>5, <1>8, <1>9, <1>10, <1>11, OneCall, Stores

\* What pays for the end of a call: the attempt it was, or nothing written.
LEMMA EndPays ==
  ASSUME RInv, NEW c \in Consumers, NEW p \in Partitions, NEW m \in Msgs, NEW k \in Nat,
         NEW n \in 0..MaxAttempts,
         \/ k = 0 /\ ~ HasWritten(run[c][p], m)
         \/ /\ Attempts(run[c][p], m) /\ k + One(HasWritten(run[c][p], m)) <= PerAttempt(m)
            /\ attempts[c][m] # MaxAttempts
  PROVE  Pays(c, p, m, Idle, k, IF owner[p] = c THEN 0 ELSE MaxAttempts - n)
<1> DEFINE left == IF owner[p] = c THEN 0 ELSE MaxAttempts - n
<1>1. attempts[c][m] \in 0..MaxAttempts /\ MaxAttempts \in Nat /\ MaxAttempts - n \in Nat
  BY Stores
<1>2. /\ left \in Nat /\ (owner[p] = c => left <= MaxAttempts - attempts[c][m])
      /\ owner[p] = c /\ attempts[c][m] # MaxAttempts => left < MaxAttempts - attempts[c][m]
  <2>1. left \in Nat
    BY <1>1
  <2>2. owner[p] = c => left = 0
    OBVIOUS
  <2>3. MaxAttempts - attempts[c][m] \in Nat /\ (attempts[c][m] # MaxAttempts => 0 < MaxAttempts - attempts[c][m])
    BY <1>1
  <2> QED BY <2>1, <2>2, <2>3
<1>3. Idle \in Calls /\ ~ Attempts(Idle, m)
  BY IdleCall DEF Attempts
<1> HIDE DEF left
<1>4. CASE k = 0 /\ ~ HasWritten(run[c][p], m)
  <2>1. Pays(c, p, m, Idle, 0, left)
    BY <1>2, <1>3, <1>4, NothingWritten
  <2> QED BY <1>4, <2>1 DEF left
<1>5. CASE /\ Attempts(run[c][p], m) /\ k + One(HasWritten(run[c][p], m)) <= PerAttempt(m)
           /\ attempts[c][m] # MaxAttempts
  <2>1. Pays(c, p, m, Idle, k, left)
    BY <1>2, <1>3, <1>5, AttemptEnds
  <2> QED BY <2>1 DEF left
<1> QED BY <1>4, <1>5

\* A call that ends, resolving its message, leaves no share.
LEMMA Resolving ==
  ASSUME RInv, NEW c \in Consumers, NEW p \in Partitions, NEW m \in Msgs, m = run[c][p].msg,
         run[c][p].at # "idle", Resolve(c, p), UNCHANGED <<crashes, moves>>,
         NEW n \in 0..MaxAttempts, n # MaxAttempts, attempts' = [attempts EXCEPT ![c][m] = n],
         NEW k \in Nat, rows' = [rows EXCEPT ![m] = @ + k],
         claims' \subseteq Msgs, dlq' \subseteq Msgs, completions' \in [Msgs -> Nat],
         column' \in [Partitions -> 0..NumMsgs],
         errors' \in 0..MaxErrors, redisErrors' \in 0..MaxRedisErrors,
         Pays(c, p, m, Idle, k, IF owner[p] = c THEN 0 ELSE MaxAttempts - n)
  PROVE  RInv'
<1> DEFINE resolved == owner[p] = c
<1>1. /\ PartOf[m] = p /\ (owner[p] = c => pos[p] < m) /\ attempts[c][m] \in 0..MaxAttempts
  BY CallIs
<1>2. Becomes(c, p, Idle) /\ UNCHANGED <<owner, committed>>
      /\ pos' = IF resolved THEN [pos EXCEPT ![p] = m] ELSE pos
  BY DEF Resolve, Return, Becomes
<1>3. Idle \in Calls /\ Idle.at = "idle" /\ ~ Attempts(Idle, m)
  BY IdleCall DEF Attempts
<1>4. Pays(c, p, m, Idle, k, IF resolved THEN 0 ELSE MaxAttempts - n)
  OBVIOUS
<1>5. resolved \in BOOLEAN /\ (resolved => owner[p] = c /\ Idle.at = "idle")
  BY <1>3
<1> HIDE DEF resolved
<1> QED BY <1>1, <1>2, <1>3, <1>4, <1>5, OneCall

LEMMA ClaimKeeps ==
  ASSUME RInv, NEW c \in Consumers, NEW p \in Partitions, Claim(c, p) \/ ClaimError(c, p)
  PROVE  RInv'
<1>0. run[c][p].at = "claim" /\ run[c][p].at # "idle"
  BY DEF Claim, ClaimError
<1>1. PICK m \in Msgs : m = run[c][p].msg
  BY <1>0, CallIs
<1>2. /\ PartOf[m] = p /\ (owner[p] = c => pos[p] < m)
      /\ attempts[c][m] \in 0..MaxAttempts /\ attempts[c][m] # MaxAttempts
  BY <1>0, <1>1, CallIs
<1>3. /\ UNCHANGED <<attempts, completions, rows, column, dlq, errors, crashes, moves>>
      /\ claims' \subseteq Msgs /\ redisErrors' \in 0..MaxRedisErrors
  BY <1>1, Stores DEF Claim, ClaimError, RedisError, storeVars, faultVars
<1>4. attempts' = [attempts EXCEPT ![c][m] = attempts[c][m]] /\ rows' = [rows EXCEPT ![m] = @ + 0]
  BY <1>3, NoChange
<1>5. ~ HasWritten(run[c][p], m) /\ Attempts(run[c][p], m)
  BY <1>0, <1>1 DEF HasWritten, Attempts
<1>6. CASE Resolve(c, p)
  <2>1. /\ dlq' \subseteq Msgs /\ completions' \in [Msgs -> Nat] /\ column' \in [Partitions -> 0..NumMsgs]
        /\ errors' \in 0..MaxErrors /\ UNCHANGED <<crashes, moves>>
    BY <1>3, Stores
  <2> DEFINE n == attempts[c][m]
  <2>2. n \in 0..MaxAttempts /\ n # MaxAttempts /\ attempts' = [attempts EXCEPT ![c][m] = n]
    BY <1>2, <1>4
  <2> DEFINE k == 0
  <2>3. k \in Nat /\ rows' = [rows EXCEPT ![m] = @ + k]
    BY <1>4
  <2>4. Pays(c, p, m, Idle, k, IF owner[p] = c THEN 0 ELSE MaxAttempts - n)
    BY <1>5, <2>2, EndPays
  <2> HIDE DEF n, k
  <2> QED BY <1>0, <1>1, <1>3, <1>6, <2>1, <2>2, <2>3, <2>4, Resolving
<1>7. CASE Goto(c, p, "work", 1) /\ UNCHANGED groupVars
  <2>1. PICK new \in Calls : new.at = "work" /\ new.msg = m /\ new.step = 1 /\ Becomes(c, p, new)
    BY <1>1, <1>7, GotoIs
  <2>2. 1 \in 1..Len(StepsOf(TopicOf[m]))
    BY WebhookAssumption DEF StepsOf, Topics
  <2> DEFINE resolved == FALSE
  <2>3. Pays(c, p, m, new, 0, IF resolved THEN 0 ELSE MaxAttempts - attempts[c][m])
    <3>1. Attempts(new, m) /\ One(HasWritten(run[c][p], m)) = 0 /\ One(HasWritten(new, m)) \in {0, 1}
      BY <1>5, <2>1 DEF Attempts, One
    <3> QED BY <1>2, <1>5, <3>1, AttemptGoesOn
  <2>4. /\ resolved \in BOOLEAN /\ (resolved => owner[p] = c /\ new.at = "idle")
        /\ pos' = IF resolved THEN [pos EXCEPT ![p] = m] ELSE pos
        /\ UNCHANGED <<owner, committed>> /\ new.at # "idle" /\ new.at # "deadLetter"
    BY <1>7, <2>1 DEF groupVars
  <2> HIDE DEF resolved
  <2> QED BY <1>1, <1>2, <1>3, <1>4, <2>1, <2>2, <2>3, <2>4, OneCall, Stores
<1> QED BY <1>6, <1>7 DEF Claim, ClaimError

LEMMA WorkKeeps ==
  ASSUME RInv, NEW c \in Consumers, NEW p \in Partitions, Work(c, p) PROVE RInv'
<1>0. run[c][p].at = "work" /\ run[c][p].at # "idle"
  BY DEF Work
<1>1. PICK m \in Msgs : m = run[c][p].msg
  BY <1>0, CallIs
<1> DEFINE n == run[c][p].step
<1>2. /\ PartOf[m] = p /\ (owner[p] = c => pos[p] < m) /\ n \in 1..Len(StepsOf(TopicOf[m]))
      /\ attempts[c][m] \in 0..MaxAttempts /\ attempts[c][m] # MaxAttempts
  BY <1>0, <1>1, CallIs
<1>3. /\ UNCHANGED <<claims, dlq, errors, redisErrors, crashes, moves>>
      /\ Write(p, m, n)
  BY <1>1 DEF Work, faultVars
<1>4. PICK k \in RowsOf(StepsOf(TopicOf[m])[n]) : rows' = [rows EXCEPT ![m] = @ + k]
  BY <1>3 DEF Write
<1>5. /\ k \in Nat /\ n \in 0..3 /\ Len(StepsOf(TopicOf[m])) \in 1..3
      /\ k + One(TopicOf[m] = "authority-action" /\ n >= 2) <= PerAttempt(m)
      /\ n < Len(StepsOf(TopicOf[m])) =>
           k + One(TopicOf[m] = "authority-action" /\ n >= 2) <= One(TopicOf[m] = "authority-action")
  BY <1>2, WriteFits
<1>6. column' \in [Partitions -> 0..NumMsgs]
  <2>1. m \in 0..NumMsgs
    BY WebhookAssumption DEF Msgs
  <2> QED BY <1>3, <2>1, Stores DEF Write
<1>7. Attempts(run[c][p], m)
      /\ One(HasWritten(run[c][p], m)) = One(TopicOf[m] = "authority-action" /\ n >= 2)
  BY <1>0, <1>1 DEF Attempts, HasWritten, One
<1>8. CASE Goto(c, p, "work", n + 1) /\ n < Len(StepsOf(TopicOf[m])) /\ UNCHANGED <<groupVars, attempts, completions>>
  <2>1. n + 1 \in 0..3 /\ n + 1 \in 1..Len(StepsOf(TopicOf[m]))
    <3> DEFINE l == Len(StepsOf(TopicOf[m]))
    <3>1. n \in 0..3 /\ n \in 1..l /\ l \in 1..3 /\ n < l
      BY <1>2, <1>5, <1>8
    <3> HIDE DEF n, l
    <3>2. n + 1 \in 0..3 /\ n + 1 \in 1..l
      BY <3>1
    <3> QED BY <3>2 DEF l
  <2>2. PICK new \in Calls : new.at = "work" /\ new.msg = m /\ new.step = n + 1 /\ Becomes(c, p, new)
    BY <1>1, <1>8, <2>1, GotoIs
  <2>3. Attempts(new, m) /\ One(HasWritten(new, m)) = One(TopicOf[m] = "authority-action")
    BY <1>2, <2>1, <2>2 DEF Attempts, HasWritten, One
  <2> DEFINE resolved == FALSE
  <2>4. Pays(c, p, m, new, k, IF resolved THEN 0 ELSE MaxAttempts - attempts[c][m])
    BY <1>2, <1>5, <1>7, <1>8, <2>3, AttemptGoesOn
  <2>5. /\ resolved \in BOOLEAN /\ (resolved => owner[p] = c /\ new.at = "idle")
        /\ pos' = IF resolved THEN [pos EXCEPT ![p] = m] ELSE pos
        /\ UNCHANGED <<owner, committed>> /\ new.at # "idle" /\ new.at # "deadLetter"
    BY <1>8, <2>2 DEF groupVars
  <2>6. attempts' = [attempts EXCEPT ![c][m] = attempts[c][m]]
    BY <1>8, NoChange
  <2>7. new.at = "work" => new.step \in 1..Len(StepsOf(TopicOf[m]))
    BY <2>1, <2>2
  <2> HIDE DEF resolved, n
  <2> QED BY <1>1, <1>2, <1>3, <1>4, <1>5, <1>6, <1>8, <2>2, <2>4, <2>5, <2>6, <2>7, OneCall, Stores
<1>9. CASE Resolve(c, p) /\ Forget(c, m) /\ completions' = [completions EXCEPT ![m] = @ + 1]
  <2>1. completions' \in [Msgs -> Nat]
    BY <1>9, Stores
  <2>2. attempts' = [attempts EXCEPT ![c][m] = 0] /\ 0 \in 0..MaxAttempts /\ 0 # MaxAttempts
    BY <1>9, Stores DEF Forget
  <2>3. k + One(HasWritten(run[c][p], m)) <= PerAttempt(m)
    BY <1>5, <1>7
  <2> HIDE DEF n
  <2>4. Pays(c, p, m, Idle, k, IF owner[p] = c THEN 0 ELSE MaxAttempts - 0)
    BY <1>2, <1>5, <1>7, <2>2, <2>3, EndPays
  <2> DEFINE z == 0
  <2>5. /\ z \in 0..MaxAttempts /\ z # MaxAttempts /\ attempts' = [attempts EXCEPT ![c][m] = z]
        /\ Pays(c, p, m, Idle, k, IF owner[p] = c THEN 0 ELSE MaxAttempts - z)
    BY <2>2, <2>4
  <2> HIDE DEF z
  <2> QED BY <1>0, <1>1, <1>3, <1>4, <1>5, <1>6, <1>9, <2>1, <2>5, Resolving, Stores
<1> QED BY <1>1, <1>8, <1>9 DEF Work

LEMMA WorkFailsKeeps ==
  ASSUME RInv, NEW c \in Consumers, NEW p \in Partitions, WorkFails(c, p) PROVE RInv'
<1>0. run[c][p].at = "work" /\ run[c][p].at # "idle"
  BY DEF WorkFails
<1>1. PICK m \in Msgs : m = run[c][p].msg
  BY <1>0, CallIs
<1> DEFINE n == run[c][p].step
           a == attempts[c][m] + 1
           place == IF Exhausted(a) THEN "deadLetter" ELSE "release"
<1>2. /\ PartOf[m] = p /\ (owner[p] = c => pos[p] < m) /\ n \in 1..Len(StepsOf(TopicOf[m]))
      /\ attempts[c][m] \in 0..MaxAttempts /\ attempts[c][m] # MaxAttempts
  BY <1>0, <1>1, CallIs
<1>3. /\ UNCHANGED <<owner, pos, committed, claims, completions, dlq, redisErrors, crashes, moves>>
      /\ errors' \in 0..MaxErrors
      /\ attempts' = [attempts EXCEPT ![c][m] = a] /\ Goto(c, p, place, n)
      /\ UNCHANGED <<rows, column>> \/ Write(p, m, n)
  BY <1>1, Stores DEF WorkFails, Throw, HandlerError, groupVars, faultVars
<1>4. PICK k \in Nat : /\ rows' = [rows EXCEPT ![m] = @ + k] /\ column' \in [Partitions -> 0..NumMsgs]
                       /\ k + One(TopicOf[m] = "authority-action" /\ n >= 2) <= PerAttempt(m)
  <2>3. CASE UNCHANGED <<rows, column>>
    <3>1. 0 + One(TopicOf[m] = "authority-action" /\ n >= 2) <= PerAttempt(m)
      BY PerAttemptIs DEF One
    <3> QED BY <2>3, <3>1, NoChange, Stores
  <2>4. CASE Write(p, m, n)
    <3>1. PICK k \in RowsOf(StepsOf(TopicOf[m])[n]) : rows' = [rows EXCEPT ![m] = @ + k]
      BY <2>4 DEF Write
    <3>2. m \in 0..NumMsgs
      BY WebhookAssumption DEF Msgs
    <3>3. column' \in [Partitions -> 0..NumMsgs]
      BY <2>4, <3>2, Stores DEF Write
    <3> QED BY <1>2, <3>1, <3>3, WriteFits
  <2> QED BY <1>3, <2>3, <2>4
<1>5. Attempts(run[c][p], m)
      /\ One(HasWritten(run[c][p], m)) = One(TopicOf[m] = "authority-action" /\ n >= 2)
  BY <1>0, <1>1 DEF Attempts, HasWritten, One
<1>6. a \in 0..MaxAttempts /\ (a = MaxAttempts => place = "deadLetter") /\ place \in {"release", "deadLetter"}
  BY <1>2, Stores DEF Exhausted
<1>7. n \in 0..3
  BY <1>0, CallIs DEF Calls
<1> HIDE DEF n, a, place
<1>8. PICK new \in Calls : new.at = place /\ new.msg = m /\ Becomes(c, p, new)
  BY <1>1, <1>3, <1>6, <1>7, GotoIs
<1> DEFINE resolved == FALSE
<1>9. Pays(c, p, m, new, k, IF resolved THEN 0 ELSE MaxAttempts - a)
  <2>1. ~ Attempts(new, m)
    BY <1>6, <1>8 DEF Attempts
  <2>2. MaxAttempts - a \in Nat /\ MaxAttempts - a < MaxAttempts - attempts[c][m]
    BY <1>2, <1>6, Stores DEF a
  <2>3. Pays(c, p, m, new, k, MaxAttempts - a)
    BY <1>4, <1>5, <2>1, <2>2, AttemptEnds
  <2> QED BY <2>3
<1>10. /\ resolved \in BOOLEAN /\ (resolved => owner[p] = c /\ new.at = "idle")
       /\ pos' = IF resolved THEN [pos EXCEPT ![p] = m] ELSE pos
       /\ new.at # "idle" /\ new.at # "work"
  BY <1>3, <1>6, <1>8
<1> HIDE DEF resolved
<1> QED BY <1>1, <1>2, <1>3, <1>4, <1>6, <1>8, <1>9, <1>10, OneCall, Stores

LEMMA DeadLetterKeeps ==
  ASSUME RInv, NEW c \in Consumers, NEW p \in Partitions, DeadLetter(c, p) PROVE RInv'
<1>0. run[c][p].at = "deadLetter" /\ run[c][p].at # "idle"
  BY DEF DeadLetter
<1>1. PICK m \in Msgs : m = run[c][p].msg
  BY <1>0, CallIs
<1>2. /\ UNCHANGED <<claims, completions, column, errors, redisErrors, crashes, moves>> /\ Resolve(c, p)
      /\ dlq' \subseteq Msgs /\ attempts' = [attempts EXCEPT ![c][m] = 0] /\ UNCHANGED rows
  BY <1>1, Stores DEF DeadLetter, Forget, faultVars
<1>3. ~ HasWritten(run[c][p], m)
  BY <1>0 DEF HasWritten
<1> DEFINE k == 0  n == 0
<1>4. /\ k \in Nat /\ rows' = [rows EXCEPT ![m] = @ + k]
      /\ n \in 0..MaxAttempts /\ n # MaxAttempts /\ attempts' = [attempts EXCEPT ![c][m] = n]
  BY <1>2, NoChange, Stores
<1>6. Pays(c, p, m, Idle, k, IF owner[p] = c THEN 0 ELSE MaxAttempts - n)
  BY <1>3, <1>4, EndPays
<1>5. /\ claims' \subseteq Msgs /\ completions' \in [Msgs -> Nat] /\ column' \in [Partitions -> 0..NumMsgs]
      /\ errors' \in 0..MaxErrors /\ redisErrors' \in 0..MaxRedisErrors /\ UNCHANGED <<crashes, moves>>
  BY <1>2, Stores
<1> HIDE DEF k, n
<1> QED BY <1>0, <1>1, <1>2, <1>4, <1>5, <1>6, Resolving

LEMMA ReleaseKeeps ==
  ASSUME RInv, NEW c \in Consumers, NEW p \in Partitions, Release(c, p) \/ ReleaseError(c, p)
  PROVE  RInv'
<1>0. run[c][p].at = "release" /\ run[c][p].at # "idle"
  BY DEF Release, ReleaseError
<1>1. PICK m \in Msgs : m = run[c][p].msg
  BY <1>0, CallIs
<1>2. /\ PartOf[m] = p /\ (owner[p] = c => pos[p] < m)
      /\ attempts[c][m] \in 0..MaxAttempts /\ attempts[c][m] # MaxAttempts
  BY <1>0, <1>1, CallIs
<1>3. /\ UNCHANGED <<owner, pos, committed, attempts, completions, rows, column, dlq, errors, crashes, moves>>
      /\ claims' \subseteq Msgs /\ redisErrors' \in 0..MaxRedisErrors /\ Becomes(c, p, Idle)
  BY <1>1, Stores DEF Release, ReleaseError, RedisError, Return, Becomes, groupVars, storeVars, faultVars
<1> DEFINE k == 0  n == attempts[c][m]  resolved == FALSE
<1>4. /\ k \in Nat /\ rows' = [rows EXCEPT ![m] = @ + k] /\ k = 0
      /\ n \in 0..MaxAttempts /\ n # MaxAttempts /\ attempts' = [attempts EXCEPT ![c][m] = n]
  BY <1>2, <1>3, NoChange
<1>5. /\ dlq' \subseteq Msgs /\ completions' \in [Msgs -> Nat] /\ column' \in [Partitions -> 0..NumMsgs]
      /\ errors' \in 0..MaxErrors
  BY <1>3, Stores
<1>6. Pays(c, p, m, Idle, k, IF resolved THEN 0 ELSE MaxAttempts - n)
  <2>1. ~ HasWritten(run[c][p], m) /\ ~ Attempts(Idle, m) /\ MaxAttempts - n \in Nat
    BY <1>0, <1>2, Stores, IdleCall DEF HasWritten, Attempts
  <2>2. Pays(c, p, m, Idle, 0, MaxAttempts - attempts[c][m])
    BY <2>1, IdleCall, NothingWritten
  <2> QED BY <2>2
<1>7. /\ resolved \in BOOLEAN /\ (resolved => owner[p] = c /\ Idle.at = "idle")
      /\ pos' = IF resolved THEN [pos EXCEPT ![p] = m] ELSE pos
  BY <1>3
<1> HIDE DEF k, n, resolved
<1> QED BY <1>1, <1>2, <1>3, <1>4, <1>5, <1>6, <1>7, IdleCall, OneCall

-----------------------------------------------------------------------------
(* A commit, a rebalance, a death.                                         *)

\* Another owner, or another life, brings another MaxAttempts attempts.
LEMMA MoreAttempts ==
  ASSUME RInv, \/ crashes' = crashes + 1 /\ moves' = moves
               \/ crashes' = crashes /\ moves' = moves + 1
  PROVE  AttemptsGiven' = AttemptsGiven + MaxAttempts
<1>1. crashes \in Nat /\ moves \in Nat /\ MaxAttempts \in Nat
  BY AttemptsGivenType, Stores
<1> DEFINE lives == 1 + crashes + moves
<1>2. lives \in Nat /\ 1 + crashes' + moves' = lives + 1
  BY <1>1
<1>3. \A a, n \in Nat : a * (n + 1) = a * n + a
  OBVIOUS
<1>4. AttemptsGiven = MaxAttempts * lives /\ AttemptsGiven' = MaxAttempts * (lives + 1)
  BY <1>2 DEF AttemptsGiven
<1> HIDE DEF lives
<1> QED BY <1>1, <1>2, <1>3, <1>4

LEMMA RoomForMore ==
  \A r \in {1, 2, 3} : \A x, n, j, g, h, i, a \in Nat :
    Covered(x, r, n, g * r, h) /\ j + h <= n + i + a /\ i <= h
      => Covered(x, r, j, (g + a) * r, i)
<1> SUFFICES ASSUME NEW r \in {1, 2, 3}, NEW x \in Nat, NEW n \in Nat, NEW j \in Nat, NEW g \in Nat,
                    NEW h \in Nat, NEW i \in Nat, NEW a \in Nat,
                    x + r * n <= g * r + h, j + h <= n + i + a, i <= h
             PROVE  x + r * j <= (g + a) * r + i
  BY DEF Covered
<1>1. CASE r = 1
  BY <1>1
<1>2. CASE r = 2
  BY <1>2
<1>3. CASE r = 3
  BY <1>3
<1> QED BY <1>1, <1>2, <1>3

\* A step that gives a partition more attempts and ends no attempt but for a process
\* that dies: the sets shrink, but for the former owner who is an outsider now.
LEMMA MoreIsCovered ==
  ASSUME RInv, TypeOK', AttemptsGiven' = AttemptsGiven + MaxAttempts, rows' = rows,
         NEW m \in Msgs,
         Cardinality(HalfDone(m)') \in Nat, Cardinality(Outsiders(m)') \in Nat,
         Cardinality(HalfDone(m)') <= Cardinality(HalfDone(m)),
         Cardinality(Outsiders(m)') + Left(m)' + Cardinality(HalfDone(m))
           <= Cardinality(Outsiders(m)) + Left(m) + Cardinality(HalfDone(m)') + MaxAttempts
  PROVE  Covered(rows'[m], PerAttempt(m), Cardinality(Outsiders(m)') + Left(m)',
                 AttemptsGiven' * PerAttempt(m), Cardinality(HalfDone(m)'))
<1> DEFINE n == Cardinality(Outsiders(m)) + Left(m)  j == Cardinality(Outsiders(m)') + Left(m)'
           h == Cardinality(HalfDone(m))  i == Cardinality(HalfDone(m)')
<1>1. /\ rows[m] \in Nat /\ PerAttempt(m) \in {1, 2, 3} /\ AttemptsGiven \in Nat /\ MaxAttempts \in Nat
      /\ h \in Nat /\ i \in Nat /\ Cardinality(Outsiders(m)) \in Nat
  BY PerAttemptIs, AttemptsGivenType, BudgetSets, Stores
<1>2. Left(m) \in Nat /\ Left(m)' \in Nat
  <2>1. /\ attempts[owner[PartOf[m]]][m] \in 0..MaxAttempts
        /\ attempts'[owner'[PartOf[m]]][m] \in 0..MaxAttempts
    BY WebhookAssumption DEF RInv, TypeOK
  <2>2. \A a \in 0..MaxAttempts : MaxAttempts - a \in Nat
    BY Stores
  <2> QED BY <2>1, <2>2 DEF Left
<1>3. n \in Nat /\ j \in Nat /\ j + h <= n + i + MaxAttempts /\ i <= h
  BY <1>1, <1>2
<1>4. Covered(rows[m], PerAttempt(m), n, AttemptsGiven * PerAttempt(m), h)
  BY DEF RInv, RowsAccount
<1> HIDE DEF n, j, h, i
<1>5. Covered(rows[m], PerAttempt(m), j, (AttemptsGiven + MaxAttempts) * PerAttempt(m), i)
  BY <1>1, <1>3, <1>4, RoomForMore
<1> QED BY <1>5 DEF j, i

LEMMA LeftBounds ==
  ASSUME RInv, NEW m \in Msgs
  PROVE  /\ Left(m) \in 0..MaxAttempts
         /\ \A c \in Consumers : owner[PartOf[m]] = c /\ Attempts(run[c][PartOf[m]], m) => Left(m) >= 1
<1>1. owner[PartOf[m]] \in Consumers /\ PartOf[m] \in Partitions
  BY WebhookAssumption DEF RInv, TypeOK
<1>2. attempts[owner[PartOf[m]]][m] \in 0..MaxAttempts /\ MaxAttempts \in Nat
  BY <1>1, Stores
<1>3. Left(m) \in 0..MaxAttempts
  BY <1>2 DEF Left
<1>4. ASSUME NEW c \in Consumers, owner[PartOf[m]] = c, Attempts(run[c][PartOf[m]], m)
      PROVE  Left(m) >= 1
  <2>1. run[c][PartOf[m]].at # "idle" /\ run[c][PartOf[m]].at # "deadLetter" /\ run[c][PartOf[m]].msg = m
    BY <1>4 DEF Attempts
  <2>2. pos[PartOf[m]] < m /\ attempts[c][m] # MaxAttempts
    BY <1>1, <1>4, <2>1, CallIs
  <2> QED BY <1>2, <1>4, <2>2 DEF Left
<1> QED BY <1>3, <1>4

LEMMA AutoCommitKeeps ==
  ASSUME RInv, (\E p \in Partitions : AutoCommit(p)) \/ UNCHANGED vars PROVE RInv'
<1>1. /\ UNCHANGED <<owner, pos, run, claims, attempts, storeVars, faultVars>>
      /\ committed' = committed \/ \E p \in Partitions : committed' = [committed EXCEPT ![p] = pos[p]]
  BY DEF AutoCommit, vars, groupVars
<1>2. /\ committed' \in [Partitions -> 0..NumMsgs]
      /\ \A p \in Partitions : committed'[p] <= pos[p]
  <2>1. /\ committed \in [Partitions -> 0..NumMsgs] /\ pos \in [Partitions -> 0..NumMsgs]
        /\ \A p \in Partitions : committed[p] <= pos[p] /\ pos[p] \in Nat
    BY WebhookAssumption DEF RInv, TypeOK
  <2> QED BY <1>1, <2>1
<1>3. TypeOK'
  BY <1>1, <1>2 DEF RInv, TypeOK, storeVars, faultVars
<1>4. CallsFit'
  BY <1>1 DEF RInv, CallsFit
<1>5. RowsAccount'
  BY <1>1 DEF RInv, RowsAccount, Covered, AttemptsGiven, PerAttempt, Outsiders, HalfDone, Left,
              Attempts, HasWritten, storeVars, faultVars
<1> QED BY <1>3, <1>4, <1>5 DEF RInv

LEMMA RebalanceKeeps ==
  ASSUME RInv, NEW c \in Consumers, NEW p \in Partitions, Rebalance(c, p) PROVE RInv'
<1>1. /\ UNCHANGED <<committed, run, claims, attempts, storeVars, errors, redisErrors, crashes>>
      /\ owner[p] # c /\ run[c][p] = Idle /\ owner' = [owner EXCEPT ![p] = c]
      /\ pos' = [pos EXCEPT ![p] = committed[p]] /\ moves < MaxMoves /\ moves' = moves + 1
  BY DEF Rebalance
<1>2. /\ owner \in [Partitions -> Consumers] /\ pos \in [Partitions -> 0..NumMsgs]
      /\ committed \in [Partitions -> 0..NumMsgs]
      /\ \A q \in Partitions : committed[q] <= pos[q] /\ committed[q] \in Nat
      /\ moves \in Nat /\ MaxMoves \in Nat /\ \A m \in Msgs : PartOf[m] \in Partitions
  BY WebhookAssumption DEF RInv, TypeOK
<1>3. /\ \A q \in Partitions : owner'[q] = IF q = p THEN c ELSE owner[q]
      /\ \A q \in Partitions : pos'[q] = IF q = p THEN committed[p] ELSE pos[q]
      /\ owner' \in [Partitions -> Consumers] /\ pos' \in [Partitions -> 0..NumMsgs]
      /\ moves' \in 0..MaxMoves /\ rows' = rows
  BY <1>1, <1>2 DEF storeVars
<1>4. TypeOK'
  <2>1. \A q \in Partitions : committed[q] <= pos'[q]
    BY <1>2, <1>3
  <2> QED BY <1>1, <1>3, <2>1 DEF RInv, TypeOK, storeVars
<1>5. CallsFit'
  <2>1. ASSUME NEW d \in Consumers, NEW q \in Partitions, run[d][q].at # "idle", owner'[q] = d
        PROVE  pos'[q] < run[d][q].msg
    <3>1. q # p
      BY <1>1, <1>3, <2>1, IdleCall
    <3> QED BY <1>3, <2>1, <3>1 DEF RInv, CallsFit
  <2> QED BY <1>1, <2>1 DEF RInv, CallsFit
<1>6. AttemptsGiven' = AttemptsGiven + MaxAttempts
  BY <1>1, MoreAttempts
<1>7. ASSUME NEW m \in Msgs
      PROVE  Covered(rows'[m], PerAttempt(m), Cardinality(Outsiders(m)') + Left(m)',
                     AttemptsGiven' * PerAttempt(m), Cardinality(HalfDone(m)'))
  <2>1. HalfDone(m)' = HalfDone(m)
    BY <1>1 DEF HalfDone, HasWritten
  <2>2. Left(m) \in Nat /\ Left(m)' \in Nat /\ Left(m)' <= MaxAttempts /\ MaxAttempts \in Nat
    <3>1. attempts'[owner'[PartOf[m]]][m] \in 0..MaxAttempts
      BY <1>2, <1>4 DEF TypeOK
    <3>2. MaxAttempts \in Nat /\ \A a \in 0..MaxAttempts : MaxAttempts - a \in 0..MaxAttempts
      BY Stores
    <3>3. Left(m)' \in 0..MaxAttempts
      BY <3>1, <3>2 DEF Left
    <3> QED BY <3>2, <3>3, LeftBounds
  <2>3. /\ Cardinality(Outsiders(m)) \in Nat /\ Cardinality(Outsiders(m)') \in Nat
        /\ Cardinality(Outsiders(m)') + Left(m)' <= Cardinality(Outsiders(m)) + Left(m) + MaxAttempts
    <3>0. IsFiniteSet(Outsiders(m)) /\ Cardinality(Outsiders(m)) \in Nat
      BY BudgetSets
    <3>1. CASE PartOf[m] # p
      <4>1. owner'[PartOf[m]] = owner[PartOf[m]] /\ pos'[PartOf[m]] = pos[PartOf[m]]
        BY <1>2, <1>3, <3>1
      <4>2. Outsiders(m)' = Outsiders(m) /\ Left(m)' = Left(m)
        BY <1>1, <4>1 DEF Outsiders, Left, Attempts
      <4> QED BY <2>2, <3>0, <4>2
    <3>2. CASE PartOf[m] = p
      <4> DEFINE d == owner[p]  b == Attempts(run[d][p], m)
      <4>1. d \in Consumers /\ b \in BOOLEAN
        BY <1>2 DEF Attempts
      <4>2. ~ Attempts(run[c][p], m)
        BY <1>1, IdleCall DEF Attempts
      <4>3. Outsiders(m)' = IF b THEN Outsiders(m) \cup {d} ELSE Outsiders(m) \ {d}
        <5>1. Outsiders(m)' = {e \in Consumers : e # c /\ Attempts(run[e][p], m)}
          BY <1>1, <1>3, <3>2 DEF Outsiders, Attempts
        <5>2. Outsiders(m) = {e \in Consumers : e # d /\ Attempts(run[e][p], m)}
          BY <3>2 DEF Outsiders
        <5> QED BY <4>1, <4>2, <5>1, <5>2
      <4>4. d \notin Outsiders(m)
        BY <3>2 DEF Outsiders
      <4>5. b => Left(m) >= 1
        BY <3>2, <4>1, LeftBounds
      <4> HIDE DEF d, b
      <4>6. Cardinality(Outsiders(m)') = Cardinality(Outsiders(m)) + One(b) - One(d \in Outsiders(m))
        BY <3>0, <4>1, <4>3, InOrOut
      <4>7. One(d \in Outsiders(m)) = 0 /\ One(b) \in {0, 1} /\ (One(b) = 1 => b)
        BY <4>4 DEF One
      <4>8. Cardinality(Outsiders(m)') \in Nat
        BY <3>0, <4>6, <4>7
      <4> QED BY <2>2, <3>0, <4>5, <4>6, <4>7, <4>8
    <3> QED BY <3>1, <3>2
  <2>4. Cardinality(HalfDone(m)) \in Nat
    BY BudgetSets
  <2> QED BY <1>3, <1>4, <1>6, <2>1, <2>2, <2>3, <2>4, MoreIsCovered
<1>8. RowsAccount'
  BY <1>7 DEF RowsAccount, Covered, PerAttempt
<1> QED BY <1>4, <1>5, <1>8 DEF RInv

LEMMA CrashKeeps ==
  ASSUME RInv, NEW c \in Consumers, Crash(c) PROVE RInv'
<1>1. /\ UNCHANGED <<owner, committed, claims, storeVars, errors, redisErrors, moves>>
      /\ run' = [run EXCEPT ![c] = [p \in Partitions |-> Idle]]
      /\ attempts' = [attempts EXCEPT ![c] = [m \in Msgs |-> 0]]
      /\ pos' = [p \in Partitions |-> IF owner[p] = c THEN committed[p] ELSE pos[p]]
      /\ crashes < MaxCrashes /\ crashes' = crashes + 1
  BY DEF Crash
<1>2. /\ run \in [Consumers -> [Partitions -> Calls]] /\ pos \in [Partitions -> 0..NumMsgs]
      /\ committed \in [Partitions -> 0..NumMsgs]
      /\ attempts \in [Consumers -> [Msgs -> 0..MaxAttempts]]
      /\ \A q \in Partitions : committed[q] <= pos[q] /\ committed[q] \in Nat
      /\ crashes \in Nat /\ MaxCrashes \in Nat /\ MaxAttempts \in Nat /\ MaxAttempts # 0
      /\ \A m \in Msgs : PartOf[m] \in Partitions
  BY WebhookAssumption DEF RInv, TypeOK
<1>3. /\ \A p \in Partitions : run'[c][p] = Idle
      /\ \A d \in Consumers \ {c}, p \in Partitions : run'[d][p] = run[d][p]
      /\ run' \in [Consumers -> [Partitions -> Calls]]
      /\ \A m \in Msgs : attempts'[c][m] = 0
      /\ \A d \in Consumers \ {c}, m \in Msgs : attempts'[d][m] = attempts[d][m]
      /\ attempts' \in [Consumers -> [Msgs -> 0..MaxAttempts]]
      /\ pos' \in [Partitions -> 0..NumMsgs]
      /\ \A q \in Partitions : pos'[q] = IF owner[q] = c THEN committed[q] ELSE pos[q]
      /\ crashes' \in 0..MaxCrashes /\ rows' = rows
  BY <1>1, <1>2, IdleCall DEF storeVars
<1>4. TypeOK'
  <2>1. \A q \in Partitions : committed[q] <= pos'[q]
    BY <1>2, <1>3
  <2> QED BY <1>1, <1>3, <2>1 DEF RInv, TypeOK, storeVars
<1>5. CallsFit'
  <2>1. ASSUME NEW d \in Consumers, NEW q \in Partitions, run'[d][q].at # "idle"
        PROVE  /\ run'[d][q].msg \in Msgs /\ PartOf[run'[d][q].msg] = q
               /\ run'[d][q].at = "work" => run'[d][q].step \in 1..Len(StepsOf(TopicOf[run'[d][q].msg]))
               /\ owner'[q] = d => pos'[q] < run'[d][q].msg
    <3>1. d # c /\ run'[d][q] = run[d][q]
      BY <1>3, <2>1, IdleCall
    <3> QED BY <1>1, <1>3, <2>1, <3>1 DEF RInv, CallsFit
  <2>2. ASSUME NEW d \in Consumers, NEW m \in Msgs, attempts'[d][m] = MaxAttempts
        PROVE  run'[d][PartOf[m]].at = "deadLetter" /\ run'[d][PartOf[m]].msg = m
    <3>1. d # c /\ attempts[d][m] = MaxAttempts
      BY <1>2, <1>3, <2>2
    <3> QED BY <1>2, <1>3, <3>1 DEF RInv, CallsFit
  <2> QED BY <2>1, <2>2 DEF CallsFit
<1>6. AttemptsGiven' = AttemptsGiven + MaxAttempts
  BY <1>1, MoreAttempts
<1>7. ASSUME NEW m \in Msgs
      PROVE  Covered(rows'[m], PerAttempt(m), Cardinality(Outsiders(m)') + Left(m)',
                     AttemptsGiven' * PerAttempt(m), Cardinality(HalfDone(m)'))
  <2> DEFINE p == PartOf[m]
  <2>0. p \in Partitions /\ owner[p] \in Consumers /\ owner' = owner
    BY <1>1, <1>2 DEF RInv, TypeOK
  <2>1. HalfDone(m)' = HalfDone(m) \ {c} /\ Outsiders(m)' = Outsiders(m) \ {c}
    <3>1. ~ HasWritten(run'[c][p], m) /\ ~ Attempts(run'[c][p], m)
      BY <1>3, <2>0, IdleCall DEF HasWritten, Attempts
    <3>2. \A d \in Consumers : d # c => run'[d][p] = run[d][p]
      BY <1>3, <2>0
    <3>3. /\ HalfDone(m)' = {d \in Consumers : HasWritten(run'[d][p], m)}
          /\ Outsiders(m)' = {d \in Consumers : d # owner[p] /\ Attempts(run'[d][p], m)}
      BY <2>0 DEF HalfDone, Outsiders, HasWritten, Attempts
    <3>4. /\ HalfDone(m) = {d \in Consumers : HasWritten(run[d][p], m)}
          /\ Outsiders(m) = {d \in Consumers : d # owner[p] /\ Attempts(run[d][p], m)}
      BY DEF HalfDone, Outsiders
    <3> QED BY <3>1, <3>2, <3>3, <3>4
  <2>2. /\ Cardinality(HalfDone(m)) \in Nat /\ Cardinality(Outsiders(m)) \in Nat
        /\ Cardinality(HalfDone(m)') = Cardinality(HalfDone(m)) - One(c \in HalfDone(m))
        /\ Cardinality(Outsiders(m)') = Cardinality(Outsiders(m)) - One(c \in Outsiders(m))
        /\ Cardinality(HalfDone(m)') \in Nat /\ Cardinality(Outsiders(m)') \in Nat
    <3>1. /\ IsFiniteSet(HalfDone(m)) /\ IsFiniteSet(Outsiders(m))
          /\ Cardinality(HalfDone(m)) \in Nat /\ Cardinality(Outsiders(m)) \in Nat
      BY BudgetSets
    <3>2. /\ Cardinality(HalfDone(m) \ {c}) = Cardinality(HalfDone(m)) - One(c \in HalfDone(m))
          /\ Cardinality(Outsiders(m) \ {c}) = Cardinality(Outsiders(m)) - One(c \in Outsiders(m))
      <4>1. \A S : IsFiniteSet(S) /\ Cardinality(S) \in Nat =>
              Cardinality(S \ {c}) = Cardinality(S) - One(c \in S)
        <5> SUFFICES ASSUME NEW S, IsFiniteSet(S), Cardinality(S) \in Nat
                     PROVE  Cardinality(S \ {c}) = Cardinality(S) - One(c \in S)
          OBVIOUS
        <5>1. Cardinality(S \ {c}) = IF c \in S THEN Cardinality(S) - 1 ELSE Cardinality(S)
          BY FS_RemoveElement
        <5> QED BY <5>1 DEF One
      <4> QED BY <3>1, <4>1
    <3>3. Cardinality(HalfDone(m) \ {c}) \in Nat /\ Cardinality(Outsiders(m) \ {c}) \in Nat
      BY <3>1, FS_RemoveElement, FS_CardinalityType
    <3> QED BY <2>1, <3>1, <3>2, <3>3
  <2>3. Left(m) \in 0..MaxAttempts /\ Left(m)' \in 0..MaxAttempts
    <3>1. attempts'[owner'[PartOf[m]]][m] \in 0..MaxAttempts
      BY <1>3, <2>0
    <3>2. \A a \in 0..MaxAttempts : MaxAttempts - a \in 0..MaxAttempts
      BY <1>2
    <3>3. 0 \in 0..MaxAttempts
      BY <1>2
    <3> QED BY <3>1, <3>2, <3>3, LeftBounds DEF Left
  <2>4. c \in HalfDone(m) => Attempts(run[c][p], m)
    BY DEF HalfDone, HasWritten, Attempts
  <2>5. /\ One(c \in HalfDone(m)) \in {0, 1} /\ (One(c \in HalfDone(m)) = 1 => c \in HalfDone(m))
        /\ One(c \in Outsiders(m)) \in {0, 1}
    BY DEF One
  <2>6. /\ Cardinality(HalfDone(m)') <= Cardinality(HalfDone(m))
        /\ Cardinality(Outsiders(m)') + Left(m)' + Cardinality(HalfDone(m))
             <= Cardinality(Outsiders(m)) + Left(m) + Cardinality(HalfDone(m)') + MaxAttempts
    <3>1. CASE owner[p] = c
      <4>1. One(c \in HalfDone(m)) <= Left(m)
        <5>1. c \in HalfDone(m) => Left(m) >= 1
          BY <2>4, <3>1, LeftBounds
        <5> QED BY <1>2, <2>3, <2>5, <5>1
      <4> QED BY <1>2, <2>2, <2>3, <2>5, <4>1
    <3>2. CASE owner[p] # c
      <4>1. Left(m)' = Left(m)
        BY <1>3, <2>0, <3>2 DEF Left
      <4>2. MaxAttempts >= 1
        BY <1>2
      <4> QED BY <1>2, <2>2, <2>3, <2>5, <4>1, <4>2
    <3> QED BY <3>1, <3>2
  <2> QED BY <1>3, <1>4, <1>6, <2>2, <2>6, MoreIsCovered
<1>8. RowsAccount'
  BY <1>7 DEF RowsAccount, Covered, PerAttempt
<1> QED BY <1>4, <1>5, <1>8 DEF RInv

-----------------------------------------------------------------------------
LEMMA InitRInv == Init => RInv
<1> SUFFICES ASSUME Init PROVE RInv
  OBVIOUS
<1> USE DEF Init
<1>1. TypeOK
  <2>1. /\ 0 \in 0..NumMsgs /\ 0 \in 0..MaxAttempts /\ 0 \in 0..MaxErrors /\ 0 \in 0..MaxRedisErrors
        /\ 0 \in 0..MaxCrashes /\ 0 \in 0..MaxMoves
    BY WebhookAssumption
  <2> QED BY <2>1, IdleCall DEF TypeOK
<1>2. CallsFit
  BY WebhookAssumption, IdleCall DEF CallsFit
<1>3. ASSUME NEW m \in Msgs
      PROVE  Covered(rows[m], PerAttempt(m), Cardinality(Outsiders(m)) + Left(m),
                     AttemptsGiven * PerAttempt(m), Cardinality(HalfDone(m)))
  <2>1. Outsiders(m) = {} /\ HalfDone(m) = {}
    BY IdleCall, WebhookAssumption DEF Outsiders, HalfDone, Attempts, HasWritten
  <2>2. Cardinality(Outsiders(m)) = 0 /\ Cardinality(HalfDone(m)) = 0
    BY <2>1, FS_EmptySet
  <2>3. Left(m) = MaxAttempts /\ rows[m] = 0 /\ AttemptsGiven = MaxAttempts /\ MaxAttempts \in Nat
    <3>1. owner[PartOf[m]] \in Consumers /\ PartOf[m] \in Partitions /\ 0 < m
      BY WebhookAssumption DEF Msgs
    <3>2. MaxAttempts \in Nat
      BY WebhookAssumption
    <3> QED BY <3>1, <3>2 DEF Left, AttemptsGiven
  <2>4. PerAttempt(m) \in {1, 2, 3}
    BY PerAttemptIs
  <2>5. 0 + PerAttempt(m) * (0 + MaxAttempts) <= MaxAttempts * PerAttempt(m) + 0
    BY <2>3, <2>4
  <2> QED BY <2>2, <2>3, <2>5 DEF Covered
<1>4. RowsAccount
  BY <1>3 DEF RowsAccount
<1> QED BY <1>1, <1>2, <1>4 DEF RInv

LEMMA RowsSteps == RInv /\ [Next]_vars => RInv'
BY DeliverKeeps, ClaimKeeps, WorkKeeps, WorkFailsKeeps, DeadLetterKeeps, ReleaseKeeps,
   AutoCommitKeeps, RebalanceKeeps, CrashKeeps DEF Next, Step

LEMMA RowsCovered ==
  \A r \in {1, 2, 3} : \A x, o, l, g, h \in Nat :
    Covered(x, r, o + l, g * r, h) /\ h <= o + l => x <= g * r
<1> SUFFICES ASSUME NEW r \in {1, 2, 3}, NEW x \in Nat, NEW o \in Nat, NEW l \in Nat, NEW g \in Nat,
                    NEW h \in Nat, x + r * (o + l) <= g * r + h, h <= o + l
             PROVE  x <= g * r
  BY DEF Covered
<1>1. CASE r = 1
  BY <1>1
<1>2. CASE r = 2
  BY <1>2
<1>3. CASE r = 3
  BY <1>3
<1> QED BY <1>1, <1>2, <1>3

\* The rows that handlers insert without a key stay within the attempts that
\* WEBHOOK_MAX_ATTEMPTS gives each life of a process and each owner of the partition,
\* whatever fails, dies or moves; and counts and offsets keep their ranges.
THEOREM RowsStayWithinAttempts == Spec => []WebhookInvariant
<1>1. RInv => WebhookInvariant
  <2> SUFFICES ASSUME RInv, NEW m \in Msgs
               PROVE  rows[m] <= AttemptsGiven * PerAttempt(m)
    BY DEF WebhookInvariant, RowsWithinAttempts, RInv, AttemptsGiven, PerAttempt
  <2>1. Covered(rows[m], PerAttempt(m), Cardinality(Outsiders(m)) + Left(m),
                AttemptsGiven * PerAttempt(m), Cardinality(HalfDone(m)))
    BY DEF RInv, RowsAccount
  <2>2. /\ PerAttempt(m) \in {1, 2, 3} /\ rows[m] \in Nat /\ AttemptsGiven \in Nat
        /\ Cardinality(Outsiders(m)) \in Nat /\ Cardinality(HalfDone(m)) \in Nat
        /\ IsFiniteSet(Outsiders(m)) /\ Left(m) \in Nat
    BY PerAttemptIs, AttemptsGivenType, BudgetSets, Stores, LeftBounds
  <2>3. Cardinality(HalfDone(m)) <= Cardinality(Outsiders(m)) + Left(m)
    <3> DEFINE d == owner[PartOf[m]]
    <3>1. d \in Consumers
      BY WebhookAssumption DEF RInv, TypeOK
    <3>2. HalfDone(m) \subseteq Outsiders(m) \cup {d}
      BY DEF HalfDone, Outsiders, HasWritten, Attempts
    <3>3. d \in HalfDone(m) => Left(m) >= 1
      <4>1. d \in HalfDone(m) => Attempts(run[d][PartOf[m]], m)
        BY DEF HalfDone, HasWritten, Attempts
      <4> QED BY <3>1, <4>1, LeftBounds
    <3> HIDE DEF d
    <3>4. CASE d \in HalfDone(m)
      <4>1. /\ IsFiniteSet(Outsiders(m) \cup {d})
            /\ Cardinality(Outsiders(m) \cup {d}) <= Cardinality(Outsiders(m)) + 1
            /\ Cardinality(Outsiders(m) \cup {d}) \in Nat
        <5> DEFINE S == Outsiders(m)
        <5> HIDE DEF S
        <5>1. IsFiniteSet(S) /\ Cardinality(S) \in Nat
          BY <2>2 DEF S
        <5>2. /\ IsFiniteSet(S \cup {d})
              /\ Cardinality(S \cup {d}) = IF d \in S THEN Cardinality(S) ELSE Cardinality(S) + 1
          BY <5>1, FS_AddElement
        <5>3. Cardinality(S \cup {d}) <= Cardinality(S) + 1 /\ Cardinality(S \cup {d}) \in Nat
          BY <5>1, <5>2
        <5> QED BY <5>2, <5>3 DEF S
      <4>2. Cardinality(HalfDone(m)) <= Cardinality(Outsiders(m) \cup {d})
        BY <3>2, <4>1, FS_Subset
      <4> QED BY <2>2, <3>3, <3>4, <4>1, <4>2
    <3>5. CASE d \notin HalfDone(m)
      <4>1. HalfDone(m) \subseteq Outsiders(m)
        BY <3>2, <3>5
      <4>2. Cardinality(HalfDone(m)) <= Cardinality(Outsiders(m))
        BY <2>2, <4>1, FS_Subset
      <4> QED BY <2>2, <4>2
    <3> QED BY <3>4, <3>5
  <2> QED BY <2>1, <2>2, <2>3, RowsCovered
<1>2. Spec => []RInv
  BY InitRInv, RowsSteps, PTL DEF Spec
<1> QED BY <1>1, <1>2, PTL

-----------------------------------------------------------------------------
(* While no process dies, no partition moves and neither Redis nor the DLQ *)
(* fails, a claim is a promise: its message is handled, or being handled.  *)

Undisturbed == ~ DlqFails /\ crashes = 0 /\ moves = 0 /\ redisErrors = 0

BeingHandled(m) ==
  \E c \in Consumers : run[c][PartOf[m]].at \in Busy /\ run[c][PartOf[m]].msg = m

ClaimsKept ==
  Undisturbed =>
    /\ \A m \in claims : Handled(m) \/ BeingHandled(m)
    /\ \A m \in Msgs : m <= pos[PartOf[m]] => Handled(m)

\* A step that leaves the calls, claims and positions alone but for one call's own.
LEMMA KeptByCall ==
  ASSUME HInv, ClaimsKept, crashes \in Nat, Undisturbed,
         NEW c \in Consumers, NEW p \in Partitions, NEW new \in CallRecord, Becomes(c, p, new),
         NEW m \in Msgs, PartOf[m] = p, run[c][p].at # "idle" => run[c][p].msg = m,
         new.at # "idle" => new.msg = m,
         \A k \in Msgs : Handled(k) => Handled(k)',
         claims' \subseteq claims \cup {m},
         m \in claims' => Handled(m)' \/ new.at \in Busy,
         \A q \in Partitions : pos'[q] = pos[q] \/ (q = p /\ pos'[q] = m /\ Handled(m)' /\ run[c][p].at # "idle"
                                                     /\ new.at = "idle")
  PROVE  ClaimsKept'
<1>0. run \in [Consumers -> [Partitions -> CallRecord]] /\ claims \subseteq Msgs
      /\ \A k \in Msgs : PartOf[k] \in Partitions /\ k \in Nat
  <2>1. \A k \in Msgs : k \in Nat
    BY WebhookAssumption DEF Msgs
  <2> QED BY <2>1, WebhookAssumption DEF HInv, RunTypes, StoreTypes
<1>1. /\ run'[c][p] = new
      /\ \A d \in Consumers, q \in Partitions : d # c \/ q # p => run'[d][q] = run[d][q]
  <2>1. run' = [run EXCEPT ![c] = [run[c] EXCEPT ![p] = new]]
    BY DEF Becomes
  <2> QED BY <1>0, <2>1
<1>2. ASSUME NEW k \in claims' PROVE Handled(k)' \/ BeingHandled(k)'
  <2>1. CASE k = m
    <3>1. CASE Handled(m)'
      BY <2>1, <3>1
    <3>2. CASE new.at \in Busy
      <4>1. run'[c][PartOf[m]].at \in Busy /\ run'[c][PartOf[m]].msg = m
        BY <1>1, <3>2 DEF Busy
      <4> QED BY <2>1, <4>1 DEF BeingHandled
    <3> QED BY <1>2, <2>1, <3>1, <3>2
  <2>2. CASE k # m
    <3>1. k \in claims /\ k \in Msgs
      BY <1>0, <1>2, <2>2
    <3>2. CASE Handled(k)
      BY <3>1, <3>2
    <3>3. CASE BeingHandled(k)
      <4>1. PICK d \in Consumers : run[d][PartOf[k]].at \in Busy /\ run[d][PartOf[k]].msg = k
        BY <3>3 DEF BeingHandled
      <4>2. d # c \/ PartOf[k] # p
        BY <2>2, <4>1 DEF Busy
      <4>3. run'[d][PartOf[k]] = run[d][PartOf[k]]
        BY <1>0, <1>1, <3>1, <4>2
      <4> QED BY <4>1, <4>3 DEF BeingHandled
    <3> QED BY <3>1, <3>2, <3>3 DEF ClaimsKept
  <2> QED BY <2>1, <2>2
<1>3. ASSUME NEW k \in Msgs, k <= pos'[PartOf[k]] PROVE Handled(k)'
  <2>1. CASE pos'[PartOf[k]] = pos[PartOf[k]]
    BY <1>3, <2>1 DEF ClaimsKept
  <2>2. CASE PartOf[k] = p /\ pos'[p] = m /\ Handled(m)' /\ run[c][p].at # "idle" /\ k # m
    <3>1. BehindClaimed(p, m - 1) /\ owner[p] = c
      BY <2>2 DEF HInv, InOrder, Undisturbed
    <3>2. k \in claims
      BY <1>0, <1>3, <2>2, <3>1 DEF BehindClaimed
    <3>3. ~ BeingHandled(k)
      <4> SUFFICES ASSUME NEW d \in Consumers, run[d][p].at \in Busy, run[d][p].msg = k
                   PROVE  FALSE
        BY <2>2 DEF BeingHandled
      <4>1. owner[p] = d
        BY DEF HInv, InOrder, Undisturbed, Busy
      <4> QED BY <2>2, <3>1, <4>1
    <3> QED BY <3>2, <3>3 DEF ClaimsKept
  <2> QED BY <1>0, <1>3, <2>1, <2>2
<1> QED BY <1>2, <1>3 DEF ClaimsKept

LEMMA ClaimsKeptSteps == HInv /\ RInv /\ ClaimsKept /\ [Next]_vars => ClaimsKept'
<1> SUFFICES ASSUME HInv, RInv, ClaimsKept, [Next]_vars, Undisturbed'
             PROVE  ClaimsKept'
  BY DEF ClaimsKept
<1>0. /\ crashes \in Nat /\ redisErrors \in Nat /\ moves \in Nat
      /\ completions \in [Msgs -> Nat] /\ \A k \in Msgs : k \in Nat /\ PartOf[k] \in Partitions
  <2>1. \A k \in Msgs : k \in Nat
    BY WebhookAssumption DEF Msgs
  <2> QED BY <2>1, AttemptsGivenType, WebhookAssumption DEF HInv, StoreTypes
<1>1. ASSUME NEW c \in Consumers, NEW p \in Partitions, Deliver(c, p) PROVE ClaimsKept'
  <2>1. /\ UNCHANGED <<pos, claims, completions, dlq, crashes, moves, redisErrors>> /\ run[c][p] = Idle
        /\ \A d \in Consumers, q \in Partitions : run[d][q].at \in Busy => run'[d][q] = run[d][q]
    <3>1. run \in [Consumers -> [Partitions -> CallRecord]]
      BY DEF HInv, RunTypes
    <3>2. PICK new : run' = [run EXCEPT ![c] = [run[c] EXCEPT ![p] = new]]
      BY <1>1, <3>1 DEF Deliver
    <3> QED BY <1>1, <3>1, <3>2, IdleIsCall DEF Deliver, groupVars, storeVars, faultVars
  <2>2. Undisturbed
    BY <2>1 DEF Undisturbed
  <2>3. \A k \in claims : BeingHandled(k) => BeingHandled(k)'
    BY <1>0, <2>1 DEF BeingHandled, HInv, StoreTypes
  <2> QED BY <2>1, <2>2, <2>3 DEF ClaimsKept, Handled
<1>2. ASSUME NEW c \in Consumers, NEW p \in Partitions, Claim(c, p) PROVE ClaimsKept'
  <2>0. run[c][p].at = "claim" /\ run[c][p].at # "idle" /\ run[c][p].at \notin Busy
    BY <1>2 DEF Claim, Busy
  <2>1. PICK m \in Msgs : m = run[c][p].msg /\ PartOf[m] = p
    BY <2>0, CallFacts
  <2>2. UNCHANGED <<completions, dlq, crashes, moves, redisErrors>> /\ Undisturbed
    BY <1>2 DEF Claim, storeVars, faultVars, Undisturbed
  <2>3. \A k \in Msgs : Handled(k) => Handled(k)'
    BY <2>2 DEF Handled
  <2>4. CASE m \in claims /\ Resolve(c, p) /\ UNCHANGED claims
    <3>1. Becomes(c, p, Idle) /\ \A q \in Partitions : pos'[q] = pos[q] \/ (q = p /\ pos'[q] = m)
      BY <2>0, <2>1, <2>4, ResolveMoves
    <3>2. ~ BeingHandled(m)
      <4> SUFFICES ASSUME NEW d \in Consumers, run[d][p].at \in Busy PROVE FALSE
        BY <2>1 DEF BeingHandled
      <4>1. owner[p] = d /\ owner[p] = c
        BY <2>0, <2>2 DEF HInv, InOrder, Undisturbed, Busy
      <4> QED BY <2>0, <4>1
    <3>3. Handled(m)'
      BY <2>2, <2>3, <2>4, <3>2 DEF ClaimsKept
    <3> QED BY <1>0, <2>0, <2>1, <2>2, <2>3, <2>4, <3>1, <3>3, IdleIsCall, KeptByCall
  <2>5. CASE claims' = claims \cup {m} /\ Goto(c, p, "work", 1) /\ UNCHANGED groupVars
    <3>1. PICK new \in CallRecord : new.at = "work" /\ new.msg = m /\ Becomes(c, p, new)
      BY <2>1, <2>5, GotoBecomes DEF Busy
    <3>2. new.at \in Busy /\ UNCHANGED pos
      BY <2>5, <3>1 DEF Busy, groupVars
    <3> QED BY <1>0, <2>0, <2>1, <2>2, <2>3, <2>5, <3>1, <3>2, KeptByCall
  <2> QED BY <1>2, <2>1, <2>4, <2>5 DEF Claim
<1>3. ASSUME NEW c \in Consumers, NEW p \in Partitions, Work(c, p) \/ WorkFails(c, p) PROVE ClaimsKept'
  <2>0. run[c][p].at \in Busy /\ run[c][p].at # "idle"
    BY <1>3 DEF Work, WorkFails, Busy
  <2>1. PICK m \in Msgs : m = run[c][p].msg /\ PartOf[m] = p /\ run[c][p].step \in Nat
    BY <2>0, CallFacts DEF CallRecord
  <2>2. UNCHANGED <<claims, dlq, crashes, moves, redisErrors>> /\ Undisturbed
    BY <1>3 DEF Work, WorkFails, HandlerError, faultVars, Undisturbed
  <2>3. CASE /\ \E n \in Nat, place \in Busy : Goto(c, p, place, n)
             /\ UNCHANGED <<groupVars, completions>>
    <3>1. PICK new \in CallRecord : new.at \in Busy /\ new.msg = m /\ Becomes(c, p, new)
      BY <2>1, <2>3, GotoBecomes
    <3>2. UNCHANGED pos /\ \A k \in Msgs : Handled(k) => Handled(k)'
      BY <2>2, <2>3 DEF groupVars, Handled
    <3>3. claims' \subseteq claims \cup {m}
      BY <2>2
    <3> QED BY <1>0, <2>0, <2>1, <2>2, <3>1, <3>2, <3>3, KeptByCall
  <2>4. CASE completions' = [completions EXCEPT ![m] = @ + 1] /\ Resolve(c, p)
    <3>1. Becomes(c, p, Idle) /\ \A q \in Partitions : pos'[q] = pos[q] \/ (q = p /\ pos'[q] = m)
      BY <2>0, <2>1, <2>4, ResolveMoves
    <3>2. Handled(m)' /\ \A k \in Msgs : Handled(k) => Handled(k)'
      BY <1>0, <2>2, <2>4 DEF Handled
    <3>3. claims' \subseteq claims \cup {m}
      BY <2>2
    <3> QED BY <1>0, <2>0, <2>1, <2>2, <3>1, <3>2, <3>3, IdleIsCall, KeptByCall
  <2>5. CASE Work(c, p)
    <3>1. run[c][p].step + 1 \in Nat /\ "work" \in Busy
      BY <2>1 DEF Busy
    <3> QED BY <2>1, <2>3, <2>4, <2>5, <3>1 DEF Work
  <2>6. CASE WorkFails(c, p)
    <3>1. \E place \in Busy : Goto(c, p, place, run[c][p].step)
      BY <2>6 DEF WorkFails, Throw, Busy
    <3> QED BY <2>1, <2>3, <2>6, <3>1 DEF WorkFails
  <2> QED BY <1>3, <2>5, <2>6
<1>4. ASSUME NEW c \in Consumers, NEW p \in Partitions, DeadLetter(c, p) PROVE ClaimsKept'
  <2>0. run[c][p].at \in Busy /\ run[c][p].at # "idle"
    BY <1>4 DEF DeadLetter, Busy
  <2>1. PICK m \in Msgs : m = run[c][p].msg /\ PartOf[m] = p
    BY <2>0, CallFacts
  <2>2. UNCHANGED <<claims, completions, crashes, moves, redisErrors>> /\ Undisturbed /\ Resolve(c, p)
    BY <1>4 DEF DeadLetter, faultVars, Undisturbed
  <2>3. dlq' = dlq \cup {m}
    BY <1>4, <2>1, <2>2 DEF DeadLetter, Undisturbed
  <2>4. Becomes(c, p, Idle) /\ \A q \in Partitions : pos'[q] = pos[q] \/ (q = p /\ pos'[q] = m)
    BY <2>0, <2>1, <2>2, ResolveMoves
  <2>5. Handled(m)' /\ \A k \in Msgs : Handled(k) => Handled(k)'
    BY <2>2, <2>3 DEF Handled
  <2>6. claims' \subseteq claims \cup {m}
    BY <2>2
  <2> QED BY <1>0, <2>0, <2>1, <2>2, <2>4, <2>5, <2>6, IdleIsCall, KeptByCall
<1>5. ASSUME NEW c \in Consumers, NEW p \in Partitions, Release(c, p) PROVE ClaimsKept'
  <2>0. run[c][p].at \in Busy /\ run[c][p].at # "idle"
    BY <1>5 DEF Release, Busy
  <2>1. PICK m \in Msgs : m = run[c][p].msg /\ PartOf[m] = p
    BY <2>0, CallFacts
  <2>2. /\ UNCHANGED <<pos, completions, dlq, crashes, moves, redisErrors>> /\ Undisturbed
        /\ Becomes(c, p, Idle) /\ claims' = claims \ {m}
    BY <1>5, <2>1 DEF Release, Return, Becomes, groupVars, storeVars, faultVars, Undisturbed
  <2>3. \A k \in Msgs : Handled(k) => Handled(k)'
    BY <2>2 DEF Handled
  <2> QED BY <1>0, <2>0, <2>1, <2>2, <2>3, IdleIsCall, KeptByCall
<1>6. CASE (\E p \in Partitions : AutoCommit(p)) \/ UNCHANGED vars
  BY <1>6 DEF AutoCommit, vars, groupVars, storeVars, faultVars, ClaimsKept, Undisturbed, Handled,
              BeingHandled
<1>7. ASSUME NEW c \in Consumers, NEW p \in Partitions,
             ClaimError(c, p) \/ ReleaseError(c, p) \/ Rebalance(c, p) \/ Crash(c)
      PROVE  FALSE
  BY <1>0, <1>7 DEF ClaimError, ReleaseError, Rebalance, Crash, RedisError, Undisturbed
<1>8. ASSUME NEW c \in Consumers, Crash(c) PROVE FALSE
  BY <1>0, <1>8 DEF Crash, Undisturbed
<1> QED BY <1>1, <1>2, <1>3, <1>4, <1>5, <1>6, <1>7, <1>8 DEF Next, Step

\* What handleWithDedupe needs for at-least-once: unless a process dies, a partition
\* moves, or Redis or the DLQ fails, the group commits past a message only when it was
\* handled or dead-lettered.
THEOREM CommitsAreHandled == Spec => [](Undisturbed => CommittedIsHandled)
<1>1. Init => ClaimsKept
  <2> SUFFICES ASSUME Init PROVE ClaimsKept
    OBVIOUS
  <2>1. \A m \in Msgs : PartOf[m] \in Partitions /\ m > 0
    BY WebhookAssumption DEF Msgs
  <2> QED BY <2>1, WebhookAssumption DEF Init, ClaimsKept, Msgs
<1>2. HInv /\ RInv /\ ClaimsKept => (Undisturbed => CommittedIsHandled)
  <2> SUFFICES ASSUME HInv, RInv, ClaimsKept, Undisturbed, NEW m \in Msgs, m <= committed[PartOf[m]]
               PROVE  Handled(m)
    BY DEF CommittedIsHandled
  <2>1. PartOf[m] \in Partitions /\ m \in Nat
    BY WebhookAssumption DEF Msgs
  <2>2. /\ committed[PartOf[m]] <= pos[PartOf[m]]
        /\ committed[PartOf[m]] \in Nat /\ pos[PartOf[m]] \in Nat
    BY <2>1, WebhookAssumption DEF RInv, TypeOK
  <2> QED BY <2>1, <2>2 DEF ClaimsKept
<1>3. Spec => []RInv
  BY InitRInv, RowsSteps, PTL DEF Spec
<1> QED BY <1>1, <1>2, <1>3, HInvHolds, ClaimsKeptSteps, PTL DEF Spec
====
