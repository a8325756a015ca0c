------------------------- MODULE BackendIntakeProofs -------------------------
(***************************************************************************)
(* Proof of the invariant of backend-api's intake and relay, for any       *)
(* reports and types of damage, any number of replicas, any batch, and any *)
(* bounds on changes and faults.                                           *)
(***************************************************************************)
EXTENDS BackendIntake, FiniteSetTheorems, TLAPS

\* Where a call stands: what it found was filed, itself was not, and it escalates
\* and has said so as far as it got.
CallKnows(r) ==
  LET q == call[r] IN
  /\ q.pc # "over" => standing[r] = "none"
  /\ q.found \subseteq Filed /\ q.target \in Filed \cup {r}
  /\ q.pc \in {"search", "active", "resolved", "write"} => ~q.escalates /\ r \notin notified
  /\ q.pc \in {"search", "active", "resolved"} => q.target = r
  /\ q.pc \in {"write", "emit"} => q.target # r
  /\ q.pc = "emit" => q.escalates
  /\ q.pc = "commit" => (q.escalates <=> r \in notified) /\ (q.escalates => q.target # r)

Excused(r) == {s \in Reports : s = r \/ TypeOf[s] # TypeOf[r] \/ s \in inactive[r]}

\* What a call saw that was like it: it has it still to lock, or it was settled.
SearchKnows(r) ==
  LET q == call[r] IN
  /\ q.pc \in {"active", "resolved", "write", "emit", "commit"} =>
       \A s \in known[r] : standing[s] \notin ActiveStates => s \in inactive[r]
  /\ known[r] \subseteq Filed
  /\ q.pc = "active" => known[r] \subseteq Excused(r) \cup q.found
  /\ q.pc = "active" => q.found \subseteq known[r] /\ \A s \in q.found : TypeOf[s] = TypeOf[r]
  /\ q.pc = "resolved" => known[r] \subseteq Excused(r)
  /\ (q.pc = "commit" /\ q.target = r) \/ standing[r] # "none" => known[r] \subseteq Excused(r)

OutboxKnows ==
  /\ submitted \subseteq Filed
  /\ \A c \in Reports : /\ outbox[c] # "none" => c \in Filed
                        /\ outbox[c] = "SENT" => c \in submitted

RelayKnows(p) ==
  /\ relay[p].step = "none" <=> relay[p].at = Unlocked
  /\ relay[p].step = "sent" => relay[p].at \in submitted
  /\ Hand(p) \subseteq {c \in Reports : outbox[c] # "none"}
  /\ Cardinality(Hand(p)) <= BatchSize

BackendInv ==
  /\ BackendTypeOK /\ EscalationsAreAnnounced /\ StrandedByFaults /\ OutboxKnows
  /\ \A r \in Reports : CallKnows(r) /\ SearchKnows(r)
  /\ \A p \in Replicas : RelayKnows(p)

-----------------------------------------------------------------------------
CallRecord ==
  [found : SUBSET Reports, target : Reports, escalates : BOOLEAN,
   pc : {"search", "active", "resolved", "write", "emit", "commit", "over"}]
Batch == [rows : SUBSET Reports, at : Reports \cup {Unlocked}, step : {"none", "sent", "failed"}]

LEMMA Types ==
  ASSUME BackendTypeOK
  PROVE  /\ standing \in [Reports -> Standings \cup {"none"}]
         /\ rowLock \in [Reports -> Reports \cup {Unlocked}]
         /\ call \in [Reports -> CallRecord]
         /\ notified \subseteq Reports /\ escalated \subseteq Reports /\ submitted \subseteq Reports
         /\ known \in [Reports -> SUBSET Reports] /\ inactive \in [Reports -> SUBSET Reports]
         /\ outbox \in [Reports -> {"none", "PENDING", "IN_FLIGHT", "FAILED", "SENT"}]
         /\ relay \in [Replicas -> Batch]
         /\ changes \in Nat /\ faults \in Nat
  BY BackendAssumption DEF BackendTypeOK, CallRecord, Batch

\* A statement of a call that is going on.
CallStep(r) ==
  /\ call' \in [Reports -> CallRecord] /\ \A x \in Reports \ {r} : call'[x] = call[x]
  /\ call'[r].pc # "over"
  /\ rowLock' \in [Reports -> Reports \cup {Unlocked}]
  /\ notified' \subseteq Reports /\ \A x \in Reports \ {r} : x \in notified' <=> x \in notified
  /\ notified \subseteq notified'
  /\ known' \in [Reports -> SUBSET Reports] /\ inactive' \in [Reports -> SUBSET Reports]
  /\ \A x \in Reports \ {r} : known'[x] = known[x] /\ inactive'[x] = inactive[x]
  /\ UNCHANGED <<standing, escalated, changes, outbox, submitted, relay, faults>>

LEMMA NoMore ==
  ASSUME NEW S, NEW T, S \subseteq T, IsFiniteSet(T), NEW n \in Nat, Cardinality(T) <= n
  PROVE  Cardinality(S) <= n
<1>1. IsFiniteSet(S) /\ Cardinality(S) <= Cardinality(T)
  BY FS_Subset
<1>2. Cardinality(S) \in Nat /\ Cardinality(T) \in Nat
  BY <1>1, FS_CardinalityType
<1> QED BY <1>1, <1>2

LEMMA BatchesGrow ==
  ASSUME NEW b \in Nat, NEW m \in Nat, NEW n \in Nat, m <= n
  PROVE  b * m <= b * n /\ b * m \in Nat /\ b * n \in Nat /\ b * (m + 1) = b * m + b
  OBVIOUS

Unfounded == {r \in notified \ escalated : Is(r, "over")}

LEMMA UnfoundedIsFinite == ASSUME BackendTypeOK PROVE IsFiniteSet(Unfounded)
  BY Types, BackendAssumption, FS_Subset DEF Unfounded

LEMMA CallStepHolds ==
  ASSUME BackendInv, NEW r \in Reports, CallStep(r), CallKnows(r)', SearchKnows(r)'
  PROVE  BackendInv'
<1>1. BackendTypeOK'
  BY DEF BackendInv, BackendTypeOK, CallStep, CallRecord
<1>2. EscalationsAreAnnounced'
  <2>1. escalated' \subseteq notified'
    BY DEF BackendInv, EscalationsAreAnnounced, CallStep
  <2>2. Unfounded' \subseteq Unfounded
    BY DEF CallStep, Unfounded, Is
  <2>3. Cardinality(Unfounded) <= faults
    BY DEF BackendInv, EscalationsAreAnnounced, Unfounded
  <2>4. Cardinality(Unfounded') <= faults'
    BY <2>2, <2>3, UnfoundedIsFinite, NoMore, Types DEF BackendInv, CallStep
  <2> QED BY <2>1, <2>4 DEF EscalationsAreAnnounced, Unfounded
<1>3. StrandedByFaults' /\ OutboxKnows' /\ \A p \in Replicas : RelayKnows(p)'
  BY DEF BackendInv, CallStep, StrandedByFaults, Stranded, Hand, OutboxKnows, Filed, RelayKnows
<1>4. ASSUME NEW x \in Reports, x # r PROVE CallKnows(x)' /\ SearchKnows(x)'
  <2>1. /\ call'[x] = call[x] /\ known'[x] = known[x] /\ inactive'[x] = inactive[x]
        /\ standing' = standing /\ Filed' = Filed /\ (x \in notified' <=> x \in notified)
        /\ Excused(x)' = Excused(x)
    BY <1>4 DEF CallStep, Filed, Excused
  <2> QED BY <2>1 DEF BackendInv, CallKnows, SearchKnows
<1> QED BY <1>1, <1>2, <1>3, <1>4 DEF BackendInv

\* What a call relies on, taken apart.
LEMMA Known ==
  ASSUME BackendInv, NEW r \in Reports
  PROVE  /\ call[r] \in CallRecord /\ CallKnows(r) /\ SearchKnows(r)
         /\ call \in [Reports -> CallRecord] /\ Filed \subseteq Reports
         /\ known \in [Reports -> SUBSET Reports] /\ inactive \in [Reports -> SUBSET Reports]
         /\ rowLock \in [Reports -> Reports \cup {Unlocked}] /\ notified \subseteq Reports
  BY Types DEF BackendInv, Filed

LEMMA SearchHolds == ASSUME BackendInv, NEW r \in Reports, Search(r) PROVE BackendInv'
<1> DEFINE like == {c \in Filed : Matches(r, c)}
           settled == {c \in Filed : standing[c] \notin ActiveStates}
<1>1. PICK new : new = [[call[r] EXCEPT !.pc = "active"] EXCEPT !.found = like]
  OBVIOUS
<1>2. /\ new \in CallRecord /\ new.pc = "active" /\ new.found = like
      /\ new.target = call[r].target /\ new.escalates = call[r].escalates
  BY <1>1, Known DEF CallRecord
<1>3. /\ call' = [call EXCEPT ![r] = new] /\ call[r].pc = "search"
      /\ known' = [known EXCEPT ![r] = Filed] /\ inactive' = [inactive EXCEPT ![r] = settled]
      /\ UNCHANGED <<standing, rowLock, notified, escalated, changes, outbox, submitted, relay, faults>>
  BY <1>1, Known DEF Search, Is, relayVars
<1>4. /\ call'[r] = new /\ known'[r] = Filed /\ inactive'[r] = settled /\ Filed' = Filed
  BY <1>3, Known DEF Filed
<1>5. CallStep(r)
  BY <1>2, <1>3, <1>4, Known DEF CallStep, Filed
<1>6. CallKnows(r)'
  BY <1>2, <1>3, <1>4, Known DEF CallKnows
<1>7. SearchKnows(r)'
  <2>1. Excused(r)' = {s \in Reports : s = r \/ TypeOf[s] # TypeOf[r] \/ s \in settled}
    BY <1>4 DEF Excused
  <2>2. Filed \subseteq Excused(r)' \cup like
    BY <2>1 DEF Matches, Filed
  <2>3. standing[r] = "none" /\ \A s \in like : TypeOf[s] = TypeOf[r]
    BY <1>3, Known DEF CallKnows, Matches
  <2> HIDE DEF like
  <2>4. like \subseteq Filed /\ like \subseteq Filed'
    BY <1>4 DEF like
  <2>5. standing'[r] = "none" /\ call'[r].pc = "active" /\ call'[r].found = like /\ known'[r] = Filed
    BY <1>2, <1>3, <1>4, <2>3
  <2>6. \A s \in Filed : standing'[s] \notin ActiveStates => s \in settled
    BY <1>3
  <2>7. inactive'[r] = settled /\ Filed' = Filed
    BY <1>4
  <2> HIDE DEF settled
  <2> QED BY <2>2, <2>3, <2>4, <2>5, <2>6, <2>7 DEF SearchKnows
<1> QED BY <1>5, <1>6, <1>7, CallStepHolds

\* The statements that leave notice and knowledge as they are.
Statement(r) ==
  UNCHANGED <<standing, notified, escalated, known, inactive, changes, outbox, submitted, relay, faults>>

LEMMA StatementSteps ==
  ASSUME BackendInv, NEW r \in Reports, Statement(r), NEW new \in CallRecord, new.pc # "over",
         call' = [call EXCEPT ![r] = new], rowLock' \in [Reports -> Reports \cup {Unlocked}]
  PROVE  CallStep(r) /\ call'[r] = new /\ Filed' = Filed /\ Excused(r)' = Excused(r)
  BY Known DEF CallStep, Statement, Filed, Excused

LEMMA SearchResolvedHolds == ASSUME BackendInv, NEW r \in Reports, SearchResolved(r) PROVE BackendInv'
<1>1. PICK recent \in SUBSET {c \in Filed : Recurs(r, c)} :
        call' = [call EXCEPT ![r].pc = "resolved", ![r].found = recent]
  BY DEF SearchResolved
<1>2. PICK new : new = [[call[r] EXCEPT !.pc = "resolved"] EXCEPT !.found = recent]
  OBVIOUS
<1>3. /\ new \in CallRecord /\ new.pc = "resolved" /\ new.found = recent
      /\ new.target = call[r].target /\ new.escalates = call[r].escalates
  BY <1>2, Known DEF CallRecord
<1>4. call' = [call EXCEPT ![r] = new]
  BY <1>1, <1>2, Known
<1>5. Statement(r) /\ UNCHANGED rowLock /\ call[r].pc = "active" /\ call[r].found = {}
  BY DEF SearchResolved, Statement, relayVars, Is
<1>6. CallStep(r) /\ call'[r] = new /\ Filed' = Filed /\ Excused(r)' = Excused(r)
  BY <1>3, <1>4, <1>5, StatementSteps, Known
<1>7. CallKnows(r)'
  BY <1>3, <1>5, <1>6, Known DEF CallKnows, Statement
<1>8. SearchKnows(r)'
  BY <1>3, <1>5, <1>6, Known DEF SearchKnows, Statement, CallKnows
<1> QED BY <1>6, <1>7, <1>8, CallStepHolds

LEMMA LockRowHolds ==
  ASSUME BackendInv, NEW r \in Reports, NEW c \in Reports, LockRow(r, c) PROVE BackendInv'
<1>1. /\ call[r].pc \in {"active", "resolved"} /\ c \in call[r].found /\ Statement(r)
      /\ IF (Is(r, "active") /\ Matches(r, c)) \/ (Is(r, "resolved") /\ Recurs(r, c))
         THEN /\ rowLock' = [rowLock EXCEPT ![c] = r]
              /\ call' = [call EXCEPT ![r].pc = "write", ![r].target = c, ![r].found = {}]
         ELSE call' = [call EXCEPT ![r].found = @ \ {c}] /\ UNCHANGED rowLock
  BY DEF LockRow, Statement, relayVars
<1>2. c \in Filed /\ c # r /\ standing[r] = "none"
  BY <1>1, Known DEF CallKnows, Filed
<1>3. CASE (Is(r, "active") /\ Matches(r, c)) \/ (Is(r, "resolved") /\ Recurs(r, c))
  <2>1. PICK mid : mid = [[call[r] EXCEPT !.pc = "write"] EXCEPT !.target = c]
    OBVIOUS
  <2>2. PICK new : new = [mid EXCEPT !.found = {}]
    OBVIOUS
  <2>3. /\ mid \in CallRecord /\ mid.pc = "write" /\ mid.target = c
        /\ mid.escalates = call[r].escalates
    <3>1. call[r] \in CallRecord
      BY Known
    <3> QED BY <2>1, <3>1 DEF CallRecord
  <2>4. /\ new \in CallRecord /\ new.pc = "write" /\ new.target = c /\ new.found = {}
        /\ new.escalates = call[r].escalates
    BY <2>2, <2>3 DEF CallRecord
  <2>5. call' = [call EXCEPT ![r] = new] /\ rowLock' \in [Reports -> Reports \cup {Unlocked}]
    BY <1>1, <1>3, <2>1, <2>2, Known
  <2>6. CallStep(r) /\ call'[r] = new /\ Filed' = Filed /\ Excused(r)' = Excused(r)
    BY <1>1, <2>4, <2>5, StatementSteps
  <2>7. CallKnows(r)'
    BY <1>1, <1>2, <2>4, <2>6, Known DEF CallKnows, Statement
  <2>8. SearchKnows(r)'
    BY <1>1, <1>2, <2>4, <2>6, Known DEF SearchKnows, Statement
  <2> QED BY <2>6, <2>7, <2>8, CallStepHolds
<1>4. CASE ~((Is(r, "active") /\ Matches(r, c)) \/ (Is(r, "resolved") /\ Recurs(r, c)))
  <2>1. PICK new : new = [call[r] EXCEPT !.found = call[r].found \ {c}]
    OBVIOUS
  <2>2. /\ new \in CallRecord /\ new.pc = call[r].pc /\ new.found = call[r].found \ {c}
        /\ new.target = call[r].target /\ new.escalates = call[r].escalates
    <3>1. call[r] \in CallRecord /\ call[r].found \ {c} \in SUBSET Reports
      BY Known DEF CallRecord
    <3> QED BY <2>1, <3>1 DEF CallRecord
  <2>3. call' = [call EXCEPT ![r] = new] /\ rowLock' \in [Reports -> Reports \cup {Unlocked}]
    BY <1>1, <1>4, <2>1, Known
  <2>4. CallStep(r) /\ call'[r] = new /\ Filed' = Filed /\ Excused(r)' = Excused(r)
    BY <1>1, <2>2, <2>3, StatementSteps
  <2>5. CallKnows(r)'
    BY <1>1, <2>2, <2>4, Known DEF CallKnows, Statement
  <2>6. call[r].pc = "active" => c \in Excused(r)
    BY <1>1, <1>4, Known DEF SearchKnows, Excused, Matches, Is
  <2>7. SearchKnows(r)'
    BY <1>1, <1>2, <2>2, <2>4, <2>6, Known DEF SearchKnows, Statement
  <2> QED BY <2>4, <2>5, <2>7, CallStepHolds
<1> QED BY <1>3, <1>4

LEMMA MergeHolds == ASSUME BackendInv, NEW r \in Reports, Merge(r) PROVE BackendInv'
<1>1. PICK escalates \in BOOLEAN :
        call' = [call EXCEPT ![r].escalates = escalates,
                             ![r].pc = IF escalates THEN "emit" ELSE "commit"]
  BY DEF Merge
<1>2. PICK pc : pc = IF escalates THEN "emit" ELSE "commit"
  OBVIOUS
<1>3. PICK new : new = [[call[r] EXCEPT !.escalates = escalates] EXCEPT !.pc = pc]
  OBVIOUS
<1>4. /\ new \in CallRecord /\ new.pc = pc /\ new.found = call[r].found
      /\ new.target = call[r].target /\ (new.escalates <=> escalates)
  <2>1. call[r] \in CallRecord
    BY Known
  <2>2. pc \in {"search", "active", "resolved", "write", "emit", "commit", "over"}
    BY <1>2
  <2>3. PICK mid : mid = [call[r] EXCEPT !.escalates = escalates]
    OBVIOUS
  <2>4. /\ mid \in CallRecord /\ mid.found = call[r].found /\ mid.target = call[r].target
        /\ mid.escalates = escalates
    BY <2>1, <2>3 DEF CallRecord
  <2> QED BY <1>3, <2>2, <2>3, <2>4 DEF CallRecord
<1>5. call' = [call EXCEPT ![r] = new]
  BY <1>1, <1>2, <1>3, Known
<1>6. Statement(r) /\ UNCHANGED rowLock /\ call[r].pc = "write"
  BY DEF Merge, Statement, relayVars, Is
<1>7. CallStep(r) /\ call'[r] = new /\ Filed' = Filed /\ Excused(r)' = Excused(r)
  BY <1>2, <1>4, <1>5, <1>6, StatementSteps, Known
<1>8. CallKnows(r)'
  BY <1>2, <1>4, <1>6, <1>7, Known DEF CallKnows, Statement
<1>9. SearchKnows(r)'
  BY <1>2, <1>4, <1>6, <1>7, Known DEF SearchKnows, Statement, CallKnows
<1> QED BY <1>7, <1>8, <1>9, CallStepHolds

LEMMA CreateHolds == ASSUME BackendInv, NEW r \in Reports, Create(r) PROVE BackendInv'
<1>1. PICK new : new = [call[r] EXCEPT !.pc = "commit"]
  OBVIOUS
<1>2. /\ new \in CallRecord /\ new.pc = "commit" /\ new.found = call[r].found
      /\ new.target = call[r].target /\ new.escalates = call[r].escalates
  BY <1>1, Known DEF CallRecord
<1>3. /\ call' = [call EXCEPT ![r] = new] /\ Statement(r) /\ UNCHANGED rowLock
      /\ call[r].pc = "resolved"
  BY <1>1, Known DEF Create, Statement, relayVars, Is
<1>4. CallStep(r) /\ call'[r] = new /\ Filed' = Filed /\ Excused(r)' = Excused(r)
  BY <1>2, <1>3, StatementSteps, Known
<1>5. CallKnows(r)'
  BY <1>2, <1>3, <1>4, Known DEF CallKnows, Statement
<1>6. SearchKnows(r)'
  BY <1>2, <1>3, <1>4, Known DEF SearchKnows, Statement
<1> QED BY <1>4, <1>5, <1>6, CallStepHolds

LEMMA EmitHolds == ASSUME BackendInv, NEW r \in Reports, Emit(r) PROVE BackendInv'
<1>1. PICK new : new = [call[r] EXCEPT !.pc = "commit"]
  OBVIOUS
<1>2. /\ new \in CallRecord /\ new.pc = "commit" /\ new.found = call[r].found
      /\ new.target = call[r].target /\ new.escalates = call[r].escalates
  BY <1>1, Known DEF CallRecord
<1>3. /\ call' = [call EXCEPT ![r] = new] /\ call[r].pc = "emit" /\ notified' = notified \cup {r}
      /\ UNCHANGED <<standing, rowLock, escalated, known, inactive, changes, outbox, submitted,
                     relay, faults>>
  BY <1>1, Known DEF Emit, relayVars, Is
<1>4. CallStep(r) /\ call'[r] = new /\ Filed' = Filed /\ Excused(r)' = Excused(r)
  BY <1>2, <1>3, Known DEF CallStep, Filed, Excused
<1>5. CallKnows(r)'
  BY <1>2, <1>3, <1>4, Known DEF CallKnows
<1>6. SearchKnows(r)'
  BY <1>2, <1>3, <1>4, Known DEF SearchKnows, CallKnows
<1> QED BY <1>4, <1>5, <1>6, CallStepHolds

\* The end of a call, with or without its COMMIT.
Ends(r) ==
  /\ call' \in [Reports -> CallRecord] /\ \A x \in Reports \ {r} : call'[x] = call[x]
  /\ call'[r].pc = "over" /\ call'[r].found = {} /\ call'[r].target = call[r].target
  /\ rowLock' \in [Reports -> Reports \cup {Unlocked}]
  /\ UNCHANGED <<known, inactive, changes, submitted, relay>>
\* What its end may leave of the complaints and their rows.
Leaves(r) ==
  /\ standing' \in [Reports -> Standings \cup {"none"}]
  /\ \A x \in Reports \ {r} : standing'[x] = "none" <=> standing[x] = "none"
  /\ \A s \in Filed : standing'[s] \notin ActiveStates => standing[s] \notin ActiveStates
  /\ standing'[r] # "none" => known[r] \subseteq Excused(r)
  /\ outbox' \in [Reports -> {"none", "PENDING", "IN_FLIGHT", "FAILED", "SENT"}]
  /\ \A c \in Reports : outbox'[c] = outbox[c] \/ (outbox'[c] = "PENDING" /\ standing'[c] # "none")

LEMMA EndHolds ==
  ASSUME BackendInv, NEW r \in Reports, Ends(r), Leaves(r), call[r].pc # "over",
         notified' \subseteq Reports, \A x \in Reports \ {r} : x \in notified' <=> x \in notified,
         escalated' \subseteq notified', faults' \in 0..MaxFaults, faults <= faults',
         Cardinality(Unfounded') <= faults'
  PROVE  BackendInv'
<1>1. standing[r] = "none" /\ r \notin Filed
  BY Known DEF CallKnows, Filed
<1>2. BackendTypeOK'
  BY DEF BackendInv, BackendTypeOK, Ends, Leaves, CallRecord
<1>3. EscalationsAreAnnounced'
  BY DEF EscalationsAreAnnounced, Unfounded
<1>4. Filed \subseteq Filed' /\ Filed' \subseteq Filed \cup {r}
  BY <1>1 DEF Leaves, Filed
<1>5. OutboxKnows'
  <2>1. submitted' \subseteq Filed'
    BY <1>4 DEF BackendInv, OutboxKnows, Ends
  <2>2. ASSUME NEW c \in Reports
        PROVE  (outbox'[c] # "none" => c \in Filed') /\ (outbox'[c] = "SENT" => c \in submitted')
    <3>1. CASE outbox'[c] = outbox[c]
      BY <1>4, <3>1 DEF BackendInv, OutboxKnows, Ends
    <3>2. CASE outbox'[c] = "PENDING" /\ standing'[c] # "none"
      BY <3>2 DEF Filed
    <3> QED BY <3>1, <3>2 DEF Leaves
  <2> QED BY <2>1, <2>2 DEF OutboxKnows
<1>6. \A p \in Replicas : RelayKnows(p)'
  BY DEF BackendInv, RelayKnows, Hand, Ends, Leaves
<1>7. StrandedByFaults'
  <2>1. Stranded' \subseteq Stranded
    BY DEF Stranded, Hand, Ends, Leaves
  <2>2. BatchSize * faults <= BatchSize * faults' /\ BatchSize * faults' \in Nat
        /\ BatchSize * faults \in Nat
    <3>1. BatchSize \in Nat /\ faults \in Nat /\ faults' \in Nat
      BY BackendAssumption, Types DEF BackendInv
    <3> QED BY <3>1, BatchesGrow
  <2>3. IsFiniteSet(Stranded) /\ Cardinality(Stranded) <= BatchSize * faults
    BY BackendAssumption, FS_Subset DEF BackendInv, StrandedByFaults, Stranded
  <2>4. Cardinality(Stranded') <= BatchSize * faults
    BY <2>1, <2>2, <2>3, NoMore
  <2>5. IsFiniteSet(Stranded')
    BY <2>1, <2>3, FS_Subset
  <2>6. Cardinality(Stranded') \in Nat
    BY <2>5, FS_CardinalityType
  <2> DEFINE a == BatchSize * faults  b == BatchSize * faults'
  <2>7. a \in Nat /\ b \in Nat /\ a <= b /\ Cardinality(Stranded') <= a
    BY <2>2, <2>4
  <2> HIDE DEF a, b
  <2>8. Cardinality(Stranded') <= b
    BY <2>6, <2>7
  <2> QED BY <2>8 DEF StrandedByFaults, b
<1>8. ASSUME NEW x \in Reports, x # r PROVE CallKnows(x)' /\ SearchKnows(x)'
  <2>1. /\ call'[x] = call[x] /\ known'[x] = known[x] /\ inactive'[x] = inactive[x]
        /\ (standing'[x] = "none" <=> standing[x] = "none") /\ (x \in notified' <=> x \in notified)
        /\ Excused(x)' = Excused(x)
    BY <1>8 DEF Ends, Leaves, Excused
  <2>2. CallKnows(x)'
    BY <1>4, <2>1 DEF BackendInv, CallKnows
  <2>3. \A s \in known[x] : standing'[s] \notin ActiveStates => standing[s] \notin ActiveStates
    BY DEF BackendInv, SearchKnows, Leaves
  <2>4. SearchKnows(x)'
    BY <1>4, <2>1, <2>3 DEF BackendInv, SearchKnows
  <2> QED BY <2>2, <2>4
<1>9. CallKnows(r)'
  <2>1. call[r].target \in Filed \cup {r}
    BY Known DEF CallKnows
  <2> QED BY <1>4, <2>1 DEF CallKnows, Ends
<1>10. SearchKnows(r)'
  <2>1. known[r] \subseteq Filed'
    BY <1>4, Known DEF SearchKnows
  <2>2. standing'[r] # "none" => known[r] \subseteq Excused(r)'
    BY DEF Leaves, Ends, Excused
  <2> QED BY <2>1, <2>2 DEF SearchKnows, Ends
<1> QED BY <1>2, <1>3, <1>5, <1>6, <1>7, <1>8, <1>9, <1>10 DEF BackendInv

LEMMA OverEnds ==
  ASSUME BackendInv, NEW r \in Reports, Over(r), ReleaseRows(r),
         UNCHANGED <<known, inactive, changes, submitted, relay>>
  PROVE  Ends(r)
<1>1. PICK new : new = [[call[r] EXCEPT !.pc = "over"] EXCEPT !.found = {}]
  OBVIOUS
<1>2. /\ new \in CallRecord /\ new.pc = "over" /\ new.found = {} /\ new.target = call[r].target
  <2>1. call[r] \in CallRecord
    BY Known
  <2>2. PICK mid : mid = [call[r] EXCEPT !.pc = "over"]
    OBVIOUS
  <2>3. mid \in CallRecord /\ mid.pc = "over" /\ mid.target = call[r].target
    BY <2>1, <2>2 DEF CallRecord
  <2> QED BY <1>1, <2>2, <2>3 DEF CallRecord
<1>3. call' = [call EXCEPT ![r] = new]
  BY <1>1, Known DEF Over
<1>4. rowLock' \in [Reports -> Reports \cup {Unlocked}]
  BY Known DEF ReleaseRows
<1> QED BY <1>2, <1>3, <1>4, Known DEF Ends

LEMMA CommitHolds == ASSUME BackendInv, NEW r \in Reports, CommitReport(r) PROVE BackendInv'
<1>1. /\ call[r].pc = "commit" /\ Takes(r)
      /\ UNCHANGED <<notified, known, inactive, changes, submitted, relay, faults>>
  BY DEF CommitReport, Is, relayVars
<1>2. Ends(r)
  BY <1>1, OverEnds DEF CommitReport
<1>3. /\ standing[r] = "none" /\ call[r].target \in Filed \cup {r}
      /\ call[r].escalates \in BOOLEAN
      /\ call[r].escalates <=> r \in notified
      /\ call[r].escalates => call[r].target # r
      /\ call[r].target = r => known[r] \subseteq Excused(r)
  BY <1>1, Known DEF CallKnows, SearchKnows, CallRecord
<1>4. /\ standing \in [Reports -> Standings \cup {"none"}]
      /\ outbox \in [Reports -> {"none", "PENDING", "IN_FLIGHT", "FAILED", "SENT"}]
      /\ faults \in 0..MaxFaults /\ faults \in Nat /\ escalated \subseteq notified
      /\ notified \subseteq Reports
  BY Types DEF BackendInv, BackendTypeOK, EscalationsAreAnnounced
<1>5. Leaves(r) /\ escalated \subseteq escalated' /\ escalated' \subseteq notified
      /\ (r \in notified => r \in escalated')
  <2>1. CASE call[r].target = r
    <3>1. /\ standing' = [standing EXCEPT ![r] = "FILED"]
          /\ outbox' = [outbox EXCEPT ![r] = "PENDING"] /\ UNCHANGED escalated
      BY <1>1, <2>1 DEF Takes
    <3>2. standing' \in [Reports -> Standings \cup {"none"}]
      BY <1>4, <3>1 DEF Standings, ActiveStates
    <3>3. \A c \in Reports : outbox'[c] = outbox[c] \/ (outbox'[c] = "PENDING" /\ standing'[c] # "none")
      BY <1>4, <3>1
    <3> QED BY <1>3, <1>4, <2>1, <3>1, <3>2, <3>3 DEF Leaves, ActiveStates
  <2>2. CASE call[r].target # r /\ call[r].escalates
    <3> DEFINE c == call[r].target
    <3>1. /\ standing' = [standing EXCEPT ![c] = "ESCALATED"]
          /\ UNCHANGED outbox /\ escalated' = escalated \cup {r}
      BY <1>1, <2>2 DEF Takes
    <3>2. c \in Reports /\ standing[c] # "none" /\ c # r
      BY <1>3, <2>2 DEF Filed
    <3> HIDE DEF c
    <3> QED BY <1>3, <1>4, <2>2, <3>1, <3>2 DEF Leaves, ActiveStates, Standings
  <2>3. CASE call[r].target # r /\ ~call[r].escalates
    <3>1. UNCHANGED <<standing, outbox, escalated>>
      BY <1>1, <2>3 DEF Takes
    <3> QED BY <1>3, <1>4, <2>3, <3>1 DEF Leaves
  <2> QED BY <1>3, <2>1, <2>2, <2>3
<1>6. Cardinality(Unfounded') <= faults
  <2>1. Unfounded' \subseteq Unfounded
    BY <1>1, <1>2, <1>4, <1>5 DEF Unfounded, Is, Ends
  <2>2. Cardinality(Unfounded) <= faults
    BY DEF BackendInv, EscalationsAreAnnounced, Unfounded
  <2> QED BY <1>4, <2>1, <2>2, UnfoundedIsFinite, NoMore DEF BackendInv
<1> QED BY <1>1, <1>2, <1>4, <1>5, <1>6, EndHolds

LEMMA FailsHolds == ASSUME BackendInv, NEW r \in Reports, Fails(r) PROVE BackendInv'
<1>1. /\ call[r].pc # "over" /\ faults < MaxFaults /\ faults' = faults + 1
      /\ notified' = notified \/ notified' = notified \cup {r}
      /\ UNCHANGED <<standing, escalated, known, inactive, changes, outbox, submitted, relay>>
  BY DEF Fails, Fault, relayVars
<1>2. Ends(r)
  BY <1>1, OverEnds DEF Fails
<1>3. /\ standing \in [Reports -> Standings \cup {"none"}] /\ standing[r] = "none"
      /\ outbox \in [Reports -> {"none", "PENDING", "IN_FLIGHT", "FAILED", "SENT"}]
      /\ faults \in Nat /\ MaxFaults \in Nat /\ escalated \subseteq notified
      /\ notified \subseteq Reports
  BY <1>1, Known, Types, BackendAssumption DEF BackendInv, EscalationsAreAnnounced, CallKnows
<1>4. Leaves(r)
  BY <1>1, <1>3 DEF Leaves
<1>5. Cardinality(Unfounded') <= faults'
  <2>1. Unfounded' \subseteq Unfounded \cup {r}
    BY <1>1, <1>2, <1>3 DEF Unfounded, Is, Ends
  <2>2. IsFiniteSet(Unfounded) /\ Cardinality(Unfounded) <= faults
    BY UnfoundedIsFinite DEF BackendInv, EscalationsAreAnnounced, Unfounded
  <2>3. IsFiniteSet(Unfounded \cup {r}) /\ Cardinality(Unfounded \cup {r}) <= faults + 1
    <3>1. IsFiniteSet(Unfounded \cup {r}) /\ Cardinality(Unfounded) \in Nat
          /\ \/ Cardinality(Unfounded \cup {r}) = Cardinality(Unfounded)
             \/ Cardinality(Unfounded \cup {r}) = Cardinality(Unfounded) + 1
      BY <2>2, FS_AddElement, FS_CardinalityType
    <3> QED BY <1>3, <2>2, <3>1
  <2>4. faults + 1 \in Nat
    BY <1>3
  <2>5. Cardinality(Unfounded') <= faults + 1
    BY <2>1, <2>3, <2>4, NoMore
  <2> QED BY <1>1, <2>5
<1>6. faults' \in 0..MaxFaults /\ faults <= faults'
  BY <1>1, <1>3
<1>7. notified' \subseteq Reports /\ escalated' \subseteq notified'
  BY <1>1, <1>3
<1> QED BY <1>1, <1>2, <1>4, <1>5, <1>6, <1>7, EndHolds

\* A step that leaves the outbox and its relay alone, and no more unfounded.
Aside == UNCHANGED <<outbox, submitted, relay, faults>>

LEMMA AsideHolds ==
  ASSUME BackendInv, Aside, Filed' = Filed PROVE StrandedByFaults' /\ OutboxKnows' /\ \A p \in Replicas : RelayKnows(p)'
  BY DEF BackendInv, Aside, StrandedByFaults, Stranded, Hand, OutboxKnows, RelayKnows

LEMMA MoveHolds ==
  ASSUME BackendInv, NEW c \in Reports, NEW s \in Standings, Move(c, s) PROVE BackendInv'
<1>1. /\ c \in Filed /\ changes < MaxChanges /\ changes' = changes + 1
      /\ standing' = [standing EXCEPT ![c] = s]
      /\ inactive' = IF s \in ActiveStates THEN inactive
           ELSE [r \in Reports |-> IF call[r].pc \in {"search", "over"}
                                  THEN inactive[r] ELSE inactive[r] \cup {c}]
      /\ UNCHANGED <<rowLock, call, notified, escalated, known, outbox, submitted, relay, faults>>
  BY DEF Move, relayVars
<1>2. /\ standing \in [Reports -> Standings \cup {"none"}] /\ s # "none" /\ standing[c] # "none"
      /\ inactive \in [Reports -> SUBSET Reports] /\ changes \in Nat /\ MaxChanges \in Nat
  BY <1>1, Types, BackendAssumption DEF BackendInv, Filed, Standings, ActiveStates
<1>3. /\ standing' \in [Reports -> Standings \cup {"none"}] /\ Filed' = Filed
      /\ \A x \in Reports : standing'[x] = "none" <=> standing[x] = "none"
      /\ \A x \in Reports \ {c} : standing'[x] = standing[x]
      /\ standing'[c] = s
  BY <1>1, <1>2 DEF Filed
<1>4. /\ inactive' \in [Reports -> SUBSET Reports]
      /\ \A x \in Reports : inactive[x] \subseteq inactive'[x]
      /\ \A x \in Reports : s \notin ActiveStates /\ call[x].pc \notin {"search", "over"}
                              => c \in inactive'[x]
  <2>1. CASE s \in ActiveStates
    BY <1>1, <1>2, <2>1
  <2>2. CASE s \notin ActiveStates
    BY <1>1, <1>2, <2>2
  <2> QED BY <2>1, <2>2
<1>5. BackendTypeOK'
  BY <1>1, <1>2, <1>3, <1>4 DEF BackendInv, BackendTypeOK
<1>6. EscalationsAreAnnounced'
  BY <1>1 DEF BackendInv, EscalationsAreAnnounced, Is
<1>7. StrandedByFaults' /\ OutboxKnows' /\ \A p \in Replicas : RelayKnows(p)'
  BY <1>1, <1>3, AsideHolds DEF Aside
<1>8. ASSUME NEW x \in Reports PROVE CallKnows(x)' /\ SearchKnows(x)'
  <2>1. CallKnows(x)'
    BY <1>1, <1>3, Known DEF CallKnows
  <2>2. Excused(x) \subseteq Excused(x)'
    BY <1>4 DEF Excused
  <2>3. ASSUME call[x].pc \in {"active", "resolved", "write", "emit", "commit"},
               NEW t \in known[x], standing'[t] \notin ActiveStates
        PROVE  t \in inactive'[x]
    <3>1. t \in Reports
      BY Known
    <3>2. CASE t = c
      BY <1>3, <1>4, <2>3, <3>2
    <3>3. CASE t # c
      BY <1>3, <1>4, <2>3, <3>1, <3>3, Known DEF SearchKnows
    <3> QED BY <3>2, <3>3
  <2>4. SearchKnows(x)'
    BY <1>1, <1>3, <2>2, <2>3, Known DEF SearchKnows
  <2> QED BY <2>1, <2>4
<1> QED BY <1>5, <1>6, <1>7, <1>8 DEF BackendInv

-----------------------------------------------------------------------------
\* A step of the relay.
LEMMA RelayStepHolds ==
  ASSUME BackendInv, UNCHANGED callVars,
         outbox' \in [Reports -> {"none", "PENDING", "IN_FLIGHT", "FAILED", "SENT"}],
         submitted \subseteq submitted', submitted' \subseteq Filed,
         \A c \in Reports : /\ outbox'[c] = "none" <=> outbox[c] = "none"
                            /\ outbox'[c] = "SENT" => c \in submitted',
         NEW p \in Replicas, NEW b \in Batch, relay' = [relay EXCEPT ![p] = b],
         RelayKnows(p)', faults' \in 0..MaxFaults, faults <= faults', StrandedByFaults'
  PROVE  BackendInv'
<1>1. /\ UNCHANGED <<standing, rowLock, call, notified, escalated, known, inactive, changes>>
      /\ Filed' = Filed /\ Filed \subseteq Reports
  BY DEF callVars, Filed
<1>2. /\ relay \in [Replicas -> Batch] /\ faults \in Nat /\ faults' \in Nat
      /\ relay' \in [Replicas -> Batch] /\ \A q \in Replicas \ {p} : relay'[q] = relay[q]
  BY Types, BackendAssumption DEF BackendInv
<1>3. BackendTypeOK'
  BY <1>1, <1>2 DEF BackendInv, BackendTypeOK, Batch
<1>4. EscalationsAreAnnounced'
  <2>1. Unfounded' = Unfounded /\ Cardinality(Unfounded) <= faults /\ escalated' \subseteq notified'
    BY <1>1 DEF BackendInv, EscalationsAreAnnounced, Unfounded, Is
  <2>2. Cardinality(Unfounded) \in Nat
    BY UnfoundedIsFinite, FS_CardinalityType DEF BackendInv
  <2>3. Cardinality(Unfounded') <= faults'
    BY <1>2, <2>1, <2>2
  <2> QED BY <2>1, <2>3 DEF EscalationsAreAnnounced, Unfounded
<1>5. OutboxKnows'
  BY <1>1 DEF BackendInv, OutboxKnows
<1>6. \A x \in Reports : CallKnows(x)' /\ SearchKnows(x)'
  BY <1>1 DEF BackendInv, CallKnows, SearchKnows, Excused
<1>7. ASSUME NEW q \in Replicas, q # p PROVE RelayKnows(q)'
  <2>1. relay'[q] = relay[q] /\ Hand(q)' = Hand(q)
    BY <1>2, <1>7 DEF Hand
  <2> QED BY <2>1 DEF BackendInv, RelayKnows
<1> QED BY <1>3, <1>4, <1>5, <1>6, <1>7 DEF BackendInv

\* No more is stranded where nothing was before, and what a fault strands is a batch.
LEMMA StrandedStays ==
  ASSUME BackendInv, Stranded' \subseteq Stranded, faults' \in Nat, faults <= faults'
  PROVE  StrandedByFaults'
<1>1. BatchSize \in Nat /\ faults \in Nat
  BY BackendAssumption, Types DEF BackendInv
<1>2. IsFiniteSet(Stranded) /\ Cardinality(Stranded) <= BatchSize * faults
  BY BackendAssumption, FS_Subset DEF BackendInv, StrandedByFaults, Stranded
<1>3. PICK m \in Nat : m = BatchSize * faults
  BY <1>1, BatchesGrow
<1>4. PICK n \in Nat : n = BatchSize * faults' /\ m <= n
  BY <1>1, <1>3, BatchesGrow
<1>5. Cardinality(Stranded') <= m
  BY <1>2, <1>3, NoMore
<1>6. Cardinality(Stranded') \in Nat
  BY <1>2, FS_Subset, FS_CardinalityType
<1> QED BY <1>4, <1>5, <1>6 DEF StrandedByFaults

LEMMA StrandedGrows ==
  ASSUME BackendInv, NEW X, IsFiniteSet(X), Cardinality(X) <= BatchSize,
         Stranded' \subseteq Stranded \cup X, faults' = faults + 1
  PROVE  StrandedByFaults'
<1>1. BatchSize \in Nat /\ faults \in Nat
  BY BackendAssumption, Types DEF BackendInv
<1>2. IsFiniteSet(Stranded) /\ Cardinality(Stranded) <= BatchSize * faults
  BY BackendAssumption, FS_Subset DEF BackendInv, StrandedByFaults, Stranded
<1>3. PICK m \in Nat : m = BatchSize * faults
  BY <1>1, BatchesGrow
<1>4. BatchSize * faults' = m + BatchSize
  BY <1>1, <1>3, BatchesGrow
<1>5. /\ IsFiniteSet(Stranded \cup X) /\ Cardinality(Stranded \cup X) <= m + BatchSize
      /\ m + BatchSize \in Nat
  <2>1. /\ Cardinality(Stranded) \in Nat /\ Cardinality(X) \in Nat
        /\ Cardinality(Stranded \cap X) \in Nat
    BY <1>2, FS_CardinalityType, FS_Intersection
  <2>2. /\ IsFiniteSet(Stranded \cup X)
        /\ Cardinality(Stranded \cup X) = Cardinality(Stranded) + Cardinality(X) - Cardinality(Stranded \cap X)
    BY <1>2, FS_Union
  <2> QED BY <1>1, <1>2, <1>3, <2>1, <2>2
<1>6. Cardinality(Stranded') <= m + BatchSize
  BY <1>5, NoMore
<1> QED BY <1>4, <1>6 DEF StrandedByFaults

\* What a relay relies on, taken apart.
LEMMA RelayKnown ==
  ASSUME BackendInv, NEW p \in Replicas
  PROVE  /\ relay[p] \in Batch /\ RelayKnows(p) /\ relay \in [Replicas -> Batch]
         /\ outbox \in [Reports -> {"none", "PENDING", "IN_FLIGHT", "FAILED", "SENT"}]
         /\ submitted \subseteq Filed /\ \A c \in Reports : outbox[c] # "none" => c \in Filed
         /\ \A c \in Reports : outbox[c] = "SENT" => c \in submitted
         /\ Unlocked \notin Reports /\ Filed \subseteq Reports
         /\ faults \in 0..MaxFaults /\ faults \in Nat /\ MaxFaults \in Nat
         /\ IsFiniteSet(Hand(p)) /\ Cardinality(Hand(p)) <= BatchSize /\ BatchSize \in Nat
         /\ Hand(p) \subseteq Reports
<1>1. relay \in [Replicas -> Batch] /\ relay[p] \in Batch /\ RelayKnows(p)
  BY Types DEF BackendInv
<1>2. Hand(p) \subseteq Reports
  BY <1>1 DEF RelayKnows
<1>3. IsFiniteSet(Hand(p))
  BY <1>2, BackendAssumption, FS_Subset
<1> QED BY <1>1, <1>2, <1>3, BackendAssumption, Types
        DEF BackendInv, BackendTypeOK, OutboxKnows, RelayKnows, Filed

LEMMA FaultCounts ==
  ASSUME BackendInv, Fault
  PROVE  faults' \in 0..MaxFaults /\ faults' \in Nat /\ faults <= faults' /\ faults' = faults + 1
  BY Types, BackendAssumption DEF BackendInv, Fault

LEMMA ClaimHolds ==
  ASSUME BackendInv, NEW p \in Replicas, NEW rows \in SUBSET Reports, ClaimPendingEvents(p, rows)
  PROVE  BackendInv'
<1>1. /\ relay[p] = NoBatch /\ Cardinality(rows) <= BatchSize /\ \A c \in rows : Claimable(c)
      /\ outbox' = [c \in Reports |-> IF c \in rows THEN "IN_FLIGHT" ELSE outbox[c]]
      /\ UNCHANGED callVars /\ UNCHANGED submitted
  BY DEF ClaimPendingEvents
<1>2. /\ outbox' \in [Reports -> {"none", "PENDING", "IN_FLIGHT", "FAILED", "SENT"}]
      /\ \A c \in Reports : /\ outbox'[c] = "none" <=> outbox[c] = "none"
                            /\ outbox'[c] = "SENT" => c \in submitted'
      /\ rows \subseteq {c \in Reports : outbox'[c] # "none"}
  BY <1>1, RelayKnown DEF Claimable
<1>3. IsFiniteSet(rows)
  BY BackendAssumption, FS_Subset
<1>4. Hand(p) = {}
  BY <1>1 DEF Hand, NoBatch
<1>5. CASE relay' = [relay EXCEPT ![p].rows = rows] /\ UNCHANGED faults
  <2>1. PICK b : b = [NoBatch EXCEPT !.rows = rows]
    OBVIOUS
  <2>2. b \in Batch /\ b.rows = rows /\ b.at = Unlocked /\ b.step = "none"
    BY <2>1 DEF Batch, NoBatch
  <2>3. relay' = [relay EXCEPT ![p] = b]
    BY <1>1, <1>5, <2>1, RelayKnown
  <2>4. relay'[p] = b /\ \A q \in Replicas \ {p} : relay'[q] = relay[q]
    BY <2>3, RelayKnown
  <2>5. Hand(p)' = rows /\ \A q \in Replicas \ {p} : Hand(q)' = Hand(q)
    BY <2>2, <2>4 DEF Hand
  <2>6. RelayKnows(p)'
    BY <1>1, <1>2, <2>2, <2>4, <2>5 DEF RelayKnows
  <2>7. Stranded' \subseteq Stranded
    BY <1>1, <1>4, <2>5 DEF Stranded
  <2>8. StrandedByFaults'
    BY <1>5, <2>7, RelayKnown, StrandedStays
  <2>9. /\ b \in Batch /\ submitted \subseteq submitted' /\ submitted' \subseteq Filed
        /\ faults' \in 0..MaxFaults /\ faults <= faults'
    BY <1>1, <1>5, <2>2, RelayKnown
  <2> QED BY <1>1, <1>2, <2>3, <2>6, <2>8, <2>9, RelayStepHolds
<1>6. CASE Fault /\ UNCHANGED relay
  <2>1. relay' = [relay EXCEPT ![p] = relay[p]] /\ \A q \in Replicas : Hand(q)' = Hand(q)
    BY <1>6, RelayKnown DEF Hand
  <2>2. RelayKnows(p)'
    BY <1>1, <1>2, <1>4, <1>6, <2>1, RelayKnown DEF RelayKnows
  <2>3. Stranded' \subseteq Stranded \cup rows
    BY <1>1, <2>1 DEF Stranded
  <2>4. StrandedByFaults'
    BY <1>1, <1>3, <1>6, <2>3, FaultCounts, StrandedGrows
  <2> QED BY <1>1, <1>2, <1>6, <2>1, <2>2, <2>4, FaultCounts, RelayKnown, RelayStepHolds
<1> QED BY <1>5, <1>6 DEF ClaimPendingEvents

LEMMA PublishHolds ==
  ASSUME BackendInv, NEW p \in Replicas, NEW c \in Reports, Publish(p, c) PROVE BackendInv'
<1>1. PICK step \in {"sent", "failed"} :
        /\ relay' = [relay EXCEPT ![p] = [rows |-> relay[p].rows \ {c}, at |-> c, step |-> step]]
        /\ submitted' \in IF step = "sent" THEN {submitted \cup {c}}
                          ELSE {submitted, submitted \cup {c}}
  BY RelayKnown DEF Publish
<1>2. relay[p].step = "none" /\ c \in relay[p].rows /\ UNCHANGED <<outbox, faults>> /\ UNCHANGED callVars
  BY DEF Publish
<1>3. relay[p].at = Unlocked /\ Hand(p) = relay[p].rows /\ c \in Filed /\ c # Unlocked
  BY <1>2, RelayKnown DEF RelayKnows, Hand
<1>4. PICK b : b = [rows |-> relay[p].rows \ {c}, at |-> c, step |-> step]
  OBVIOUS
<1>5. b \in Batch /\ b.rows = relay[p].rows \ {c} /\ b.at = c /\ b.step = step
  BY <1>4, RelayKnown DEF Batch
<1>6. relay' = [relay EXCEPT ![p] = b] /\ relay'[p] = b /\ \A q \in Replicas \ {p} : relay'[q] = relay[q]
  BY <1>1, <1>4, RelayKnown
<1>7. /\ submitted \subseteq submitted' /\ submitted' \subseteq Filed
      /\ step = "sent" => c \in submitted'
  BY <1>1, <1>3, RelayKnown
<1>8. \A q \in Replicas : Hand(q)' = Hand(q)
  BY <1>2, <1>3, <1>5, <1>6 DEF Hand
<1>9. RelayKnows(p)'
  BY <1>2, <1>3, <1>5, <1>6, <1>7, <1>8, RelayKnown DEF RelayKnows
<1>10. StrandedByFaults'
  <2>1. Stranded' \subseteq Stranded
    BY <1>2, <1>8 DEF Stranded
  <2> QED BY <1>2, <2>1, RelayKnown, StrandedStays
<1>11. /\ b \in Batch /\ faults' \in 0..MaxFaults /\ faults <= faults'
       /\ outbox' \in [Reports -> {"none", "PENDING", "IN_FLIGHT", "FAILED", "SENT"}]
       /\ \A x \in Reports : /\ outbox'[x] = "none" <=> outbox[x] = "none"
                             /\ outbox'[x] = "SENT" => x \in submitted'
  BY <1>2, <1>5, <1>7, RelayKnown
<1> QED BY <1>2, <1>6, <1>7, <1>9, <1>10, <1>11, RelayStepHolds

\* The row at hand is marked, and the relay goes on with the batch or gives it up.
LEMMA MarkHolds ==
  ASSUME BackendInv, NEW p \in Replicas, relay[p].step # "none", UNCHANGED callVars, UNCHANGED submitted,
         NEW status \in {"SENT", "FAILED"}, status = "SENT" => relay[p].step = "sent",
         Set(p, status) \/ UNCHANGED outbox,
         NEW b \in Batch, relay' = [relay EXCEPT ![p] = b],
         \/ /\ b.rows = relay[p].rows /\ b.at = Unlocked /\ b.step = "none"
            /\ Set(p, status) /\ UNCHANGED faults
         \/ b.rows = relay[p].rows /\ b.at = relay[p].at /\ b.step = "failed" /\ Fault
         \/ b = NoBatch /\ Fault
  PROVE  BackendInv'
<1> DEFINE c == relay[p].at
<1>1. c \in Reports /\ c \in Hand(p) /\ outbox[c] # "none" /\ (status = "SENT" => c \in submitted)
  BY RelayKnown DEF RelayKnows, Hand, Batch
<1>2. /\ outbox' \in [Reports -> {"none", "PENDING", "IN_FLIGHT", "FAILED", "SENT"}]
      /\ \A x \in Reports : /\ outbox'[x] = "none" <=> outbox[x] = "none"
                            /\ outbox'[x] = "SENT" => x \in submitted'
      /\ \A x \in Reports : outbox'[x] = "IN_FLIGHT" => outbox[x] = "IN_FLIGHT"
  <2>1. CASE outbox' = [outbox EXCEPT ![c] = status]
    BY <1>1, <2>1, RelayKnown
  <2>2. CASE UNCHANGED outbox
    BY <2>2, RelayKnown
  <2> QED BY <2>1, <2>2 DEF Set
<1>3. relay'[p] = b /\ \A q \in Replicas \ {p} : relay'[q] = relay[q]
  BY RelayKnown
<1>4. \A q \in Replicas \ {p} : Hand(q)' = Hand(q)
  BY <1>3 DEF Hand
<1>5. Hand(p)' \subseteq Hand(p)
  BY <1>3 DEF Hand, NoBatch
<1>6. Cardinality(Hand(p)') <= BatchSize
  BY <1>5, RelayKnown, NoMore
<1>7. RelayKnows(p)'
  <2>1. b.step = "none" <=> b.at = Unlocked
    BY RelayKnown DEF NoBatch, RelayKnows
  <2>2. b.step # "sent"
    BY DEF NoBatch
  <2>3. Hand(p)' \subseteq {x \in Reports : outbox'[x] # "none"}
    BY <1>2, <1>5, RelayKnown DEF RelayKnows
  <2> QED BY <1>3, <1>6, <2>1, <2>2, <2>3 DEF RelayKnows
<1>8. StrandedByFaults' /\ faults' \in 0..MaxFaults /\ faults <= faults'
  <2>1. CASE b.rows = relay[p].rows /\ b.at = Unlocked /\ b.step = "none"
             /\ Set(p, status) /\ UNCHANGED faults
    <3>1. outbox' = [outbox EXCEPT ![c] = status] /\ outbox'[c] # "IN_FLIGHT"
      BY <1>1, <2>1, RelayKnown DEF Set
    <3>2. Hand(p) \subseteq Hand(p)' \cup {c}
      BY <1>3, <2>1 DEF Hand
    <3> HIDE DEF c
    <3>3. Stranded' \subseteq Stranded
      BY <1>2, <1>4, <3>1, <3>2 DEF Stranded
    <3> QED BY <2>1, <3>3, RelayKnown, StrandedStays
  <2>2. CASE b.rows = relay[p].rows /\ b.at = relay[p].at /\ b.step = "failed" /\ Fault
    <3>1. Hand(p)' = Hand(p)
      BY <1>3, <2>2 DEF Hand
    <3>2. Stranded' \subseteq Stranded
      BY <1>2, <1>4, <3>1 DEF Stranded
    <3> QED BY <2>2, <3>2, FaultCounts, StrandedStays
  <2>3. CASE b = NoBatch /\ Fault
    <3>1. Stranded' \subseteq Stranded \cup Hand(p)
      BY <1>2, <1>4 DEF Stranded
    <3> QED BY <2>3, <3>1, RelayKnown, FaultCounts, StrandedGrows
  <2> QED BY <2>1, <2>2, <2>3
<1> QED BY <1>2, <1>7, <1>8, RelayKnown, RelayStepHolds

\* A relay that goes on to the next row, at hand none.
LEMMA NextRowIs ==
  ASSUME BackendInv, NEW p \in Replicas, NextRow(p)
  PROVE  \E b \in Batch : /\ relay' = [relay EXCEPT ![p] = b]
                          /\ b.rows = relay[p].rows /\ b.at = Unlocked /\ b.step = "none"
<1>1. relay[p] \in Batch /\ relay \in [Replicas -> Batch]
  BY RelayKnown
<1>2. PICK mid : mid = [relay[p] EXCEPT !.at = Unlocked]
  OBVIOUS
<1>3. mid \in Batch /\ mid.rows = relay[p].rows /\ mid.at = Unlocked
  BY <1>1, <1>2 DEF Batch
<1>4. PICK b : b = [mid EXCEPT !.step = "none"]
  OBVIOUS
<1>5. b \in Batch /\ b.rows = relay[p].rows /\ b.at = Unlocked /\ b.step = "none"
  BY <1>3, <1>4 DEF Batch
<1>6. relay' = [relay EXCEPT ![p] = b]
  BY <1>1, <1>2, <1>4 DEF NextRow
<1> QED BY <1>5, <1>6

LEMMA NoBatchIs == NoBatch \in Batch
  BY DEF NoBatch, Batch

LEMMA MarkSentHolds == ASSUME BackendInv, NEW p \in Replicas, MarkSent(p) PROVE BackendInv'
<1>1. relay[p].step = "sent" /\ UNCHANGED callVars /\ UNCHANGED submitted
  BY DEF MarkSent
<1>2. CASE Set(p, "SENT") /\ NextRow(p) /\ UNCHANGED faults
  <2>1. PICK b \in Batch : /\ relay' = [relay EXCEPT ![p] = b]
                           /\ b.rows = relay[p].rows /\ b.at = Unlocked /\ b.step = "none"
    BY <1>2, NextRowIs
  <2> QED BY <1>1, <1>2, <2>1, MarkHolds
<1>3. CASE /\ Fault /\ relay' = [relay EXCEPT ![p].step = "failed"]
           /\ Set(p, "SENT") \/ UNCHANGED outbox
  <2>1. PICK b : b = [relay[p] EXCEPT !.step = "failed"]
    OBVIOUS
  <2>2. b \in Batch /\ b.rows = relay[p].rows /\ b.at = relay[p].at /\ b.step = "failed"
    BY <2>1, RelayKnown DEF Batch
  <2>3. relay' = [relay EXCEPT ![p] = b]
    BY <1>3, <2>1, RelayKnown
  <2> QED BY <1>1, <1>3, <2>2, <2>3, MarkHolds
<1> QED BY <1>2, <1>3 DEF MarkSent

LEMMA MarkFailedHolds == ASSUME BackendInv, NEW p \in Replicas, MarkFailed(p) PROVE BackendInv'
<1>1. relay[p].step = "failed" /\ UNCHANGED callVars /\ UNCHANGED submitted
  BY DEF MarkFailed
<1>2. CASE Set(p, "FAILED") /\ NextRow(p) /\ UNCHANGED faults
  <2>1. PICK b \in Batch : /\ relay' = [relay EXCEPT ![p] = b]
                           /\ b.rows = relay[p].rows /\ b.at = Unlocked /\ b.step = "none"
    BY <1>2, NextRowIs
  <2> QED BY <1>1, <1>2, <2>1, MarkHolds
<1>3. CASE /\ Fault /\ relay' = [relay EXCEPT ![p] = NoBatch]
           /\ Set(p, "FAILED") \/ UNCHANGED outbox
  BY <1>1, <1>3, NoBatchIs, MarkHolds
<1> QED BY <1>2, <1>3 DEF MarkFailed

LEMMA DiesHolds == ASSUME BackendInv, NEW p \in Replicas, Dies(p) PROVE BackendInv'
<1>1. /\ Fault /\ relay' = [relay EXCEPT ![p] = NoBatch] /\ UNCHANGED callVars
      /\ UNCHANGED <<outbox, submitted>>
  BY DEF Dies
<1>2. relay'[p] = NoBatch /\ \A q \in Replicas \ {p} : Hand(q)' = Hand(q)
  BY <1>1, RelayKnown DEF Hand
<1>3. Hand(p)' = {}
  BY <1>2 DEF Hand, NoBatch
<1>4. RelayKnows(p)'
  BY <1>2, <1>3, FS_EmptySet, RelayKnown DEF RelayKnows, NoBatch
<1>5. StrandedByFaults'
  <2>1. Stranded' \subseteq Stranded \cup Hand(p)
    BY <1>1, <1>2 DEF Stranded
  <2> QED BY <1>1, <2>1, RelayKnown, FaultCounts, StrandedGrows
<1> QED BY <1>1, <1>4, <1>5, NoBatchIs, RelayKnown, FaultCounts, RelayStepHolds

-----------------------------------------------------------------------------
LEMMA InitHolds == BackendInit => BackendInv
<1> SUFFICES ASSUME BackendInit PROVE BackendInv
  OBVIOUS
<1>1. BackendTypeOK
  BY BackendAssumption DEF BackendInit, BackendTypeOK, NoBatch
<1>2. EscalationsAreAnnounced
  <2>1. {r \in notified \ escalated : Is(r, "over")} = {}
    BY DEF BackendInit
  <2> QED BY <2>1, FS_EmptySet DEF BackendInit, EscalationsAreAnnounced
<1>3. StrandedByFaults
  <2>1. Stranded = {}
    BY DEF BackendInit, Stranded
  <2>2. BatchSize * 0 = 0
    BY BackendAssumption
  <2> QED BY <2>1, <2>2, FS_EmptySet DEF BackendInit, StrandedByFaults
<1>4. OutboxKnows
  BY DEF BackendInit, OutboxKnows
<1>5. ASSUME NEW r \in Reports PROVE CallKnows(r) /\ SearchKnows(r)
  BY DEF BackendInit, CallKnows, SearchKnows
<1>6. ASSUME NEW p \in Replicas PROVE RelayKnows(p)
  <2>1. relay[p] = NoBatch /\ Hand(p) = {}
    BY DEF BackendInit, Hand, NoBatch
  <2> QED BY <2>1, FS_EmptySet, BackendAssumption DEF RelayKnows, NoBatch
<1> QED BY <1>1, <1>2, <1>3, <1>4, <1>5, <1>6 DEF BackendInv

LEMMA NextHolds == BackendInv /\ [BackendNext]_backendVars => BackendInv'
<1> SUFFICES ASSUME BackendInv, [BackendNext]_backendVars PROVE BackendInv'
  OBVIOUS
<1>1. ASSUME NEW r \in Reports,
             \/ Search(r) \/ SearchResolved(r) \/ Merge(r) \/ Create(r) \/ Emit(r)
             \/ CommitReport(r) \/ Fails(r)
             \/ \E c \in Reports : LockRow(r, c)
      PROVE  BackendInv'
  BY <1>1, SearchHolds, SearchResolvedHolds, MergeHolds, CreateHolds, EmitHolds,
     CommitHolds, FailsHolds, LockRowHolds
<1>2. ASSUME NEW c \in Reports, NEW s \in Standings, Move(c, s) PROVE BackendInv'
  BY <1>2, MoveHolds
<1>3. ASSUME NEW p \in Replicas,
             \/ MarkSent(p) \/ MarkFailed(p) \/ Dies(p)
             \/ \E c \in Reports : Publish(p, c)
             \/ \E rows \in SUBSET Reports : ClaimPendingEvents(p, rows)
      PROVE  BackendInv'
  BY <1>3, MarkSentHolds, MarkFailedHolds, DiesHolds, PublishHolds, ClaimHolds
<1>4. CASE UNCHANGED backendVars
  <2>1. UNCHANGED <<standing, rowLock, call, notified, escalated, known, inactive, changes,
                    outbox, submitted, relay, faults>>
    BY <1>4 DEF backendVars, callVars, relayVars
  <2>2. BackendTypeOK'
    BY <2>1 DEF BackendInv, BackendTypeOK
  <2>3. EscalationsAreAnnounced' /\ StrandedByFaults' /\ OutboxKnows'
    BY <2>1 DEF BackendInv, EscalationsAreAnnounced, Is, StrandedByFaults, Stranded, Hand,
                OutboxKnows, Filed
  <2>4. \A r \in Reports : CallKnows(r)' /\ SearchKnows(r)'
    BY <2>1 DEF BackendInv, CallKnows, SearchKnows, Filed, Excused
  <2>5. \A p \in Replicas : RelayKnows(p)'
    BY <2>1 DEF BackendInv, RelayKnows, Hand
  <2> QED BY <2>2, <2>3, <2>4, <2>5 DEF BackendInv
<1> QED BY <1>1, <1>2, <1>3, <1>4 DEF BackendNext

\* A report filed has found no like it that was not settled in the meantime: two
\* of a kind are filed only past each other.
LEMMA Implies == BackendInv => BackendInvariant
<1> SUFFICES ASSUME BackendInv PROVE BackendInvariant
  OBVIOUS
<1>1. ASSUME NEW r \in Filed, NEW s \in Filed, r # s, TypeOf[r] = TypeOf[s], s \in known[r]
      PROVE  s \in inactive[r]
  <2>1. r \in Reports /\ standing[r] # "none"
    BY DEF Filed
  <2>2. s \in Excused(r)
    BY <1>1, <2>1, Known DEF SearchKnows
  <2> QED BY <1>1, <2>2 DEF Excused
<1>2. DuplicatesOverlap
  BY <1>1 DEF DuplicatesOverlap
<1>3. SubmittedIsFiled
  BY DEF BackendInv, OutboxKnows, SubmittedIsFiled
<1> QED BY <1>2, <1>3 DEF BackendInv, BackendInvariant

(***************************************************************************)
(* backend-api never files a report beside another of the same damage that *)
(* it had seen active all the while; no escalation is committed unheard,   *)
(* and one heard of that did not come about was a fault's; its outbox      *)
(* publishes only what was filed, marks SENT only what was published, and  *)
(* loses a batch at most to each fault.  POST /complaints of               *)
(* routes/complaints.ts and the relay of services/complaintOutbox.ts.      *)
(***************************************************************************)
THEOREM IntakeOfBackendIsSafe == BackendSpec => []BackendInvariant
<1>1. BackendInit => BackendInv
  BY InitHolds
<1>2. BackendInv /\ [BackendNext]_backendVars => BackendInv'
  BY NextHolds
<1>3. BackendInv => BackendInvariant
  BY Implies
<1> QED BY <1>1, <1>2, <1>3, PTL DEF BackendSpec
=============================================================================
