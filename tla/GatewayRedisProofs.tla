------------------------- MODULE GatewayRedisProofs -------------------------
(***************************************************************************)
(* Proofs about what the gateway keeps in Redis: the permits of its write  *)
(* routes (Admission), for any requests, permits, limits, hung-up clients  *)
(* and faults; and the read cache (ReadCache), for any readers, processes, *)
(* writes and failures.                                                    *)
(***************************************************************************)
EXTENDS Admission, ReadCache, FiniteSetTheorems, WellFoundedInduction, TLAPS

-----------------------------------------------------------------------------
(***************************************************************************)
(* Admission of writes.                                                    *)
(***************************************************************************)

-----------------------------------------------------------------------------
(* What ACQUIRE_SCRIPT decides.                                            *)

\* A set of natural numbers that is not empty has a minimum, and Min is it.
LEMMA MinIsMember ==
  ASSUME NEW S \in SUBSET Nat, S # {} PROVE Min(S) \in S
<1>1. \E x \in S : \A y \in S : ~ (<<y, x>> \in OpToRel(<, Nat))
  BY NatLessThanWellFounded, WFMin
<1>2. PICK m \in S : \A y \in S : ~ (<<y, m>> \in OpToRel(<, Nat))
  BY <1>1
<1>3. ASSUME NEW y \in S PROVE m =< y
  <2>1. y < m <=> <<y, m>> \in OpToRel(<, Nat)
    <3>1. <<y, m>> \in Nat \X Nat /\ <<y, m>>[1] = y /\ <<y, m>>[2] = m
      OBVIOUS
    <3> QED BY <3>1, Zenon DEF OpToRel
  <2>2. ~ (y < m)
    BY <1>2, <2>1, Zenon
  <2> QED BY <2>2
<1> QED BY <1>3 DEF Min

\* A request that no permit refuses finds every counter below its limits.
LEMMA NoRefuser ==
  ASSUME NEW r \in Requests, Refuser(r) = 0 PROVE \A x \in Of(r) : ~Full(x)
<1> DEFINE full == {i \in DOMAIN Permits[r] : Full(Permits[r][i])}
<1>1. DOMAIN Permits[r] = 1..Len(Permits[r]) /\ Len(Permits[r]) \in Nat
  BY AdmissionAssumption
<1>2. full # {} => Min(full) \in full /\ Min(full) # 0
  <2>1. full \in SUBSET Nat /\ \A i \in full : i # 0
    BY <1>1
  <2> HIDE DEF full
  <2> QED BY <2>1, MinIsMember
<1>3. full = {}
  BY <1>2 DEF Refuser
<1> QED BY <1>3 DEF Of

\* The script counts all the permits of a request, or none.
LEMMA AllOrNone ==
  ASSUME NEW r \in Requests
  PROVE  /\ KeptInflight(r) = (IF Refuser(r) = 0 THEN Of(r) ELSE {})
         /\ KeptRate(r) = (IF Refuser(r) = 0 THEN Of(r) ELSE {})
         /\ Refuser(r) = 0 => Touched(r) = Of(r)
BY DEF KeptInflight, KeptRate, GiveBack, GiveBackRate, Touched

-----------------------------------------------------------------------------
(* What a step must know for the properties to be inductive.               *)

CounterTypes ==
  /\ rate \in [Counters -> Nat] /\ armed \in [Counters -> BOOLEAN]
  /\ inflight \in [Counters -> Int]
  /\ charged \in [Counters -> Nat] /\ orphans \in [Counters -> Nat]

RequestTypes ==
  /\ permit \in [Requests -> {"none", "granted", "held", "releasing", "given"}]
  /\ handler \in [Requests -> {"idle", "running", "done"}]
  /\ gone \subseteq Requests /\ aborts \in Nat

\* The limit is checked against the counter, whatever that has become.
WithinMax == \A x \in Counters : inflight[x] <= MaxInflight[x]

\* A handler at work holds its permits unless its client has hung up.
RunningHold ==
  \A r \in Requests : handler[r] = "running" =>
    /\ permit[r] \in {"held", "releasing", "given"}
    /\ permit[r] # "held" => r \in gone

\* A client hangs up once, and Abort counts it.
GoneCounted == Cardinality(gone) <= aborts

AInv ==
  /\ CounterTypes /\ RequestTypes
  /\ CounterIsTrue /\ RateIsTrue /\ BackstopArmed
  /\ WithinMax /\ RunningHold /\ GoneCounted

\* Sets of requests are finite.
LEMMA RequestSets ==
  ASSUME NEW S \in SUBSET Requests PROVE IsFiniteSet(S) /\ Cardinality(S) \in Nat
BY FS_Subset, FS_CardinalityType, AdmissionAssumption

LEMMA InitAInv == Init => AInv
<1> SUFFICES ASSUME Init PROVE AInv
  OBVIOUS
<1> USE AdmissionAssumption DEF Init
<1>1. CounterTypes /\ RequestTypes
  BY DEF CounterTypes, RequestTypes
<1>2. \A x : Holders(x) = {}
  BY DEF Holders, Holding
<1>3. CounterIsTrue /\ GoneCounted
  <2>1. \A x \in Counters : inflight[x] = 0 /\ orphans[x] = 0
    OBVIOUS
  <2>2. CounterIsTrue
    <3>1. \A x \in Counters : Cardinality(Holders(x)) = 0
      BY <1>2, FS_EmptySet, Zenon
    <3> QED BY <2>1, <3>1 DEF CounterIsTrue
  <2>3. GoneCounted
    BY FS_EmptySet DEF GoneCounted
  <2> QED BY <2>2, <2>3
<1>4. RateIsTrue /\ BackstopArmed /\ WithinMax /\ RunningHold
  BY DEF RateIsTrue, BackstopArmed, WithinMax, RunningHold
<1> QED BY <1>1, <1>3, <1>4 DEF AInv

\* The handlers at work that hold no permit belong to clients that hung up.
LEMMA WorkIsBounded == AInv => WorkWithinInflight
<1> SUFFICES ASSUME AInv, NEW x \in Counters \ cut
             PROVE  Cardinality({r \in Requests : handler[r] = "running" /\ x \in Of(r)})
                      <= MaxInflight[x] + aborts
  BY DEF WorkWithinInflight
<1> USE DEF AInv
<1> DEFINE working == {r \in Requests : handler[r] = "running" /\ x \in Of(r)}
<1>1. working \subseteq Holders(x) \cup gone
  BY DEF RunningHold, Holders, Holding
<1>2. /\ IsFiniteSet(Holders(x)) /\ Cardinality(Holders(x)) \in Nat
      /\ IsFiniteSet(gone) /\ Cardinality(gone) \in Nat
      /\ Cardinality(Holders(x) \cap gone) \in Nat /\ Cardinality(working) \in Nat
  BY RequestSets DEF RequestTypes, Holders
<1>3. /\ IsFiniteSet(Holders(x) \cup gone)
      /\ Cardinality(Holders(x) \cup gone) <= Cardinality(Holders(x)) + Cardinality(gone)
      /\ Cardinality(Holders(x) \cup gone) \in Nat
  <2>1. /\ IsFiniteSet(Holders(x) \cup gone)
        /\ Cardinality(Holders(x) \cup gone) =
             Cardinality(Holders(x)) + Cardinality(gone) - Cardinality(Holders(x) \cap gone)
    BY <1>2, FS_Union
  <2>2. Cardinality(Holders(x) \cup gone) \in Nat
    BY <2>1, FS_CardinalityType
  <2> QED BY <1>2, <2>1, <2>2
<1>4. Cardinality(working) <= Cardinality(Holders(x) \cup gone)
  BY <1>1, <1>3, FS_Subset
<1>5. Cardinality(Holders(x)) + orphans[x] <= MaxInflight[x] /\ orphans[x] \in Nat
  BY DEF CounterIsTrue, WithinMax, CounterTypes
<1>6. MaxInflight[x] \in Nat /\ aborts \in Nat /\ Cardinality(gone) <= aborts
  BY AdmissionAssumption DEF GoneCounted, RequestTypes
<1> HIDE DEF working
<1>7. Cardinality(working) <= MaxInflight[x] + aborts
  BY <1>2, <1>3, <1>4, <1>5, <1>6
<1> QED BY <1>7 DEF working

-----------------------------------------------------------------------------
(* What the steps share: the script, and what a permit's fate does to the  *)
(* number of holders.                                                      *)

\* The script moves every counter to a value of its type.
LEMMA ScriptTypes ==
  ASSUME CounterTypes, NEW r \in Requests, Script(r)
  PROVE  /\ rate' \in [Counters -> Nat] /\ armed' \in [Counters -> BOOLEAN]
         /\ inflight' \in [Counters -> Int] /\ charged' \in [Counters -> Nat]
BY DEF Script, Plus, CounterTypes

\* The script moves no counter past its limit, and arms what it makes positive.
LEMMA ScriptLimits ==
  ASSUME CounterTypes, RateIsTrue, BackstopArmed, WithinMax, NEW r \in Requests, Script(r)
  PROVE  RateIsTrue' /\ BackstopArmed' /\ WithinMax'
<1> USE AdmissionAssumption, AllOrNone
<1>1. CASE Refuser(r) = 0
  <2>1. \A x \in Of(r) : rate[x] + 1 <= MaxRate[x] /\ inflight[x] + 1 <= MaxInflight[x]
    <3> SUFFICES ASSUME NEW x \in Of(r)
                 PROVE  rate[x] + 1 <= MaxRate[x] /\ inflight[x] + 1 <= MaxInflight[x]
      OBVIOUS
    <3>1. ~Full(x)
      BY <1>1, NoRefuser
    <3>2. x \in Counters
      BY DEF Of
    <3> QED BY <3>1, <3>2 DEF Full, RateFull, CounterTypes
  <2>2. \A x \in Counters :
          /\ rate'[x] = IF x \in Of(r) THEN rate[x] + 1 ELSE rate[x]
          /\ charged'[x] = IF x \in Of(r) THEN charged[x] + 1 ELSE charged[x]
          /\ inflight'[x] = IF x \in Of(r) THEN inflight[x] + 1 ELSE inflight[x]
          /\ armed'[x] <=> (armed[x] \/ (x \in Of(r) /\ inflight[x] = 0))
    BY <1>1 DEF Script, Plus, Arms
  <2>3. RateIsTrue'
    BY <2>1, <2>2 DEF RateIsTrue, CounterTypes
  <2>4. BackstopArmed'
    <3> SUFFICES ASSUME NEW x \in Counters, inflight'[x] > 0 PROVE armed'[x]
      BY DEF BackstopArmed
    <3>1. inflight[x] > 0 \/ (x \in Of(r) /\ inflight[x] = 0)
      BY <2>2 DEF CounterTypes
    <3>2. inflight[x] > 0 => armed[x]
      BY DEF BackstopArmed
    <3> QED BY <2>2, <3>1, <3>2, Zenon
  <2>5. WithinMax'
    BY <2>1, <2>2 DEF WithinMax, CounterTypes
  <2> QED BY <2>3, <2>4, <2>5
<1>2. CASE Refuser(r) # 0
  <2>1. \A x \in Counters :
          /\ rate'[x] = rate[x] /\ charged'[x] = charged[x] /\ inflight'[x] = inflight[x]
          /\ armed[x] => armed'[x]
    BY <1>2 DEF Script, Plus, Arms
  <2>2. RateIsTrue' /\ WithinMax'
    BY <2>1 DEF RateIsTrue, WithinMax
  <2>3. BackstopArmed'
    BY <2>1 DEF BackstopArmed
  <2> QED BY <2>2, <2>3
<1> QED BY <1>1, <1>2

\* A step that takes back permits at most.
LEMMA QuietLimits ==
  ASSUME RateIsTrue, BackstopArmed, WithinMax, CounterTypes, CounterTypes',
         UNCHANGED <<rate, charged, armed>>,
         \A x \in Counters : inflight'[x] <= inflight[x]
  PROVE  RateIsTrue' /\ BackstopArmed' /\ WithinMax'
<1>1. RateIsTrue'
  BY DEF RateIsTrue
<1>2. WithinMax'
  BY AdmissionAssumption DEF WithinMax, CounterTypes
<1>3. BackstopArmed'
  <2> SUFFICES ASSUME NEW x \in Counters, inflight'[x] > 0 PROVE armed'[x]
    BY DEF BackstopArmed
  <2>1. inflight[x] > 0
    BY DEF CounterTypes
  <2> QED BY <2>1 DEF BackstopArmed
<1> QED BY <1>1, <1>2, <1>3

\* What Orphan adds to a counter.
Lost(rs, x) == Cardinality({r \in rs : r \in Holders(x)})

LEMMA HoldersFinite ==
  ASSUME NEW x PROVE IsFiniteSet(Holders(x)) /\ Cardinality(Holders(x)) \in Nat
BY RequestSets DEF Holders

LEMMA LostOne ==
  ASSUME NEW r, NEW x PROVE Lost({r}, x) = IF r \in Holders(x) THEN 1 ELSE 0
<1>1. CASE r \in Holders(x)
  <2>1. {q \in {r} : q \in Holders(x)} = {r}
    BY <1>1
  <2> QED BY <1>1, <2>1, FS_Singleton DEF Lost
<1>2. CASE r \notin Holders(x)
  <2>1. {q \in {r} : q \in Holders(x)} = {}
    BY <1>2
  <2> QED BY <1>2, <2>1, FS_EmptySet DEF Lost
<1> QED BY <1>1, <1>2

LEMMA LostMany ==
  ASSUME NEW rs \in SUBSET Requests, NEW x
  PROVE  Lost(rs, x) \in Nat /\ Cardinality(Holders(x) \ rs) = Cardinality(Holders(x)) - Lost(rs, x)
<1>1. {q \in rs : q \in Holders(x)} = Holders(x) \cap rs
  OBVIOUS
<1> QED BY <1>1, HoldersFinite, FS_Difference, RequestSets, FS_CardinalityType DEF Lost

\* A step that changes the permit of one request.
LEMMA OnePermit ==
  ASSUME RequestTypes, NEW r \in Requests,
         NEW p \in {"none", "granted", "held", "releasing", "given"},
         permit' = [permit EXCEPT ![r] = p], NEW x
  PROVE  Cardinality(Holders(x)') =
           Cardinality(Holders(x))
             + (IF x \in Of(r) /\ p \in {"granted", "held", "releasing"} THEN 1 ELSE 0)
             - (IF r \in Holders(x) THEN 1 ELSE 0)
<1> DEFINE holds == p \in {"granted", "held", "releasing"}
<1>1. Holders(x)' = IF x \in Of(r) /\ holds THEN Holders(x) \cup {r} ELSE Holders(x) \ {r}
  BY DEF Holders, Holding, RequestTypes, Of
<1>2. r \in Holders(x) => x \in Of(r)
  BY DEF Holders
<1> HIDE DEF holds
<1>3. CASE x \in Of(r) /\ holds
  BY <1>1, <1>3, HoldersFinite, FS_AddElement DEF holds
<1>4. CASE ~ (x \in Of(r) /\ holds)
  BY <1>1, <1>4, HoldersFinite, FS_RemoveElement DEF holds
<1> QED BY <1>3, <1>4

-----------------------------------------------------------------------------
(* The steps.                                                              *)

LEMMA AcquireStep ==
  ASSUME AInv, NEW r \in Requests, Acquire(r) \/ AcquireFails(r) PROVE AInv'
<1> USE DEF AInv
<1> DEFINE n == Refuser(r)
           taken == IF Refuser(r) = 0 THEN Of(r) ELSE {}
<1>1. /\ Script(r) /\ permit[r] = "none" /\ handler[r] = "idle"
      /\ UNCHANGED <<handler, gone, cut, aborts>>
  BY DEF Acquire, AcquireFails, Fault
<1>2. Of(r) \subseteq Counters
  BY AdmissionAssumption DEF Of
<1>3. orphans' \in [Counters -> Nat]
  <2>1. CASE Acquire(r)
    BY <2>1 DEF Acquire, CounterTypes
  <2>2. CASE AcquireFails(r)
    BY <2>2 DEF AcquireFails, Plus, CounterTypes
  <2> QED BY <2>1, <2>2
<1>4. CounterTypes'
  BY <1>1, <1>3, ScriptTypes DEF CounterTypes
<1>5. RateIsTrue' /\ BackstopArmed' /\ WithinMax'
  BY <1>1, ScriptLimits
<1>6. RequestTypes' /\ RunningHold'
  BY <1>1 DEF Acquire, AcquireFails, RequestTypes, RunningHold
<1>7. GoneCounted'
  BY <1>1 DEF GoneCounted
<1>8. CounterIsTrue'
  <2> SUFFICES ASSUME NEW x \in Counters \ cut
               PROVE  inflight'[x] = Cardinality(Holders(x)') + orphans'[x]
    BY <1>1 DEF CounterIsTrue
  <2>1. /\ inflight[x] = Cardinality(Holders(x)) + orphans[x]
        /\ inflight[x] \in Int /\ orphans[x] \in Nat /\ Cardinality(Holders(x)) \in Nat
    BY HoldersFinite DEF CounterIsTrue, CounterTypes
  <2>2. inflight'[x] = IF n = 0 /\ x \in Of(r) THEN inflight[x] + 1 ELSE inflight[x]
    BY <1>1, AllOrNone DEF Script, Plus
  <2>3. r \notin Holders(x)
    BY <1>1 DEF Holders, Holding
  <2>4. CASE Acquire(r)
    <3>1. orphans' = orphans
      BY <2>4 DEF Acquire
    <3>2. CASE n = 0
      <4>1. permit' = [permit EXCEPT ![r] = "granted"]
        BY <2>4, <3>2 DEF Acquire
      <4>2. Cardinality(Holders(x)')
              = Cardinality(Holders(x)) + (IF x \in Of(r) THEN 1 ELSE 0) - 0
        BY <2>3, <4>1, OnePermit
      <4> QED BY <2>1, <2>2, <3>1, <3>2, <4>2
    <3>3. CASE n # 0
      <4>1. Holders(x)' = Holders(x)
        BY <2>4, <3>3 DEF Acquire, Holders, Holding, Of
      <4> QED BY <2>1, <2>2, <3>1, <3>3, <4>1
    <3> QED BY <3>2, <3>3
  <2>5. CASE AcquireFails(r)
    <3>1. Holders(x)' = Holders(x)
      BY <2>5 DEF AcquireFails, Holders, Holding, Of
    <3>2. orphans'[x] = IF n = 0 /\ x \in Of(r) THEN orphans[x] + 1 ELSE orphans[x]
      BY <2>5 DEF AcquireFails, Plus
    <3> QED BY <2>1, <2>2, <3>1, <3>2
  <2> QED BY <2>4, <2>5
<1> QED BY <1>4, <1>5, <1>6, <1>7, <1>8

\* The counters when the permits of r change hands without a call to Redis.
LEMMA QuietStep ==
  ASSUME AInv, NEW r \in Requests, UNCHANGED <<counterVars, charged, cut>>,
         NEW p \in {"granted", "held", "releasing", "given"},
         permit' = [permit EXCEPT ![r] = p],
         permit[r] \in {"granted", "held", "releasing", "given"},
         \/ UNCHANGED orphans /\ (Holding(r) <=> p # "given")
         \/ Orphan({r}) /\ Holding(r) /\ p = "given"
  PROVE  CounterTypes' /\ CounterIsTrue' /\ RateIsTrue' /\ BackstopArmed' /\ WithinMax'
<1> USE DEF AInv, counterVars
<1>1. \A x \in Counters : Lost({r}, x) = IF r \in Holders(x) THEN 1 ELSE 0
  BY LostOne
<1>2. \A x \in Counters :
        orphans'[x] = IF UNCHANGED orphans THEN orphans[x] ELSE orphans[x] + Lost({r}, x)
  BY DEF Orphan, Lost
<1>3. CounterTypes'
  <2>1. CASE UNCHANGED orphans
    BY <2>1 DEF CounterTypes
  <2>2. CASE Orphan({r})
    <3>1. orphans' = [x \in Counters |-> orphans[x] + Lost({r}, x)]
      BY <2>2 DEF Orphan, Lost
    <3>2. \A x \in Counters : orphans[x] + Lost({r}, x) \in Nat
      <4> SUFFICES ASSUME NEW x \in Counters PROVE orphans[x] + Lost({r}, x) \in Nat
        OBVIOUS
      <4>1. orphans[x] \in Nat
        BY DEF CounterTypes
      <4>2. Lost({r}, x) \in Nat
        BY <1>1
      <4> QED BY <4>1, <4>2
    <3> QED BY <3>1, <3>2 DEF CounterTypes
  <2> QED BY <2>1, <2>2
<1>4. RateIsTrue' /\ BackstopArmed' /\ WithinMax'
  BY <1>3, QuietLimits DEF CounterTypes
<1>5. CounterIsTrue'
  <2> SUFFICES ASSUME NEW x \in Counters \ cut
               PROVE  inflight'[x] = Cardinality(Holders(x)') + orphans'[x]
    BY DEF CounterIsTrue
  <2>1. /\ inflight[x] = Cardinality(Holders(x)) + orphans[x]
        /\ inflight[x] \in Int /\ orphans[x] \in Nat /\ Cardinality(Holders(x)) \in Nat
    BY HoldersFinite DEF CounterIsTrue, CounterTypes
  <2>2. r \in Holders(x) <=> x \in Of(r) /\ Holding(r)
    BY DEF Holders
  <2>3. Cardinality(Holders(x)') = Cardinality(Holders(x))
             + (IF x \in Of(r) /\ p \in {"granted", "held", "releasing"} THEN 1 ELSE 0)
             - (IF r \in Holders(x) THEN 1 ELSE 0)
    BY OnePermit
  <2>4. CASE UNCHANGED orphans /\ (Holding(r) <=> p # "given")
    BY <2>1, <2>2, <2>3, <2>4
  <2>5. CASE Orphan({r}) /\ Holding(r) /\ p = "given"
    <3>1. orphans'[x] = orphans[x] + Lost({r}, x)
      BY <2>5 DEF Orphan, Lost
    <3> QED BY <1>1, <2>1, <2>2, <2>3, <2>5, <3>1
  <2> QED BY <2>4, <2>5
<1> QED BY <1>3, <1>4, <1>5

LEMMA AdmitStep ==
  ASSUME AInv, NEW r \in Requests, Admit(r) PROVE AInv'
<1> USE DEF AInv
<1>1. RequestTypes' /\ RunningHold'
  BY DEF Admit, RequestTypes, RunningHold
<1>2. GoneCounted'
  BY DEF Admit, GoneCounted
<1>3. CASE r \in gone
  BY <1>1, <1>2, <1>3, QuietStep DEF Admit, Holding
<1>4. CASE r \notin gone
  BY <1>1, <1>2, <1>4, QuietStep DEF Admit, Holding
<1> QED BY <1>3, <1>4

LEMMA EndStep ==
  ASSUME AInv, NEW r \in Requests, Abort(r) \/ Finish(r) PROVE AInv'
<1> USE DEF AInv
<1>1. UNCHANGED <<counterVars, ghostVars>>
  BY DEF Abort, Finish
<1>2. GoneCounted'
  <2>1. CASE Abort(r)
    <3>1. Cardinality(gone \cup {r}) = Cardinality(gone) + 1
      BY <2>1, FS_AddElement, RequestSets DEF Abort, RequestTypes
    <3> QED BY <2>1, <3>1, RequestSets DEF Abort, GoneCounted, RequestTypes
  <2>2. CASE Finish(r)
    BY <2>2 DEF Finish, GoneCounted
  <2> QED BY <2>1, <2>2
<1>3. RequestTypes' /\ RunningHold'
  <2>1. CASE Abort(r)
    BY <2>1 DEF Abort, RequestTypes, RunningHold
  <2>2. CASE Finish(r)
    BY <2>2 DEF Finish, RequestTypes, RunningHold
  <2> QED BY <2>1, <2>2
<1>4. CASE permit[r] = "held"
  <2>1. permit' = [permit EXCEPT ![r] = "releasing"]
    BY <1>4 DEF Abort, Finish
  <2> QED BY <1>1, <1>2, <1>3, <1>4, <2>1, QuietStep DEF Holding, ghostVars
<1>5. CASE permit[r] # "held"
  <2>1. permit' = permit
    BY <1>5 DEF Abort, Finish
  <2>2. \A x : Holders(x)' = Holders(x)
    BY <2>1 DEF Holders, Holding, Of
  <2>3. CounterIsTrue'
    BY <1>1, <2>2 DEF CounterIsTrue, counterVars, ghostVars
  <2>4. CounterTypes' /\ RateIsTrue' /\ BackstopArmed' /\ WithinMax'
    BY <1>1 DEF CounterTypes, RateIsTrue, BackstopArmed, WithinMax, counterVars, ghostVars
  <2> QED BY <1>2, <1>3, <2>3, <2>4
<1> QED BY <1>4, <1>5

\* RELEASE_SCRIPT, run.
LEMMA ReleaseRuns ==
  ASSUME AInv, NEW r \in Requests, permit[r] = "releasing",
         permit' = [permit EXCEPT ![r] = "given"], inflight' = Plus(inflight, Of(r), -1),
         UNCHANGED <<rate, armed, handler, gone, ghostVars, aborts>>
  PROVE  AInv'
<1> USE DEF AInv, ghostVars
<1>1. \A x \in Counters : inflight'[x] = IF x \in Of(r) THEN inflight[x] - 1 ELSE inflight[x]
  BY DEF Plus, CounterTypes
<1>2. CounterTypes'
  <2>1. inflight' \in [Counters -> Int]
    BY DEF Plus, CounterTypes
  <2> QED BY <2>1 DEF CounterTypes
<1>3. RequestTypes' /\ RunningHold' /\ GoneCounted'
  BY DEF RequestTypes, RunningHold, GoneCounted
<1>4. RateIsTrue' /\ BackstopArmed' /\ WithinMax'
  <2>1. \A x \in Counters : inflight'[x] <= inflight[x]
    BY <1>1 DEF CounterTypes
  <2> QED BY <1>2, <2>1, QuietLimits
<1>5. CounterIsTrue'
  <2> SUFFICES ASSUME NEW x \in Counters \ cut
               PROVE  inflight'[x] = Cardinality(Holders(x)') + orphans'[x]
    BY DEF CounterIsTrue
  <2>1. /\ inflight[x] = Cardinality(Holders(x)) + orphans[x]
        /\ inflight[x] \in Int /\ orphans[x] \in Nat /\ Cardinality(Holders(x)) \in Nat
    BY HoldersFinite DEF CounterIsTrue, CounterTypes
  <2>2. r \in Holders(x) <=> x \in Of(r)
    BY DEF Holders, Holding
  <2>3. Cardinality(Holders(x)') = Cardinality(Holders(x)) + 0 - (IF r \in Holders(x) THEN 1 ELSE 0)
    BY OnePermit
  <2> QED BY <1>1, <2>1, <2>2, <2>3
<1> QED BY <1>2, <1>3, <1>4, <1>5

LEMMA ReleaseStep ==
  ASSUME AInv, NEW r \in Requests, Release(r) \/ ReleaseFails(r) PROVE AInv'
<1> USE DEF AInv
<1>1. CASE inflight' = Plus(inflight, Of(r), -1) /\ UNCHANGED orphans
  BY <1>1, ReleaseRuns DEF Release, ReleaseFails, ghostVars, Fault
<1>2. CASE UNCHANGED inflight /\ Orphan({r}) /\ ReleaseFails(r)
  <2>1. RequestTypes' /\ RunningHold' /\ GoneCounted'
    BY <1>2 DEF ReleaseFails, Fault, RequestTypes, RunningHold, GoneCounted
  <2> QED BY <1>2, <2>1, QuietStep DEF ReleaseFails, Holding, counterVars
<1> QED BY <1>1, <1>2 DEF Release, ReleaseFails, ghostVars

LEMMA CrashStep ==
  ASSUME AInv, Crash PROVE AInv'
<1> USE DEF AInv
<1>1. PICK rs \in SUBSET Requests :
        /\ Orphan(rs)
        /\ permit' = [r \in Requests |-> IF r \in rs THEN "none" ELSE permit[r]]
        /\ handler' = [r \in Requests |->
             IF r \notin rs \/ handler[r] = "done" THEN handler[r] ELSE "idle"]
        /\ gone' = gone \ rs
  BY DEF Crash
<1>2. UNCHANGED <<counterVars, charged, cut, aborts>>
  BY DEF Crash, Fault
<1>3. \A x : Lost(rs, x) \in Nat
  BY LostMany
<1>4. orphans' = [x \in Counters |-> orphans[x] + Lost(rs, x)]
  BY <1>1 DEF Orphan, Lost
<1>5. CounterTypes'
  BY <1>2, <1>3, <1>4 DEF CounterTypes, counterVars
<1>6. RateIsTrue' /\ BackstopArmed' /\ WithinMax'
  BY <1>2, <1>5, QuietLimits DEF counterVars, CounterTypes
<1>7. RequestTypes'
  BY <1>1, <1>2 DEF RequestTypes
<1>8. RunningHold'
  BY <1>1 DEF RunningHold, RequestTypes
<1>9. GoneCounted'
  <2>1. gone \ rs \subseteq gone /\ gone \subseteq Requests
    BY DEF RequestTypes
  <2>2. Cardinality(gone \ rs) <= Cardinality(gone) /\ Cardinality(gone) \in Nat
        /\ Cardinality(gone \ rs) \in Nat
    BY <2>1, FS_Subset, RequestSets
  <2> QED BY <1>1, <1>2, <2>2 DEF GoneCounted, RequestTypes
<1>10. CounterIsTrue'
  <2> SUFFICES ASSUME NEW x \in Counters \ cut
               PROVE  inflight'[x] = Cardinality(Holders(x)') + orphans'[x]
    BY <1>2 DEF CounterIsTrue
  <2>1. /\ inflight[x] = Cardinality(Holders(x)) + orphans[x]
        /\ inflight[x] \in Int /\ orphans[x] \in Nat /\ Cardinality(Holders(x)) \in Nat
    BY HoldersFinite DEF CounterIsTrue, CounterTypes
  <2>2. Holders(x)' = Holders(x) \ rs
    BY <1>1 DEF Holders, Holding, Of, RequestTypes
  <2>3. Cardinality(Holders(x)') = Cardinality(Holders(x)) - Lost(rs, x)
    BY <2>2, LostMany
  <2> QED BY <1>2, <1>3, <1>4, <2>1, <2>3 DEF counterVars
<1> QED BY <1>5, <1>6, <1>7, <1>8, <1>9, <1>10

LEMMA ExpireStep ==
  ASSUME AInv, NEW y \in Counters, Expire(y) PROVE AInv'
<1> USE DEF AInv, Expire
<1>1. CounterTypes' /\ RequestTypes'
  BY DEF CounterTypes, RequestTypes
<1>2. RateIsTrue' /\ RunningHold' /\ GoneCounted'
  BY DEF RateIsTrue, RunningHold, GoneCounted
<1>3. WithinMax'
  BY AdmissionAssumption DEF WithinMax, CounterTypes
<1>4. BackstopArmed'
  <2> SUFFICES ASSUME NEW x \in Counters, inflight'[x] > 0 PROVE armed'[x]
    BY DEF BackstopArmed
  <2>1. x # y
    BY DEF CounterTypes
  <2>2. armed'[x] = armed[x] /\ inflight'[x] = inflight[x]
    BY <2>1 DEF CounterTypes
  <2> QED BY <2>2 DEF BackstopArmed
<1>5. CounterIsTrue'
  <2> SUFFICES ASSUME NEW x \in Counters \ cut'
               PROVE  inflight'[x] = Cardinality(Holders(x)') + orphans'[x]
    BY DEF CounterIsTrue
  <2>1. Holders(x)' = Holders(x) /\ x \notin cut
    BY DEF Holders, Holding, Of
  <2>2. CASE x = y
    <3>1. Holders(x) = {}
      BY <2>2
    <3>2. Cardinality(Holders(x)') = 0
      BY <2>1, <3>1, FS_EmptySet
    <3> QED BY <2>2, <3>2 DEF CounterTypes
  <2>3. CASE x # y
    BY <2>1, <2>3 DEF CounterIsTrue, CounterTypes
  <2> QED BY <2>2, <2>3
<1> QED BY <1>1, <1>2, <1>3, <1>4, <1>5

LEMMA RestStep ==
  ASSUME AInv, NextWindow \/ UNCHANGED vars PROVE AInv'
<1> USE DEF AInv
<1>1. UNCHANGED <<inflight, armed, permit, handler, gone, orphans, cut, aborts>>
  BY DEF NextWindow, vars, counterVars, ghostVars
<1>2. \/ UNCHANGED <<rate, charged>>
      \/ rate' = [x \in Counters |-> 0] /\ charged' = [x \in Counters |-> 0]
  BY DEF NextWindow, vars, counterVars, ghostVars
<1>3. CounterTypes' /\ RateIsTrue'
  BY <1>1, <1>2, AdmissionAssumption DEF CounterTypes, RateIsTrue
<1>4. RequestTypes' /\ RunningHold' /\ GoneCounted' /\ WithinMax' /\ BackstopArmed'
  BY <1>1 DEF RequestTypes, RunningHold, GoneCounted, WithinMax, BackstopArmed
<1>5. CounterIsTrue'
  BY <1>1 DEF CounterIsTrue, Holders, Holding, Of
<1> QED BY <1>3, <1>4, <1>5

-----------------------------------------------------------------------------
LEMMA AInvHolds == Spec => []AInv
<1>1. AInv /\ [Next]_vars => AInv'
  BY AcquireStep, AdmitStep, EndStep, ReleaseStep, CrashStep, ExpireStep, RestStep
     DEF Next, Step
<1> QED BY <1>1, InitAInv, PTL DEF Spec

\* acquireAdmission and its release leave the inflight counter at the number of
\* permits that are held or orphaned, whatever hangs up, fails or dies, until a
\* TTL ends under a permit.
THEOREM CountersAreTrue == Spec => []CounterIsTrue
<1>1. AInv => CounterIsTrue
  BY DEF AInv
<1> QED BY <1>1, AInvHolds, PTL

\* A window of ACQUIRE_SCRIPT is charged for the requests it admitted, never
\* for one that a later permit refused, and admits no more than the limit.
THEOREM RatesAreTrue == Spec => []RateIsTrue
<1>1. AInv => RateIsTrue
  BY DEF AInv
<1> QED BY <1>1, AInvHolds, PTL

\* Every inflight key that holds requests back has a time to live: the request
\* whose INCR returns 1 sets it, also on a key that a release has recreated.
THEOREM BackstopIsArmed == Spec => []BackstopArmed
<1>1. AInv => BackstopArmed
  BY DEF AInv
<1> QED BY <1>1, AInvHolds, PTL

\* The handlers behind the middleware's permits exceed maxInflight by no more
\* than the clients that hung up, until a TTL ends under a permit.
THEOREM WorkIsWithinInflight == Spec => []WorkWithinInflight
BY WorkIsBounded, AInvHolds, PTL

-----------------------------------------------------------------------------
(***************************************************************************)
(* The read cache.                                                         *)
(***************************************************************************)

-----------------------------------------------------------------------------
(* What a step must know for the property to be inductive.                 *)

\* Each write moves the generation on at most once.
GenerationsLeft ==
  /\ unbumped \subseteq 1..written /\ generation + Cardinality(unbumped) <= written
  /\ covered <= written

\* Between its lookup and its answer, a reader has a key.
Keyed(r) == reader[r].pc \in {"get", "miss", "fill", "ask", "store", "wait"}

\* A key says what a reader must at least be given: covered moves only with the
\* generation, so that readers with one key arrived under one value of covered.
KeysAgree ==
  /\ \A r \in Readers : Keyed(r) => /\ reader[r].key <= generation
                                    /\ reader[r].key = generation => reader[r].since = covered
  /\ \A r, q \in Readers : Keyed(r) /\ Keyed(q) /\ reader[r].key = reader[q].key
                             => reader[r].since = reader[q].since

\* A query sees every write that was covered when its reader arrived.
QueriesAreFresh ==
  \A r \in Readers :
    /\ reader[r].since <= covered
    /\ At(r, "ask") \/ At(r, "store") => reader[r].since <= reader[r].list

CacheInv ==
  CacheTypeOK /\ GenerationsLeft /\ KeysAgree /\ QueriesAreFresh /\ SharedFillsAreFresh

-----------------------------------------------------------------------------
LEMMA InitCacheInv == CacheInit => CacheInv
<1> SUFFICES ASSUME CacheInit PROVE CacheInv
  OBVIOUS
<1> USE ReadCacheAssumption DEF CacheInit
<1>1. CacheTypeOK
  BY DEF CacheTypeOK, Idle, Reader, Versions, Generations
<1>2. GenerationsLeft
  BY FS_EmptySet DEF GenerationsLeft
<1>3. KeysAgree /\ QueriesAreFresh /\ SharedFillsAreFresh
  BY DEF KeysAgree, Keyed, QueriesAreFresh, SharedFillsAreFresh, Behind, At, Idle
<1> QED BY <1>1, <1>2, <1>3 DEF CacheInv

-----------------------------------------------------------------------------
(* The steps.                                                              *)

StoreTypes ==
  /\ written \in Versions /\ covered \in Versions /\ generation \in Generations
  /\ unbumped \subseteq Versions /\ losses \in 0..MaxLosses
  /\ entries \in [Generations -> Versions \cup {None}]
FillTypes == fills \in [Replicas -> [Generations -> Readers \cup {None}]]
ReaderTypes == reader \in [Readers -> Reader]

LEMMA CacheTypesSplit == CacheTypeOK <=> StoreTypes /\ FillTypes /\ ReaderTypes
BY DEF CacheTypeOK, StoreTypes, FillTypes, ReaderTypes

LEMMA CacheTypesSplitNext == StoreTypes' /\ FillTypes' /\ ReaderTypes' => CacheTypeOK'
BY DEF CacheTypeOK, StoreTypes, FillTypes, ReaderTypes

LEMMA LoseType == ASSUME StoreTypes, Lose PROVE losses' \in 0..MaxLosses
BY ReadCacheAssumption DEF StoreTypes, Lose

LEMMA UnbumpedFinite ==
  ASSUME CacheInv PROVE IsFiniteSet(unbumped) /\ Cardinality(unbumped) \in Nat
<1>1. IsFiniteSet(1..written) /\ unbumped \subseteq 1..written
  BY FS_Interval DEF CacheInv, GenerationsLeft, CacheTypeOK, Versions
<1> QED BY <1>1, FS_Subset, FS_CardinalityType

\* A step of one reader that leaves Redis and the writers alone.
LEMMA ReaderMoves ==
  ASSUME CacheInv, NEW r \in Readers, NEW new \in Reader,
         reader' = [reader EXCEPT ![r] = new],
         UNCHANGED <<written, unbumped, generation, covered>>,
         FillTypes', StoreTypes',
         new.since <= covered,
         new.pc \in {"get", "miss", "fill", "ask", "store", "wait"} =>
           \/ Keyed(r) /\ new.key = reader[r].key /\ new.since = reader[r].since
           \/ new.key = generation /\ new.since = covered,
         new.pc \in {"ask", "store"} => new.since <= new.list,
         new.pc = "served" /\ new.from # "cache" => new.since <= new.list
  PROVE CacheInv'
<1> USE DEF CacheInv
<1>0. StoreTypes /\ FillTypes /\ ReaderTypes
  BY CacheTypesSplit
<1>1. reader'[r] = new /\ \A q \in Readers \ {r} : reader'[q] = reader[q]
  BY <1>0 DEF ReaderTypes
<1>2. CacheTypeOK'
  BY <1>0, CacheTypesSplitNext DEF ReaderTypes
<1>3. GenerationsLeft'
  BY DEF GenerationsLeft
<1>4. KeysAgree'
  <2>1. \A q \in Readers : /\ reader[q].key \in Nat /\ reader[q].since \in Nat
    BY <1>0, ReadCacheAssumption DEF ReaderTypes, Reader, Generations, Versions
  <2>2. new.key \in Nat /\ new.since \in Nat /\ generation \in Nat /\ covered \in Nat
    BY <1>0, ReadCacheAssumption DEF Reader, StoreTypes, Generations, Versions
  <2>3. ASSUME NEW q \in Readers, Keyed(q)'
        PROVE  /\ reader'[q].key <= generation
               /\ reader'[q].key = generation => reader'[q].since = covered
    <3>1. CASE q = r
      BY <1>1, <2>2, <2>3, <3>1 DEF KeysAgree, Keyed
    <3>2. CASE q # r
      BY <1>1, <2>3, <3>2 DEF KeysAgree, Keyed
    <3> QED BY <3>1, <3>2
  <2>4. ASSUME NEW p \in Readers, NEW q \in Readers, Keyed(p)', Keyed(q)',
               reader'[p].key = reader'[q].key
        PROVE  reader'[p].since = reader'[q].since
    <3>1. CASE p = r /\ q # r
      BY <1>1, <2>4, <3>1 DEF KeysAgree, Keyed
    <3>2. CASE q = r /\ p # r
      BY <1>1, <2>4, <3>2 DEF KeysAgree, Keyed
    <3>3. CASE p # r /\ q # r
      BY <1>1, <2>4, <3>3 DEF KeysAgree, Keyed
    <3> QED BY <3>1, <3>2, <3>3
  <2> QED BY <2>3, <2>4 DEF KeysAgree
<1>5. QueriesAreFresh'
  BY <1>1 DEF QueriesAreFresh, At
<1>6. SharedFillsAreFresh'
  <2> SUFFICES ASSUME NEW q \in Readers, Behind(q)' PROVE reader'[q].from = "cache"
    BY DEF SharedFillsAreFresh
  <2>1. CASE q = r
    BY <1>1, <2>1 DEF Behind, At, Reader, Versions
  <2>2. CASE q # r
    BY <1>1, <2>2 DEF SharedFillsAreFresh, Behind, At
  <2> QED BY <2>1, <2>2
<1> QED BY <1>2, <1>3, <1>4, <1>5, <1>6

LEMMA GetMoves ==
  ASSUME CacheInv, NEW r \in Readers, GetEntry(r) PROVE CacheInv'
<1> USE DEF CacheInv
<1>0. /\ StoreTypes /\ FillTypes /\ ReaderTypes /\ reader[r] \in Reader
      /\ entries[reader[r].key] \in Versions \cup {None}
  BY CacheTypesSplit DEF ReaderTypes, Reader, StoreTypes
<1>1. StoreTypes' /\ FillTypes' /\ UNCHANGED <<written, unbumped, generation, covered>>
  BY <1>0, LoseType DEF GetEntry, StoreTypes, FillTypes, redisVars
<1>2. reader[r].since <= covered
  BY DEF QueriesAreFresh
<1>3. CASE Set(r, "miss") \/ Set(r, "origin")
  <2> SUFFICES ASSUME NEW pc \in {"miss", "origin"},
                      reader' = [reader EXCEPT ![r] = [reader[r] EXCEPT !.pc = pc]]
               PROVE  CacheInv'
    BY <1>3 DEF Set
  <2> DEFINE new == [reader[r] EXCEPT !.pc = pc]
  <2>1. new \in Reader /\ new.since = reader[r].since /\ new.key = reader[r].key /\ new.pc = pc
    BY <1>0 DEF Reader
  <2>2. Keyed(r)
    BY DEF GetEntry, At, Keyed
  <2> HIDE DEF new
  <2>3. reader' = [reader EXCEPT ![r] = new]
    BY DEF new
  <2> QED BY <1>1, <1>2, <2>1, <2>2, <2>3, ReaderMoves
<1>4. CASE entries[reader[r].key] # None /\ Serve(r, entries[reader[r].key], "cache")
  <2> DEFINE new == [reader[r] EXCEPT !.pc = "served", !.list = entries[reader[r].key],
                                      !.from = "cache"]
  <2>1. new \in Reader /\ new.since = reader[r].since /\ new.pc = "served" /\ new.from = "cache"
    BY <1>0, <1>4 DEF Reader
  <2>2. reader' = [reader EXCEPT ![r] = new]
    BY <1>4 DEF Serve
  <2> HIDE DEF new
  <2> QED BY <1>1, <1>2, <2>1, <2>2, ReaderMoves
<1> QED BY <1>3, <1>4 DEF GetEntry

LEMMA ArriveMoves ==
  ASSUME CacheInv, NEW r \in Readers, Arrive(r) PROVE CacheInv'
<1> USE DEF CacheInv
<1>0. StoreTypes /\ FillTypes /\ ReaderTypes
  BY CacheTypesSplit
<1>1. StoreTypes' /\ FillTypes' /\ UNCHANGED <<written, unbumped, generation, covered>>
  BY <1>0, LoseType DEF Arrive, StoreTypes, FillTypes, redisVars
<1>2. covered \in Versions /\ generation \in Generations /\ covered <= covered
  BY <1>0, ReadCacheAssumption DEF StoreTypes, Versions
<1>3. ASSUME NEW new \in Reader, reader' = [reader EXCEPT ![r] = new],
             new.since = covered, (new.pc = "get" /\ new.key = generation) \/ new.pc = "origin"
      PROVE  CacheInv'
  BY <1>1, <1>2, <1>3, ReaderMoves
<1>4. Idle \in Reader
  BY ReadCacheAssumption DEF Idle, Reader, Versions, Generations
<1>5. CASE reader' = [reader EXCEPT ![r] =
             [Idle EXCEPT !.pc = "get", !.since = covered, !.key = generation]]
  <2> DEFINE new == [Idle EXCEPT !.pc = "get", !.since = covered, !.key = generation]
  <2>1. new \in Reader /\ new.since = covered /\ new.pc = "get" /\ new.key = generation
    BY <1>2, <1>4 DEF Reader
  <2> HIDE DEF new
  <2>2. reader' = [reader EXCEPT ![r] = new]
    BY <1>5 DEF new
  <2> QED BY <1>3, <2>1, <2>2
<1>6. CASE reader' = [reader EXCEPT ![r] = [Idle EXCEPT !.pc = "origin", !.since = covered]]
  <2> DEFINE new == [Idle EXCEPT !.pc = "origin", !.since = covered]
  <2>1. new \in Reader /\ new.since = covered /\ new.pc = "origin"
    BY <1>2, <1>4 DEF Reader
  <2> HIDE DEF new
  <2>2. reader' = [reader EXCEPT ![r] = new]
    BY <1>6 DEF new
  <2> QED BY <1>3, <2>1, <2>2
<1> QED BY <1>5, <1>6 DEF Arrive

LEMMA JoinMoves ==
  ASSUME CacheInv, NEW r \in Readers, JoinOrLead(r) PROVE CacheInv'
<1> USE DEF CacheInv
<1>0. StoreTypes /\ FillTypes /\ ReaderTypes /\ reader[r] \in Reader
  BY CacheTypesSplit DEF ReaderTypes
<1>1. StoreTypes' /\ UNCHANGED <<written, unbumped, generation, covered>>
  BY <1>0 DEF JoinOrLead, StoreTypes, redisVars
<1>2. FillTypes'
  <2>1. ReplicaOf[r] \in Replicas /\ FillKey(r) \in Generations
    BY <1>0, ReadCacheAssumption DEF FillKey, Reader
  <2> QED BY <1>0, <2>1 DEF JoinOrLead, FillTypes
<1>3. PICK pc \in {"wait", "fill"} : reader' = [reader EXCEPT ![r] = [reader[r] EXCEPT !.pc = pc]]
  BY DEF JoinOrLead, Set
<1> DEFINE new == [reader[r] EXCEPT !.pc = pc]
<1>4. new \in Reader /\ new.since = reader[r].since /\ new.key = reader[r].key /\ new.pc = pc
  BY <1>0 DEF Reader
<1>5. Keyed(r) /\ reader[r].since <= covered
  BY DEF JoinOrLead, At, Keyed, QueriesAreFresh
<1> HIDE DEF new
<1>6. reader' = [reader EXCEPT ![r] = new]
  BY <1>3 DEF new
<1> QED BY <1>1, <1>2, <1>4, <1>5, <1>6, ReaderMoves

LEMMA QueryMoves ==
  ASSUME CacheInv, NEW r \in Readers, Query(r) \/ AskGeneration(r) \/ ReadOrigin(r)
  PROVE  CacheInv'
<1> USE DEF CacheInv
<1>0. StoreTypes /\ FillTypes /\ ReaderTypes /\ reader[r] \in Reader
  BY CacheTypesSplit DEF ReaderTypes
<1>1. /\ StoreTypes' /\ FillTypes' /\ UNCHANGED <<written, unbumped, generation, covered>>
  BY <1>0 DEF Query, AskGeneration, ReadOrigin, StoreTypes, FillTypes, redisVars
<1>2. /\ reader[r].since <= covered /\ covered <= written
      /\ reader[r].since \in Nat /\ covered \in Nat /\ written \in Nat
      /\ written \in Versions /\ generation \in Generations
  BY <1>0, ReadCacheAssumption
     DEF QueriesAreFresh, GenerationsLeft, StoreTypes, Reader, Versions, Generations
<1>3. CASE Query(r)
  <2> DEFINE new == [reader[r] EXCEPT !.pc = "ask", !.list = written]
  <2>1. /\ new \in Reader /\ new.since = reader[r].since /\ new.key = reader[r].key
        /\ new.pc = "ask" /\ new.list = written
    BY <1>0, <1>2 DEF Reader
  <2>2. Keyed(r) /\ reader' = [reader EXCEPT ![r] = new]
    BY <1>3 DEF Query, At, Keyed
  <2> HIDE DEF new
  <2>3. new.since <= new.list
    BY <1>2, <2>1
  <2> QED BY <1>1, <1>2, <2>1, <2>2, <2>3, ReaderMoves
<1>4. CASE AskGeneration(r)
  <2> DEFINE new == [reader[r] EXCEPT !.pc = "store", !.under = generation]
  <2>1. /\ new \in Reader /\ new.since = reader[r].since /\ new.key = reader[r].key
        /\ new.pc = "store" /\ new.list = reader[r].list
    BY <1>0, <1>2 DEF Reader
  <2>2. Keyed(r) /\ reader[r].since <= reader[r].list /\ reader' = [reader EXCEPT ![r] = new]
    BY <1>4 DEF AskGeneration, At, Keyed, QueriesAreFresh
  <2> HIDE DEF new
  <2> QED BY <1>1, <1>2, <2>1, <2>2, ReaderMoves
<1>5. CASE ReadOrigin(r)
  <2> DEFINE new == [reader[r] EXCEPT !.pc = "served", !.list = written, !.from = "query"]
  <2>1. /\ new \in Reader /\ new.since = reader[r].since
        /\ new.pc = "served" /\ new.list = written
    BY <1>0, <1>2 DEF Reader
  <2>2. reader' = [reader EXCEPT ![r] = new]
    BY <1>5 DEF ReadOrigin, Serve
  <2> HIDE DEF new
  <2>3. new.since <= new.list
    BY <1>2, <2>1
  <2> QED BY <1>1, <1>2, <2>1, <2>2, <2>3, ReaderMoves
<1> QED BY <1>3, <1>4, <1>5

LEMMA LeaveMoves ==
  ASSUME CacheInv, NEW r \in Readers, Leave(r) PROVE CacheInv'
<1> USE DEF CacheInv
<1>0. StoreTypes /\ FillTypes /\ ReaderTypes
  BY CacheTypesSplit
<1>1. StoreTypes' /\ FillTypes' /\ UNCHANGED <<written, unbumped, generation, covered>>
  BY <1>0 DEF Leave, StoreTypes, FillTypes, redisVars
<1>2. Idle \in Reader /\ Idle.since = 0 /\ Idle.pc = "idle" /\ 0 <= covered
  BY <1>0, ReadCacheAssumption DEF Idle, Reader, StoreTypes, Versions, Generations
<1> QED BY <1>1, <1>2, ReaderMoves DEF Leave

\* Every other reader keeps what the invariant says of it.
LEMMA ManyReadersMove ==
  ASSUME CacheInv, reader' \in [Readers -> Reader],
         UNCHANGED <<written, unbumped, generation, covered>>,
         FillTypes', StoreTypes',
         \A q \in Readers :
           \/ reader'[q] = reader[q]
           \/ /\ reader'[q].pc \in {"idle", "origin", "served"}
              /\ reader'[q].since <= covered
              /\ reader'[q].pc = "served" => reader'[q].since <= reader'[q].list
  PROVE CacheInv'
<1> USE DEF CacheInv
<1>1. CacheTypeOK' /\ GenerationsLeft'
  BY CacheTypesSplitNext DEF ReaderTypes, GenerationsLeft
<1>2. ASSUME NEW q \in Readers, Keyed(q)' PROVE reader'[q] = reader[q] /\ Keyed(q)
  BY <1>2 DEF Keyed
<1>3. KeysAgree'
  BY <1>2 DEF KeysAgree
<1>4. QueriesAreFresh'
  BY DEF QueriesAreFresh, At
<1>5. SharedFillsAreFresh'
  <2> SUFFICES ASSUME NEW q \in Readers, Behind(q)' PROVE reader'[q].from = "cache"
    BY DEF SharedFillsAreFresh
  <2>1. reader'[q].since \in Nat /\ reader'[q].list \in Nat
    BY ReadCacheAssumption DEF Reader, Versions
  <2> QED BY <2>1 DEF SharedFillsAreFresh, Behind, At
<1> QED BY <1>1, <1>3, <1>4, <1>5

LEMMA EndMoves ==
  ASSUME CacheInv, NEW r \in Readers, QueryFails(r) \/ Store(r) PROVE CacheInv'
<1> USE DEF CacheInv
<1>0. StoreTypes /\ FillTypes /\ ReaderTypes /\ \A q \in Readers : reader[q] \in Reader
  BY CacheTypesSplit DEF ReaderTypes
<1>1. UNCHANGED <<written, unbumped, generation, covered>>
  BY DEF QueryFails, Store, redisVars
<1>2. StoreTypes'
  <2>1. losses' \in 0..MaxLosses
    BY <1>0, LoseType DEF QueryFails, Store, StoreTypes
  <2>2. entries' \in [Generations -> Versions \cup {None}]
    BY <1>0 DEF QueryFails, Store, StoreTypes, redisVars, Reader
  <2> QED BY <1>0, <1>1, <2>1, <2>2 DEF StoreTypes
<1>3. FillTypes'
  <2>1. ReplicaOf[r] \in Replicas /\ FillKey(r) \in Generations
    BY <1>0, ReadCacheAssumption DEF FillKey, Reader
  <2>2. fills' = [fills EXCEPT ![ReplicaOf[r]] = [fills[ReplicaOf[r]] EXCEPT ![FillKey(r)] = None]]
    BY DEF QueryFails, Store
  <2> QED BY <1>0, <2>1, <2>2 DEF FillTypes
<1>4. \A q \in Readers : reader[q].since <= covered
  BY DEF QueriesAreFresh
<1>5. CASE QueryFails(r)
  <2>1. Idle \in Reader /\ Idle.since = 0 /\ Idle.pc = "idle" /\ 0 <= covered
    BY <1>0, ReadCacheAssumption DEF Idle, Reader, StoreTypes, Versions, Generations
  <2>2. ASSUME NEW q \in Readers
        PROVE  /\ reader'[q] \in Reader
               /\ \/ reader'[q] = reader[q]
                  \/ /\ reader'[q].pc \in {"idle", "origin"}
                     /\ reader'[q].since <= covered
    BY <1>0, <1>4, <1>5, <2>1 DEF QueryFails, Reader
  <2>3. reader' \in [Readers -> Reader]
    BY <1>5, <2>2 DEF QueryFails
  <2> QED BY <1>1, <1>2, <1>3, <2>2, <2>3, ManyReadersMove
<1>6. CASE Store(r)
  <2>1. Keyed(r) /\ reader[r].since <= reader[r].list
    BY <1>6 DEF Store, At, Keyed, QueriesAreFresh
  <2>2. ASSUME NEW q \in Waiters(r) PROVE reader[q].since = reader[r].since
    BY <2>1, <2>2 DEF Waiters, At, Keyed, FillKey, KeysAgree
  <2>3. ASSUME NEW q \in Readers
        PROVE  /\ reader'[q] \in Reader
               /\ \/ reader'[q] = reader[q]
                  \/ /\ reader'[q].pc = "served"
                     /\ reader'[q].since <= covered
                     /\ reader'[q].since <= reader'[q].list
    <3>1. CASE q \in {r} \cup Waiters(r)
      <4>1. reader[q].since <= reader[r].list
        BY <2>1, <2>2, <3>1
      <4>2. PICK from \in {"query", "shared"} :
              reader'[q] = [reader[q] EXCEPT !.pc = "served", !.list = reader[r].list, !.from = from]
        BY <1>6, <3>1 DEF Store
      <4> QED BY <1>0, <1>4, <4>1, <4>2 DEF Reader
    <3>2. CASE q \notin {r} \cup Waiters(r)
      BY <1>0, <1>6, <3>2 DEF Store
    <3> QED BY <3>1, <3>2
  <2>4. reader' \in [Readers -> Reader]
    BY <1>6, <2>3 DEF Store
  <2> QED BY <1>1, <1>2, <1>3, <2>3, <2>4, ManyReadersMove
<1> QED BY <1>5, <1>6

LEMMA WriteMoves ==
  ASSUME CacheInv, Write PROVE CacheInv'
<1> USE ReadCacheAssumption DEF CacheInv
<1>0. StoreTypes /\ FillTypes /\ ReaderTypes
  BY CacheTypesSplit
<1>1. CacheTypeOK'
  BY DEF CacheTypeOK, Write, redisVars, Versions
<1>2. written \in Nat /\ generation \in Nat /\ covered \in Nat
  BY <1>0 DEF StoreTypes, Versions, Generations
<1>3. GenerationsLeft'
  <2>1. IsFiniteSet(unbumped) /\ Cardinality(unbumped) \in Nat /\ written + 1 \notin unbumped
    BY <1>2, UnbumpedFinite DEF GenerationsLeft
  <2>2. Cardinality(unbumped') = Cardinality(unbumped) + 1
    BY <2>1, FS_AddElement DEF Write
  <2>3. unbumped' \subseteq 1..written' /\ covered' <= written'
    BY <1>2 DEF Write, GenerationsLeft, redisVars
  <2> QED BY <1>2, <2>1, <2>2, <2>3 DEF GenerationsLeft, Write, redisVars
<1>4. KeysAgree' /\ QueriesAreFresh' /\ SharedFillsAreFresh'
  BY DEF Write, redisVars, KeysAgree, Keyed, QueriesAreFresh, SharedFillsAreFresh, Behind, At
<1> QED BY <1>1, <1>3, <1>4

LEMMA BumpMoves ==
  ASSUME CacheInv, NEW w \in unbumped, Bump(w) PROVE CacheInv'
<1> USE ReadCacheAssumption DEF CacheInv
<1>0. StoreTypes /\ FillTypes /\ ReaderTypes
  BY CacheTypesSplit
<1>1. written \in Nat /\ generation \in Nat /\ covered \in Nat /\ written <= MaxWrites
  BY <1>0 DEF StoreTypes, Versions, Generations
<1>2. /\ Cardinality(unbumped) \in Nat /\ Cardinality(unbumped') \in Nat
      /\ Cardinality(unbumped') = Cardinality(unbumped) - 1
  BY UnbumpedFinite, FS_RemoveElement, FS_CardinalityType DEF Bump
<1>3. GenerationsLeft' /\ generation' \in Nat /\ generation' <= MaxWrites
  <2>1. unbumped' \subseteq 1..written' /\ covered' <= written'
    BY <1>1 DEF Bump, GenerationsLeft, redisVars
  <2> QED BY <1>1, <1>2, <2>1 DEF GenerationsLeft, Bump, redisVars
<1>4. StoreTypes'
  <2>1. losses' \in 0..MaxLosses
    BY <1>0, LoseType DEF Bump, StoreTypes
  <2> QED BY <1>0, <1>3, <2>1 DEF Bump, StoreTypes, redisVars, Generations
<1>5. CacheTypeOK'
  BY <1>0, <1>4, CacheTypesSplitNext DEF Bump, FillTypes, ReaderTypes
<1>6. reader' = reader /\ covered <= covered' /\ \A r \in Readers : /\ reader[r].since \in Nat
                                                                   /\ reader[r].key \in Nat
  BY <1>0, <1>1 DEF Bump, redisVars, GenerationsLeft, ReaderTypes, Reader, Versions, Generations
<1>7. KeysAgree'
  BY <1>1, <1>6 DEF Bump, redisVars, KeysAgree, Keyed
<1>8. QueriesAreFresh' /\ SharedFillsAreFresh'
  <2>1. covered' \in Nat
    BY <1>1 DEF Bump, redisVars
  <2> QED BY <1>1, <1>6, <2>1 DEF QueriesAreFresh, SharedFillsAreFresh, Behind, At
<1> QED BY <1>3, <1>5, <1>7, <1>8

LEMMA OtherMoves ==
  ASSUME CacheInv, (\E g \in Generations : ExpireEntry(g)) \/ UNCHANGED cacheVars PROVE CacheInv'
<1> USE DEF CacheInv
<1>1. UNCHANGED <<written, unbumped, generation, covered, fills, reader, losses>>
  BY DEF ExpireEntry, cacheVars, redisVars
<1>2. CacheTypeOK'
  BY <1>1 DEF CacheTypeOK, ExpireEntry, cacheVars, redisVars
<1> QED BY <1>1, <1>2 DEF GenerationsLeft, KeysAgree, Keyed, QueriesAreFresh,
                          SharedFillsAreFresh, Behind, At

-----------------------------------------------------------------------------
\* No reader that shares another's query in readThroughCachedJson gets a list
\* older than the generation it looked the key up under: only a list found in
\* Redis can lack a write whose bump the reader came after.
THEOREM SharedFillsSafety == CacheSpec => []SharedFillsAreFresh
<1>1. CacheInv /\ [CacheNext]_cacheVars => CacheInv'
  <2> SUFFICES ASSUME CacheInv, [CacheNext]_cacheVars PROVE CacheInv'
    OBVIOUS
  <2>1. CASE Write
    BY <2>1, WriteMoves
  <2>2. CASE \E w \in unbumped : Bump(w)
    BY <2>2, BumpMoves
  <2>3. CASE (\E g \in Generations : ExpireEntry(g)) \/ UNCHANGED cacheVars
    BY <2>3, OtherMoves
  <2>4. CASE \E r \in Readers : \/ Arrive(r) \/ GetEntry(r) \/ JoinOrLead(r) \/ Query(r)
                                \/ QueryFails(r) \/ AskGeneration(r) \/ Store(r)
                                \/ ReadOrigin(r) \/ Leave(r)
    BY <2>4, ArriveMoves, GetMoves, JoinMoves, QueryMoves, EndMoves, LeaveMoves
  <2> QED BY <2>1, <2>2, <2>3, <2>4 DEF CacheNext
<1>2. CacheInv => SharedFillsAreFresh
  BY DEF CacheInv
<1> QED BY <1>1, <1>2, InitCacheInv, PTL DEF CacheSpec
=============================================================================
