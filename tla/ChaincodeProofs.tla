-------------------------- MODULE ChaincodeProofs --------------------------
(***************************************************************************)
(* Proofs about the contracts on the ledger: that their records hold, what *)
(* was anchored or logged is kept, roads are registers with versions, and  *)
(* what a complaint on the ledger says, however late its transactions      *)
(* commit; for any roads, rules, events, clients, amounts, times and       *)
(* bounds.                                                                 *)
(*                                                                         *)
(* What is computed over a set or round by round (Total, EscalationChain)  *)
(* is reached by a least counterexample: of the sets, or rounds, for which *)
(* a fact fails there is a smallest one, and the step before it decides.   *)
(***************************************************************************)
EXTENDS Chaincodes, FiniteSetTheorems, SequenceTheorems, WellFoundedInduction, TLAPS

LEMMA LeastNumber ==
  ASSUME NEW S \in SUBSET Nat, S # {} PROVE \E n \in S : \A k \in S : n <= k
<1>1. PICK m \in S : \A y \in S : ~ (<<y, m>> \in OpToRel(<, Nat))
  BY NatLessThanWellFounded, WFMin
<1>2. ASSUME NEW y \in S PROVE m =< y
  <2>1. y < m <=> <<y, m>> \in OpToRel(<, Nat)
    <3>1. <<y, m>> \in Nat \X Nat /\ <<y, m>>[1] = y /\ <<y, m>>[2] = m
      OBVIOUS
    <3> QED BY <3>1, Zenon DEF OpToRel
  <2>2. ~ (y < m)
    BY <1>1, <2>1, Zenon
  <2> QED BY <2>2
<1> QED BY <1>2


-----------------------------------------------------------------------------
(* Roads.                                                                  *)

LEMMA BlankRoadIsContent == BlankRoad \in Content
  BY RoadAssumption DEF BlankRoad, Content

LEMMA RoadInitHolds == ASSUME RoadInit PROVE RoadTypeOK /\ RoadStore!CopiesTell
<1>1. (CHOOSE d \in Roads : TRUE) \in Roads
  BY RoadAssumption
<1> QED BY <1>1, BlankRoadIsContent DEF RoadInit, RoadTypeOK, RoadStore!CopiesTell

\* What a transaction may do with the roads: change some of them, each by one version.
Versions ==
  /\ roads' \in [Roads -> [version : Nat, value : Content]]
  /\ \A d \in Roads : roads'[d] = roads[d] \/ roads'[d].version = roads[d].version + 1

LEMMA PutVersions ==
  ASSUME RoadTypeOK, NEW d \in Roads, NEW value \in Content, Put(d, value) PROVE Versions
  BY DEF RoadTypeOK, Put, NextVersion, Versions

LEMMA RoadSteps ==
  ASSUME RoadTypeOK, RoadNext
  PROVE  \/ Versions /\ UNCHANGED roadCopies
         \/ \E c \in RoadClients, d \in Roads : RoadStore!ReadRecord(c, d) /\ GetRoad(c, d)
<1>1. ASSUME NEW c \in RoadClients, RoadInitLedger(c) PROVE Versions /\ UNCHANGED roadCopies
  <2>1. ASSUME NEW d \in Roads
        PROVE  \/ roads'[d] = roads[d]
               \/ roads[d].version = 0 /\ roads'[d] = [version |-> 1, value |-> BlankRoad]
    <3>1. roads[d].version \in Nat
      BY DEF RoadTypeOK
    <3>2. roads'[d] = IF d \in SeedRoads /\ ~ Exists(d)
                        THEN [version |-> 1, value |-> BlankRoad] ELSE roads[d]
      BY <1>1 DEF RoadInitLedger
    <3>3. ~ Exists(d) => roads[d].version = 0
      BY <3>1 DEF Exists
    <3> QED BY <3>2, <3>3
  <2> QED BY <1>1, <2>1, BlankRoadIsContent DEF RoadInitLedger, RoadTypeOK, Versions
<1>2. ASSUME NEW c \in RoadClients, NEW d \in Roads, NEW value \in Content,
             CreateRoad(c, d, value) \/ UpdateRoad(c, d, value)
      PROVE  Versions /\ UNCHANGED roadCopies
  BY <1>2, PutVersions DEF CreateRoad, UpdateRoad
<1>3. ASSUME NEW c \in RoadClients, NEW d \in Roads, NEW i \in ContractIds, NEW k \in Contractors,
             AssignContractor(c, d, i, k)
      PROVE  Versions /\ UNCHANGED roadCopies
  <2>1. [roads[d].value EXCEPT !.contractor = k] \in Content
    BY DEF RoadTypeOK, Content
  <2> QED BY <1>3, <2>1, PutVersions DEF AssignContractor
<1>4. ASSUME NEW c \in RoadClients, NEW d \in Roads, NEW s \in Scores, UpdateConditionScore(c, d, s)
      PROVE  Versions /\ UNCHANGED roadCopies
  <2>1. [roads[d].value EXCEPT !.score = s] \in Content
    BY DEF RoadTypeOK, Content
  <2> QED BY <1>4, <2>1, PutVersions DEF UpdateConditionScore
<1>5. ASSUME NEW c \in RoadClients, NEW d \in Roads, GetRoad(c, d)
      PROVE  RoadStore!ReadRecord(c, d) /\ GetRoad(c, d)
  BY <1>5 DEF GetRoad, RoadStore!ReadRecord
<1> QED BY <1>1, <1>2, <1>3, <1>4, <1>5 DEF RoadNext

LEMMA RoadNextHolds ==
  ASSUME RoadTypeOK, RoadStore!CopiesTell, [RoadNext]_roadVars
  PROVE  RoadTypeOK' /\ RoadStore!CopiesTell'
<1>1. CASE UNCHANGED roadVars
  BY <1>1 DEF roadVars, RoadTypeOK, RoadStore!CopiesTell
<1>2. ASSUME RoadNext PROVE contracts' \subseteq [road : Roads, id : ContractIds, contractor : Contractors]
  <2>1. \/ UNCHANGED contracts
        \/ \E d \in Roads, i \in ContractIds, k \in Contractors :
             contracts' = contracts \cup {[road |-> d, id |-> i, contractor |-> k]}
    BY <1>2 DEF RoadNext, RoadInitLedger, GetRoad, CreateRoad, UpdateRoad, AssignContractor,
         UpdateConditionScore
  <2> QED BY <2>1 DEF RoadTypeOK
<1>3. ASSUME RoadNext, Versions, UNCHANGED roadCopies PROVE RoadTypeOK' /\ RoadStore!CopiesTell'
  <2>1. RoadTypeOK'
    BY <1>2, <1>3 DEF RoadTypeOK, Versions
  <2>2. ASSUME NEW c \in RoadClients
        PROVE  LET own == roadCopies[c]  now == roads'[own.key] IN
                 own.version <= now.version /\ (own.version = now.version => own.value = now.value)
    <3>1. roadCopies[c].key \in Roads /\ roadCopies[c].version \in Nat
      BY DEF RoadTypeOK
    <3>2. /\ roads[roadCopies[c].key].version \in Nat /\ roadCopies[c].version <= roads[roadCopies[c].key].version
          /\ roadCopies[c].version = roads[roadCopies[c].key].version
               => roadCopies[c].value = roads[roadCopies[c].key].value
      BY <3>1 DEF RoadStore!CopiesTell, RoadTypeOK
    <3> QED BY <1>3, <3>1, <3>2 DEF Versions
  <2> QED BY <1>3, <2>1, <2>2 DEF RoadStore!CopiesTell
<1>4. ASSUME RoadNext, NEW c \in RoadClients, NEW d \in Roads, RoadStore!ReadRecord(c, d)
      PROVE  RoadTypeOK' /\ RoadStore!CopiesTell'
  BY <1>2, <1>4 DEF RoadTypeOK, RoadStore!CopiesTell, RoadStore!ReadRecord
<1> QED BY <1>1, <1>3, <1>4, RoadSteps

LEMMA RoadsHold == RoadSpec => [](RoadTypeOK /\ RoadStore!CopiesTell)
<1>1. RoadTypeOK /\ RoadStore!CopiesTell /\ [RoadNext]_roadVars => (RoadTypeOK /\ RoadStore!CopiesTell)'
  BY RoadNextHolds
<1> QED BY <1>1, RoadInitHolds, PTL DEF RoadSpec

ContractsUnique == \A a, b \in contracts : a.road = b.road /\ a.id = b.id => a = b

LEMMA ContractsKnown ==
  ASSUME RoadTypeOK, ContractsUnique, [RoadNext]_roadVars PROVE ContractsUnique'
<1>1. \/ UNCHANGED contracts
      \/ \E d \in Roads, i \in ContractIds, k \in Contractors :
           /\ ~ \E a \in contracts : a.road = d /\ a.id = i
           /\ contracts' = contracts \cup {[road |-> d, id |-> i, contractor |-> k]}
  BY DEF RoadNext, RoadInitLedger, GetRoad, CreateRoad, UpdateRoad, AssignContractor,
       UpdateConditionScore, roadVars
<1> QED BY <1>1 DEF ContractsUnique

\* What was awarded stays listed, and a record's contractor changes with an award, or
\* with one version more.
LEMMA AwardsAreKept ==
  ASSUME RoadTypeOK, ContractsUnique, RoadNext, NEW d \in Roads
  PROVE  LET history == GetContractHistory(d) IN
           /\ history \subseteq history'
           /\ \A a, b \in history' : a.id = b.id => a = b
           /\ roads[d].value.contractor # roads'[d].value.contractor =>
                \/ \E a \in history' \ history : a.contractor = roads'[d].value.contractor
                \/ history' = history /\ roads'[d].version = roads[d].version + 1
<1>1. GetContractHistory(d) = {a \in contracts : a.road = d} /\ GetContractHistory(d)' = {a \in contracts' : a.road = d}
  BY DEF GetContractHistory
<1>2. ContractsUnique'
  BY ContractsKnown
<1>3. \A a, b \in GetContractHistory(d)' : a.id = b.id => a = b
  BY <1>1, <1>2 DEF ContractsUnique
<1>4. CASE UNCHANGED contracts
  <2>1. GetContractHistory(d)' = GetContractHistory(d)
    BY <1>1, <1>4
  <2>2. roads'[d] = roads[d] \/ roads'[d].version = roads[d].version + 1
    <3>1. roads[d].version \in Nat
      BY DEF RoadTypeOK
    <3>2. ASSUME NEW e \in Roads, NEW value, Put(e, value)
          PROVE  roads'[d] = roads[d] \/ roads'[d].version = roads[d].version + 1
      BY <3>2 DEF Put, NextVersion, RoadTypeOK
    <3>3. ASSUME NEW c \in RoadClients, RoadInitLedger(c)
          PROVE  roads'[d] = roads[d] \/ roads'[d].version = roads[d].version + 1
      <4>1. roads'[d] = IF d \in SeedRoads /\ ~ Exists(d)
                          THEN [version |-> 1, value |-> BlankRoad] ELSE roads[d]
        BY <3>3 DEF RoadInitLedger
      <4>2. ~ Exists(d) => roads[d].version = 0
        BY <3>1 DEF Exists
      <4> QED BY <4>1, <4>2
    <3>4. \/ \E c \in RoadClients : RoadInitLedger(c)
          \/ \E e \in Roads, value \in Content : Put(e, value)
          \/ \E e \in Roads, k \in Contractors : Put(e, [roads[e].value EXCEPT !.contractor = k])
          \/ \E e \in Roads, s \in Scores : Put(e, [roads[e].value EXCEPT !.score = s])
          \/ UNCHANGED roads
      BY DEF RoadNext, GetRoad, CreateRoad, UpdateRoad, AssignContractor, UpdateConditionScore
    <3> QED BY <3>2, <3>3, <3>4
  <2> QED BY <1>3, <2>1, <2>2
<1>5. ASSUME NEW c \in RoadClients, NEW e \in Roads, NEW i \in ContractIds, NEW k \in Contractors,
             AssignContractor(c, e, i, k)
      PROVE  /\ GetContractHistory(d) \subseteq GetContractHistory(d)'
             /\ roads[d].value.contractor # roads'[d].value.contractor =>
                  \E a \in GetContractHistory(d)' \ GetContractHistory(d) :
                    a.contractor = roads'[d].value.contractor
  <2> DEFINE award == [road |-> e, id |-> i, contractor |-> k]
  <2>1. /\ contracts' = contracts \cup {award} /\ award \notin contracts
        /\ award.road = e /\ award.contractor = k
    BY <1>5 DEF AssignContractor
  <2>2. CASE d = e
    <3>1. roads'[d].value.contractor = k
      BY <1>5, <2>2 DEF AssignContractor, Put, RoadTypeOK, Content
    <3>2. award \in GetContractHistory(d)' \ GetContractHistory(d)
      BY <1>1, <2>1, <2>2
    <3> QED BY <1>1, <2>1, <3>1, <3>2
  <2>3. CASE d # e
    <3>1. roads'[d] = roads[d]
      BY <1>5, <2>3 DEF AssignContractor, Put, RoadTypeOK
    <3> QED BY <1>1, <2>1, <3>1
  <2> QED BY <2>2, <2>3
<1>6. \/ UNCHANGED contracts
      \/ \E c \in RoadClients, e \in Roads, i \in ContractIds, k \in Contractors : AssignContractor(c, e, i, k)
  BY DEF RoadNext, RoadInitLedger, GetRoad, CreateRoad, UpdateRoad, UpdateConditionScore
<1> QED BY <1>3, <1>4, <1>5, <1>6


\* A road's record is a register with versions: what UpdateRoad relies on when it
\* refuses a client whose version is not the record's, for the condition sensor and
\* the awards change a record behind the back of the client that is editing it.
LEMMA RoadsVersioned == RoadSpec => RoadsAreVersioned
<1>1. RoadInit => RoadStore!StoreInit
  <2>1. (CHOOSE d \in Roads : TRUE) \in Roads
    BY RoadAssumption
  <2> QED BY <2>1, BlankRoadIsContent DEF RoadInit, RoadStore!StoreInit
<1>2. RoadTypeOK /\ [RoadNext]_roadVars => [RoadStore!StoreNext]_(RoadStore!storeVars)
  <2> SUFFICES ASSUME RoadTypeOK, [RoadNext]_roadVars PROVE [RoadStore!StoreNext]_(RoadStore!storeVars)
    OBVIOUS
  <2>1. CASE UNCHANGED roadVars
    BY <2>1 DEF roadVars, RoadStore!storeVars
  <2>2. CASE Versions /\ UNCHANGED roadCopies
    BY <2>2 DEF Versions, RoadStore!StoreNext, RoadStore!WriteRecords
  <2>3. CASE \E c \in RoadClients, d \in Roads : RoadStore!ReadRecord(c, d)
    BY <2>3 DEF RoadStore!StoreNext
  <2> QED BY <2>1, <2>2, <2>3, RoadSteps
<1> QED BY <1>1, <1>2, RoadsHold, PTL DEF RoadSpec, RoadsAreVersioned, RoadStore!StoreSpec

\* UpdateRoad overwrites nothing that its author has not read.
LEMMA RoadUpdatesSeen == RoadSpec => NoLostRoadUpdate
<1>1. RoadTypeOK /\ RoadStore!CopiesTell
        => \A c \in RoadClients, d \in Roads, value \in Content :
             UpdateRoad(c, d, value) => roadCopies[c].value = roads[d].value
  BY DEF UpdateRoad, VersionAgrees, RoadStore!CopiesTell
<1> QED BY <1>1, RoadsHold, PTL DEF RoadSpec, NoLostRoadUpdate

-----------------------------------------------------------------------------
(* Authorities.                                                            *)

CopiesAreEarlier ==
  \A c \in AuthorityClients : officerCopies[c].of \notin reseeded
    => officerCopies[c].record.version <= officers[officerCopies[c].of].version
LogKeysAreUnique == \A l, m \in log : ActionKey(l) = ActionKey(m) => l = m

AuthorityInv == AuthorityTypeOK /\ CopiesAreEarlier /\ AuthorityCopiesTell /\ LogKeysAreUnique

LEMMA NoRecordIsRecord == NoRecord \in Record /\ Seed \in Record /\ Seed.version = 1
  BY AuthorityAssumption DEF NoRecord, Record, Seed

\* The records of a step that writes some: those written had a smaller version, or
\* were written over by InitLedger.
LEMMA OfficersStep ==
  ASSUME AuthorityInv, NEW written \in SUBSET Officers,
         officers' \in [Officers -> Record], reseeded' \subseteq Officers, reseeded \subseteq reseeded',
         \A o \in Officers \ written : officers'[o] = officers[o],
         \A o \in written : o \in reseeded' \/ officers'[o].version = officers[o].version + 1,
         UNCHANGED <<log, officerCopies>>
  PROVE  AuthorityInv'
<1>1. AuthorityTypeOK' /\ LogKeysAreUnique'
  BY DEF AuthorityInv, AuthorityTypeOK, LogKeysAreUnique, ActionKey
<1>2. ASSUME NEW c \in AuthorityClients, officerCopies[c].of \notin reseeded'
      PROVE  /\ officerCopies[c].record.version <= officers'[officerCopies[c].of].version
             /\ officerCopies[c].record.version = officers'[officerCopies[c].of].version
                  => officerCopies[c].record = officers'[officerCopies[c].of]
  <2> DEFINE o == officerCopies[c].of  v == officerCopies[c].record.version
  <2>1. /\ o \in Officers /\ o \notin reseeded /\ v \in Nat /\ officers[o].version \in Nat
        /\ officers'[o].version \in Nat
    BY <1>2 DEF AuthorityInv, AuthorityTypeOK, Record
  <2>2. v <= officers[o].version /\ (v = officers[o].version => officerCopies[c].record = officers[o])
    BY <2>1 DEF AuthorityInv, CopiesAreEarlier, AuthorityCopiesTell
  <2>3. CASE o \in written
    BY <1>2, <2>1, <2>2, <2>3
  <2>4. CASE o \notin written
    BY <1>2, <2>1, <2>2, <2>4
  <2> QED BY <2>3, <2>4
<1>3. CopiesAreEarlier' /\ AuthorityCopiesTell'
  BY <1>2 DEF CopiesAreEarlier, AuthorityCopiesTell
<1> QED BY <1>1, <1>3 DEF AuthorityInv

\* The entry that is logged takes the place of the one with its key, if there is one.
LogStep(entry) ==
  /\ entry \in [by : Officers, case : Cases, type : ActionTypes, at : Seconds]
  /\ log' = {l \in log : ActionKey(l) # ActionKey(entry)} \cup {entry}
  /\ UNCHANGED <<officers, officerCopies, reseeded>>

LEMMA LogActionLogs ==
  ASSUME NEW o \in Officers, NEW x \in Cases, NEW type \in ActionTypes, NEW ts \in Seconds,
         LogAction(o, x, type, ts)
  PROVE  LogStep([by |-> o, case |-> x, type |-> type, at |-> ts])
  BY DEF LogAction, LogStep

LEMMA LogStepHolds == ASSUME AuthorityInv, NEW entry, LogStep(entry) PROVE AuthorityInv'
<1>1. AuthorityTypeOK' /\ CopiesAreEarlier' /\ AuthorityCopiesTell'
  BY DEF AuthorityInv, AuthorityTypeOK, CopiesAreEarlier, AuthorityCopiesTell, LogStep
<1>2. LogKeysAreUnique'
  <2> SUFFICES ASSUME NEW l \in log', NEW m \in log', ActionKey(l) = ActionKey(m) PROVE l = m
    BY DEF LogKeysAreUnique, ActionKey
  <2>1. /\ l = entry \/ (l \in log /\ ActionKey(l) # ActionKey(entry))
        /\ m = entry \/ (m \in log /\ ActionKey(m) # ActionKey(entry))
    BY DEF LogStep
  <2> QED BY <2>1, Zenon DEF AuthorityInv, LogKeysAreUnique
<1> QED BY <1>1, <1>2 DEF AuthorityInv

LEMMA AuthorityInitHolds == ASSUME AuthorityInit PROVE AuthorityInv
<1>1. AuthorityTypeOK /\ LogKeysAreUnique
  BY AuthorityAssumption, NoRecordIsRecord DEF AuthorityInit, AuthorityTypeOK, LogKeysAreUnique
<1>2. \A c \in AuthorityClients : /\ officerCopies[c].of \in Officers
                                 /\ officerCopies[c].record = officers[officerCopies[c].of]
  BY AuthorityAssumption DEF AuthorityInit
<1>3. NoRecord.version <= NoRecord.version
  BY DEF NoRecord
<1>4. \A c \in AuthorityClients : officerCopies[c].record = NoRecord
  BY DEF AuthorityInit
<1>5. CopiesAreEarlier
  BY <1>2, <1>3, <1>4 DEF CopiesAreEarlier
<1> QED BY <1>1, <1>2, <1>5 DEF AuthorityInv, AuthorityCopiesTell

LEMMA AuthorityNextHolds ==
  ASSUME AuthorityInv, [AuthorityNext]_authorityVars PROVE AuthorityInv'
<1>0. CASE UNCHANGED authorityVars
  BY <1>0 DEF authorityVars, AuthorityInv, AuthorityTypeOK, CopiesAreEarlier, AuthorityCopiesTell,
     LogKeysAreUnique, ActionKey
<1>1. CASE AuthorityInitLedger
  <2> DEFINE written == {FirstSeed} \cup OtherSeeds
  <2>1. written \in SUBSET Officers
    BY AuthorityAssumption
  <2>2. ASSUME NEW o \in Officers
        PROVE  /\ officers'[o] = IF o \in written THEN Seed ELSE officers[o]
               /\ officers[o].version \in Nat
    BY <1>1 DEF AuthorityInitLedger, AuthorityInv, AuthorityTypeOK, Record
  <2>3. officers' \in [Officers -> Record] /\ reseeded' \subseteq Officers /\ reseeded \subseteq reseeded'
    BY <1>1, AuthorityAssumption, NoRecordIsRecord DEF AuthorityInitLedger, AuthorityInv, AuthorityTypeOK
  <2>4. ASSUME NEW o \in written PROVE o \in reseeded' \/ officers'[o].version = officers[o].version + 1
    <3>1. officers'[o].version = 1 /\ officers[o].version \in Nat
      BY <2>1, <2>2, NoRecordIsRecord
    <3>2. CASE Registered(o)
      BY <1>1, <3>2, AuthorityAssumption DEF AuthorityInitLedger
    <3>3. CASE ~ Registered(o)
      BY <3>1, <3>3 DEF Registered
    <3> QED BY <3>2, <3>3
  <2>5. \A o \in Officers \ written : officers'[o] = officers[o]
    BY <2>2
  <2>6. UNCHANGED <<log, officerCopies>>
    BY <1>1 DEF AuthorityInitLedger
  <2> HIDE DEF written
  <2> QED BY <2>1, <2>3, <2>4, <2>5, <2>6, OfficersStep
<1>2. ASSUME NEW o \in Officers,
             \/ DeactivateAuthority(o)
             \/ \E p \in Posts : RegisterAuthority(o, p)
             \/ \E c \in AuthorityClients, p \in Posts, active \in BOOLEAN : UpdateAuthority(c, o, p, active)
      PROVE  AuthorityInv'
  <2>1. officers[o] \in Record /\ officers[o].version \in Nat /\ officers[o].post \in Posts
        /\ officers \in [Officers -> Record] /\ reseeded \subseteq Officers
    BY DEF AuthorityInv, AuthorityTypeOK, Record
  <2> DEFINE NewOf(p, active) == [version |-> officers[o].version + 1, post |-> p, active |-> active]
  <2>5. \E p \in Posts, active \in BOOLEAN :
          officers' = [officers EXCEPT ![o] = NewOf(p, active)] /\ UNCHANGED <<log, officerCopies, reseeded>>
    <3>1. ASSUME DeactivateAuthority(o)
          PROVE  /\ officers' = [officers EXCEPT ![o] = NewOf(officers[o].post, FALSE)]
                 /\ UNCHANGED <<log, officerCopies, reseeded>>
      BY <2>1, <3>1 DEF DeactivateAuthority, Record
    <3>2. ASSUME NEW p \in Posts, RegisterAuthority(o, p)
          PROVE  /\ officers' = [officers EXCEPT ![o] = NewOf(p, TRUE)]
                 /\ UNCHANGED <<log, officerCopies, reseeded>>
      <4>1. officers[o].version = 0
        BY <2>1, <3>2 DEF RegisterAuthority, Registered
      <4> QED BY <3>2, <4>1 DEF RegisterAuthority
    <3>3. ASSUME NEW c \in AuthorityClients, NEW p \in Posts, NEW active \in BOOLEAN,
                 UpdateAuthority(c, o, p, active)
          PROVE  /\ officers' = [officers EXCEPT ![o] = NewOf(p, active)]
                 /\ UNCHANGED <<log, officerCopies, reseeded>>
      BY <2>1, <3>3 DEF UpdateAuthority
    <3>4. TRUE \in BOOLEAN /\ FALSE \in BOOLEAN
      OBVIOUS
    <3> HIDE DEF NewOf
    <3> QED BY <1>2, <2>1, <3>1, <3>2, <3>3, <3>4, Zenon
  <2>6. \A p \in Posts, active \in BOOLEAN :
          NewOf(p, active) \in Record /\ NewOf(p, active).version = officers[o].version + 1
    BY <2>1 DEF Record
  <2> HIDE DEF NewOf
  <2>2. PICK new : /\ officers' = [officers EXCEPT ![o] = new] /\ new \in Record
                   /\ new.version = officers[o].version + 1
                   /\ UNCHANGED <<log, officerCopies, reseeded>>
    BY <2>5, <2>6, Zenon
  <2>3. /\ officers' \in [Officers -> Record] /\ officers'[o].version = officers[o].version + 1
        /\ \A q \in Officers \ {o} : officers'[q] = officers[q]
    BY <2>1, <2>2
  <2>4. /\ {o} \in SUBSET Officers /\ reseeded' = reseeded /\ UNCHANGED <<log, officerCopies>>
        /\ reseeded' \subseteq Officers /\ reseeded \subseteq reseeded'
        /\ \A q \in {o} : q \in reseeded' \/ officers'[q].version = officers[q].version + 1
    BY <2>1, <2>2, <2>3
  <2> QED BY <2>3, <2>4, OfficersStep
<1>3. ASSUME NEW c \in AuthorityClients, NEW o \in Officers, GetAuthority(c, o) PROVE AuthorityInv'
  <2>1. AuthorityTypeOK' /\ LogKeysAreUnique'
    BY <1>3 DEF GetAuthority, AuthorityInv, AuthorityTypeOK, LogKeysAreUnique, ActionKey
  <2>2. ASSUME NEW d \in AuthorityClients, officerCopies'[d].of \notin reseeded
        PROVE  /\ officerCopies'[d].record.version <= officers[officerCopies'[d].of].version
               /\ officerCopies'[d].record.version = officers[officerCopies'[d].of].version
                    => officerCopies'[d].record = officers[officerCopies'[d].of]
    <3>1. CASE d = c
      <4>1. officerCopies'[d] = [of |-> o, record |-> officers[o]] /\ officers[o].version \in Nat
        BY <1>3, <3>1 DEF GetAuthority, AuthorityInv, AuthorityTypeOK, Record
      <4> QED BY <4>1
    <3>2. CASE d # c
      <4>1. officerCopies'[d] = officerCopies[d]
        BY <1>3, <3>2 DEF GetAuthority, AuthorityInv, AuthorityTypeOK
      <4> QED BY <2>2, <4>1 DEF AuthorityInv, CopiesAreEarlier, AuthorityCopiesTell
    <3> QED BY <3>1, <3>2
  <2>3. UNCHANGED <<officers, reseeded>>
    BY <1>3 DEF GetAuthority
  <2> QED BY <2>1, <2>2, <2>3 DEF AuthorityInv, CopiesAreEarlier, AuthorityCopiesTell
<1>4. ASSUME NEW o \in Officers, NEW x \in Cases, NEW type \in ActionTypes, NEW ts \in Seconds,
             LogAction(o, x, type, ts)
      PROVE  AuthorityInv'
  BY <1>4, LogActionLogs, LogStepHolds
<1> QED BY <1>0, <1>1, <1>2, <1>3, <1>4 DEF AuthorityNext

LEMMA OthersStayLogged ==
  ASSUME AuthorityInv, AuthorityNext, NEW x \in Cases,
         NEW l \in GetComplaintActionHistory(x) \ GetComplaintActionHistory(x)'
  PROVE  \E m \in GetComplaintActionHistory(x)' \ GetComplaintActionHistory(x) : m.by = l.by /\ m.at = l.at
<1>1. l \in log /\ l.case = x /\ l \notin log'
  BY DEF GetComplaintActionHistory
<1>2. PICK entry : LogStep(entry)
  BY <1>1, LogActionLogs DEF AuthorityNext, AuthorityInitLedger, DeactivateAuthority, RegisterAuthority,
     GetAuthority, UpdateAuthority
<1>3. ActionKey(l) = ActionKey(entry) /\ entry \in log' /\ entry # l
  BY <1>1, <1>2 DEF LogStep
<1>4. entry \notin log
  BY <1>1, <1>3 DEF AuthorityInv, LogKeysAreUnique
<1>5. entry.by = l.by /\ entry.at = l.at /\ entry.case = x
  BY <1>1, <1>3 DEF ActionKey
<1> QED BY <1>3, <1>4, <1>5 DEF GetComplaintActionHistory

-----------------------------------------------------------------------------
(* Anchors.                                                                *)

OneOfAKind ==
  /\ \A a, b \in roots : a.root = b.root => a = b
  /\ \A a, b \in escalations : a.of = b.of /\ a.at = b.at => a = b
  /\ \A a, b \in resolutions : a.of = b.of => a = b

\* Each kind of anchors stays, or gains one with a key of its own.
RootsGrow ==
  \/ roots' = roots
  \/ \E a \in [root : Roots, by : Writers, at : AnchorSeconds] :
       roots' = roots \cup {a} /\ \A b \in roots : b.root # a.root
EscalationsGrow ==
  \/ escalations' = escalations
  \/ \E a \in [of : Anchored, route : Routes, tier : 1..MaxTier, at : AnchorSeconds] :
       escalations' = escalations \cup {a} /\ \A b \in escalations : b.of # a.of \/ b.at # a.at
ResolutionsGrow ==
  \/ resolutions' = resolutions
  \/ \E a \in [of : Anchored, by : Writers, evidence : Evidence, at : AnchorSeconds] :
       resolutions' = resolutions \cup {a} /\ \A b \in resolutions : b.of # a.of

LEMMA AnchorsGrow ==
  ASSUME [AnchorNext]_anchorLedgerVars PROVE RootsGrow /\ EscalationsGrow /\ ResolutionsGrow
<1>0. CASE UNCHANGED anchorLedgerVars
  BY <1>0 DEF anchorLedgerVars, RootsGrow, EscalationsGrow, ResolutionsGrow
<1>1. ASSUME NEW msp \in Msps, NEW ts \in AnchorSeconds, NEW r \in Roots, SubmitMerkleRoot(msp, r, ts)
      PROVE  RootsGrow /\ EscalationsGrow /\ ResolutionsGrow
  BY <1>1 DEF SubmitMerkleRoot, Rooted, RootsGrow, EscalationsGrow, ResolutionsGrow
<1>2. ASSUME NEW msp \in Msps, NEW ts \in AnchorSeconds, NEW x \in Anchored, NEW route \in Routes,
             NEW tier \in Tiers, AnchorEscalation(msp, x, route, tier, ts)
      PROVE  RootsGrow /\ EscalationsGrow /\ ResolutionsGrow
  BY <1>2 DEF AnchorEscalation, EscalatedAt, RootsGrow, EscalationsGrow, ResolutionsGrow
<1>3. ASSUME NEW msp \in Msps, NEW ts \in AnchorSeconds, NEW x \in Anchored, NEW evidence \in Evidence,
             AnchorResolution(msp, x, evidence, ts)
      PROVE  RootsGrow /\ EscalationsGrow /\ ResolutionsGrow
  BY <1>3 DEF AnchorResolution, Resolved, RootsGrow, EscalationsGrow, ResolutionsGrow
<1>4. ASSUME NEW msp \in Msps, NEW ts \in AnchorSeconds, NEW route \in Routes, NEW evidence \in Evidence,
             AnchorInitLedger(msp, route, evidence, ts)
      PROVE  RootsGrow /\ EscalationsGrow /\ ResolutionsGrow
  <2>0. SeedRoot \in Roots /\ SeedAnchored \in Anchored /\ msp \in Writers
    BY <1>4, AnchorAssumption DEF AnchorInitLedger
  <2>1. RootsGrow
    <3>1. [root |-> SeedRoot, by |-> msp, at |-> ts] \in [root : Roots, by : Writers, at : AnchorSeconds]
      BY <2>0
    <3> QED BY <1>4, <3>1 DEF AnchorInitLedger, Rooted, RootsGrow
  <2>2. EscalationsGrow
    <3>1. [of |-> SeedAnchored, route |-> route, tier |-> 1, at |-> ts]
            \in [of : Anchored, route : Routes, tier : 1..MaxTier, at : AnchorSeconds]
      BY <2>0 DEF MaxTier
    <3> QED BY <1>4, <3>1 DEF AnchorInitLedger, EscalationsGrow
  <2>3. ResolutionsGrow
    <3>1. [of |-> SeedAnchored, by |-> msp, evidence |-> evidence, at |-> ts]
            \in [of : Anchored, by : Writers, evidence : Evidence, at : AnchorSeconds]
      BY <2>0
    <3> QED BY <1>4, <3>1 DEF AnchorInitLedger, Resolved, ResolutionsGrow
  <2> QED BY <2>1, <2>2, <2>3
<1> QED BY <1>0, <1>1, <1>2, <1>3, <1>4 DEF AnchorNext

LEMMA AnchorNextHolds ==
  ASSUME AnchorTypeOK, OneOfAKind, [AnchorNext]_anchorLedgerVars
  PROVE  /\ AnchorTypeOK' /\ OneOfAKind'
         /\ roots \subseteq roots' /\ escalations \subseteq escalations' /\ resolutions \subseteq resolutions'
<1>1. /\ roots \subseteq roots' /\ roots' \subseteq [root : Roots, by : Writers, at : AnchorSeconds]
      /\ \A a, b \in roots' : a.root = b.root => a = b
  BY AnchorsGrow DEF RootsGrow, AnchorTypeOK, OneOfAKind
<1>2. /\ escalations \subseteq escalations'
      /\ escalations' \subseteq [of : Anchored, route : Routes, tier : 1..MaxTier, at : AnchorSeconds]
      /\ \A a, b \in escalations' : a.of = b.of /\ a.at = b.at => a = b
  BY AnchorsGrow DEF EscalationsGrow, AnchorTypeOK, OneOfAKind
<1>3. /\ resolutions \subseteq resolutions'
      /\ resolutions' \subseteq [of : Anchored, by : Writers, evidence : Evidence, at : AnchorSeconds]
      /\ \A a, b \in resolutions' : a.of = b.of => a = b
  BY AnchorsGrow DEF ResolutionsGrow, AnchorTypeOK, OneOfAKind
<1> QED BY <1>1, <1>2, <1>3 DEF AnchorTypeOK, OneOfAKind

-----------------------------------------------------------------------------
(* Routing.                                                                *)

LEMMA BlankRuleIsContent == BlankRule \in RuleContent
  BY RoutingAssumption DEF BlankRule, RuleContent

RoutingInv == RoutingTypeOK /\ RulesAreVersioned

LEMMA RoutingInitHolds == ASSUME RoutingInit PROVE RoutingInv
<1>1. (CHOOSE r \in Rules : TRUE) \in Rules
  BY RoutingAssumption
<1> QED BY <1>1, BlankRuleIsContent DEF RoutingInit, RoutingInv, RoutingTypeOK, RulesAreVersioned,
      RoutingStore!CopiesTell

\* Rules change, each by one version, and copies stay.
RuleVersions ==
  /\ rules' \in [Rules -> [version : Nat, value : RuleContent]]
  /\ \A r \in Rules : rules'[r] = rules[r] \/ rules'[r].version = rules[r].version + 1
  /\ UNCHANGED ruleCopies

LEMMA RoutingSteps ==
  ASSUME RoutingTypeOK, RoutingNext
  PROVE  RuleVersions \/ \E c \in RuleClients, r \in Rules : ReadRule(c, r)
<1>1. ASSUME RoutingInitLedger PROVE RuleVersions
  <2>1. ASSUME NEW r \in Rules
        PROVE  \/ rules'[r] = rules[r]
               \/ rules'[r] = [version |-> 1, value |-> BlankRule] /\ rules[r].version = 0
    <3>1. rules[r].version \in Nat
      BY DEF RoutingTypeOK
    <3>2. rules'[r] = IF r \in SeedRules /\ ~ Defined(r)
                        THEN [version |-> 1, value |-> BlankRule] ELSE rules[r]
      BY <1>1 DEF RoutingInitLedger
    <3>3. ~ Defined(r) => rules[r].version = 0
      BY <3>1 DEF Defined
    <3> QED BY <3>2, <3>3
  <2> QED BY <1>1, <2>1, BlankRuleIsContent DEF RoutingInitLedger, RuleVersions, RoutingTypeOK
<1>2. ASSUME NEW r \in Rules, NEW value \in RuleContent,
             CreateRoutingRule(r, value) \/ \E c \in RuleClients : UpdateRoutingRule(c, r, value)
      PROVE  RuleVersions
  <2>1. rules[r].version \in Nat /\ rules \in [Rules -> [version : Nat, value : RuleContent]]
    BY DEF RoutingTypeOK
  <2>2. rules' = [rules EXCEPT ![r] = [version |-> rules[r].version + 1, value |-> value]] /\ UNCHANGED ruleCopies
    <3>1. CASE CreateRoutingRule(r, value)
      <4>1. rules[r].version = 0
        BY <2>1, <3>1 DEF CreateRoutingRule, Defined
      <4> QED BY <3>1, <4>1 DEF CreateRoutingRule
    <3>2. CASE \E c \in RuleClients : UpdateRoutingRule(c, r, value)
      BY <2>1, <3>2 DEF UpdateRoutingRule
    <3> QED BY <1>2, <3>1, <3>2
  <2> QED BY <2>1, <2>2 DEF RuleVersions
<1> QED BY <1>1, <1>2 DEF RoutingNext

LEMMA RoutingNextHolds == ASSUME RoutingInv, [RoutingNext]_routingVars PROVE RoutingInv'
<1>1. CASE UNCHANGED routingVars
  BY <1>1 DEF routingVars, RoutingInv, RoutingTypeOK, RulesAreVersioned, RoutingStore!CopiesTell
<1>2. CASE RuleVersions
  <2>1. RoutingTypeOK'
    BY <1>2 DEF RuleVersions, RoutingInv, RoutingTypeOK
  <2>2. ASSUME NEW c \in RuleClients
        PROVE  LET own == ruleCopies[c]  now == rules'[own.key] IN
                 own.version <= now.version /\ (own.version = now.version => own.value = now.value)
    <3>1. ruleCopies[c].key \in Rules /\ ruleCopies[c].version \in Nat
      BY DEF RoutingInv, RoutingTypeOK
    <3>2. /\ rules[ruleCopies[c].key].version \in Nat /\ ruleCopies[c].version <= rules[ruleCopies[c].key].version
          /\ ruleCopies[c].version = rules[ruleCopies[c].key].version
               => ruleCopies[c].value = rules[ruleCopies[c].key].value
      BY <3>1 DEF RoutingInv, RulesAreVersioned, RoutingStore!CopiesTell, RoutingTypeOK
    <3> QED BY <1>2, <3>1, <3>2 DEF RuleVersions
  <2> QED BY <1>2, <2>1, <2>2 DEF RoutingInv, RulesAreVersioned, RoutingStore!CopiesTell, RuleVersions
<1>3. ASSUME NEW c \in RuleClients, NEW r \in Rules, ReadRule(c, r) PROVE RoutingInv'
  BY <1>3 DEF ReadRule, RoutingInv, RoutingTypeOK, RulesAreVersioned, RoutingStore!CopiesTell
<1> QED BY <1>1, <1>2, <1>3, RoutingSteps DEF RoutingInv

-----------------------------------------------------------------------------
(* The chain that GetEscalationChain follows, round by round.              *)

Rounds == 1..MaxEscalationDepth
IsChainOf(r, n, chain) ==
  chain = [i \in 1..n |-> IF i = 1 THEN <<RoutingRule(r)>> ELSE Extend(chain[i - 1])]

\* Whatever the rules, the rounds of the loop are defined.
LEMMA ChainExists ==
  ASSUME NEW r PROVE \A n \in Nat \ {0} : \E chain : IsChainOf(r, n, chain)
<1> DEFINE Bad == {n \in Nat \ {0} : ~ \E chain : IsChainOf(r, n, chain)}
<1> SUFFICES ASSUME Bad # {} PROVE FALSE
  OBVIOUS
<1>1. PICK n \in Bad : \A k \in Bad : n <= k
  BY LeastNumber
<1>2. CASE n = 1
  <2>1. IsChainOf(r, 1, [i \in 1..1 |-> <<RoutingRule(r)>>])
    BY DEF IsChainOf
  <2> QED BY <1>1, <1>2, <2>1
<1>3. CASE n # 1
  <2>1. n - 1 \in Nat \ {0} /\ n - 1 \notin Bad /\ n \in Nat
    BY <1>1, <1>3
  <2>2. PICK shorter : IsChainOf(r, n - 1, shorter)
    BY <2>1
  <2> DEFINE chain == [i \in 1..n |-> IF i = n THEN Extend(shorter[n - 1]) ELSE shorter[i]]
  <2>3. ASSUME NEW i \in 1..n
        PROVE  chain[i] = IF i = 1 THEN <<RoutingRule(r)>> ELSE Extend(chain[i - 1])
    <3>1. CASE i = n
      <4>1. chain[i] = Extend(shorter[n - 1]) /\ i - 1 \in 1..n /\ i - 1 # n /\ i # 1
        BY <1>3, <2>1, <3>1
      <4>2. chain[i - 1] = shorter[n - 1]
        BY <3>1, <4>1
      <4> QED BY <4>1, <4>2
    <3>2. CASE i # n
      <4>1. i \in 1..n - 1 /\ chain[i] = shorter[i]
        BY <2>1, <3>2
      <4>2. shorter[i] = IF i = 1 THEN <<RoutingRule(r)>> ELSE Extend(shorter[i - 1])
        BY <2>2, <4>1 DEF IsChainOf
      <4>3. i # 1 => i - 1 \in 1..n /\ i - 1 # n /\ chain[i - 1] = shorter[i - 1]
        BY <2>1, <4>1
      <4> QED BY <4>1, <4>2, <4>3
    <3> QED BY <3>1, <3>2
  <2>4. chain = [i \in 1..n |-> chain[i]]
    OBVIOUS
  <2> HIDE DEF chain
  <2>5. IsChainOf(r, n, chain)
    BY <2>3, <2>4 DEF IsChainOf
  <2> QED BY <1>1, <2>5
<1> QED BY <1>2, <1>3

LEMMA ChainIs ==
  ASSUME NEW r
  PROVE  \E chain : IsChainOf(r, MaxEscalationDepth, chain) /\ EscalationChain(r) = chain[MaxEscalationDepth]
<1> DEFINE C == CHOOSE chain : chain = [n \in 1..MaxEscalationDepth |->
                  IF n = 1 THEN <<RoutingRule(r)>> ELSE Extend(chain[n - 1])]
<1>1. EscalationChain(r) = C[MaxEscalationDepth]
  BY DEF EscalationChain
<1>2. \E chain : IsChainOf(r, MaxEscalationDepth, chain)
  BY ChainExists, RoutingAssumption
<1>3. C = [n \in 1..MaxEscalationDepth |-> IF n = 1 THEN <<RoutingRule(r)>> ELSE Extend(C[n - 1])]
  BY <1>2, Zenon DEF IsChainOf
<1>4. IsChainOf(r, MaxEscalationDepth, C)
  BY <1>3 DEF IsChainOf
<1> QED BY <1>1, <1>4

To(rule) == rules[rule].value.escalatesTo
Stuck(chain) == To(chain[Len(chain)]) = NoOffice \/ RulesFor(To(chain[Len(chain)])) = {}

\* What the loop has after its n-th round.
Leads(n, chain) ==
  /\ chain \in Seq(Rules) /\ Len(chain) \in 1..n
  /\ \A i \in 1..Len(chain) - 1 :
       /\ rules[chain[i + 1]].value.office = To(chain[i])
       /\ (\E s \in RulesFor(To(chain[i])) : CountryOf[s] = CountryOf[chain[1]])
            => CountryOf[chain[i + 1]] = CountryOf[chain[1]]
  /\ Len(chain) < n => Stuck(chain)

LEMMA FoundRule ==
  ASSUME NEW office, NEW country, RulesFor(office) # {}
  PROVE  /\ FindRule(office, country) \in RulesFor(office)
         /\ (\E s \in RulesFor(office) : CountryOf[s] = country) => CountryOf[FindRule(office, country)] = country
<1> DEFINE same == {r \in RulesFor(office) : CountryOf[r] = country}
<1>1. FindRule(office, country) =
        IF same # {} THEN CHOOSE r \in same : TRUE ELSE CHOOSE r \in RulesFor(office) : TRUE
  BY DEF FindRule
<1>2. CASE same # {}
  BY <1>1, <1>2
<1>3. CASE same = {}
  <2>1. (CHOOSE r \in RulesFor(office) : TRUE) \in RulesFor(office)
    OBVIOUS
  <2> QED BY <1>1, <1>3, <2>1
<1> QED BY <1>2, <1>3

LEMMA ExtendLeads ==
  ASSUME RoutingTypeOK, NEW n \in Nat \ {0}, NEW chain, Leads(n, chain) PROVE Leads(n + 1, Extend(chain))
<1> DEFINE len == Len(chain)  upper == To(chain[len])  link == FindRule(upper, CountryOf[chain[1]])
<1>1. /\ chain \in Seq(Rules) /\ len \in 1..n /\ len \in Nat
      /\ Extend(chain) = IF upper = NoOffice \/ RulesFor(upper) = {} THEN chain ELSE Append(chain, link)
  BY DEF Leads, Extend, To
<1>2. CASE upper = NoOffice \/ RulesFor(upper) = {}
  <2>1. Extend(chain) = chain /\ Stuck(chain)
    BY <1>1, <1>2 DEF Stuck
  <2> HIDE DEF len, upper, link
  <2>2. len \in 1..n + 1
    BY <1>1
  <2> QED BY <2>1, <2>2 DEF Leads, len
<1>3. CASE ~ (upper = NoOffice \/ RulesFor(upper) = {})
  <2> DEFINE longer == Append(chain, link)
  <2>1. /\ link \in RulesFor(upper) /\ link \in Rules /\ rules[link].value.office = upper
        /\ (\E s \in RulesFor(upper) : CountryOf[s] = CountryOf[chain[1]])
             => CountryOf[link] = CountryOf[chain[1]]
    <3>1. RulesFor(upper) # {}
      BY <1>3
    <3> HIDE DEF upper
    <3> QED BY <3>1, FoundRule DEF RulesFor
  <2>2. len = n
    BY <1>1, <1>3 DEF Leads, Stuck
  <2> HIDE DEF upper, link
  <2>3. /\ longer \in Seq(Rules) /\ Len(longer) = n + 1 /\ longer[n + 1] = link
        /\ \A i \in 1..n : longer[i] = chain[i]
    BY <1>1, <2>1, <2>2
  <2>4. Extend(chain) = longer
    BY <1>1, <1>3
  <2> HIDE DEF longer, len
  <2>5. ASSUME NEW i \in 1..n
        PROVE  /\ rules[longer[i + 1]].value.office = To(longer[i])
               /\ (\E s \in RulesFor(To(longer[i])) : CountryOf[s] = CountryOf[longer[1]])
                    => CountryOf[longer[i + 1]] = CountryOf[longer[1]]
    <3>0. 1 \in 1..n /\ longer[1] = chain[1] /\ longer[i] = chain[i]
      BY <2>3
    <3>1. CASE i = n
      BY <2>1, <2>2, <2>3, <3>0, <3>1 DEF upper
    <3>2. CASE i # n
      <4>1. i \in 1..n - 1 /\ i + 1 \in 1..n
        BY <3>2
      <4> QED BY <2>2, <2>3, <3>0, <4>1 DEF Leads, len
    <3> QED BY <3>1, <3>2
  <2>6. Len(longer) - 1 = n /\ Len(longer) \in 1..n + 1 /\ ~ (Len(longer) < n + 1)
    BY <2>3
  <2> QED BY <2>3, <2>4, <2>5, <2>6 DEF Leads
<1> QED BY <1>2, <1>3

LEMMA RoundsLead ==
  ASSUME RoutingTypeOK, NEW r \in Rules, NEW chain, IsChainOf(r, MaxEscalationDepth, chain)
  PROVE  \A n \in Rounds : Leads(n, chain[n])
<1> DEFINE Bad == {n \in Rounds : ~ Leads(n, chain[n])}
<1> SUFFICES ASSUME Bad # {} PROVE FALSE
  OBVIOUS
<1>0. Rounds \subseteq Nat \ {0} /\ MaxEscalationDepth \in Nat
  BY RoutingAssumption DEF Rounds
<1>1. PICK n \in Bad : \A k \in Bad : n <= k
  BY <1>0, LeastNumber
<1>2. chain[n] = IF n = 1 THEN <<RoutingRule(r)>> ELSE Extend(chain[n - 1])
  BY <1>1 DEF IsChainOf, Rounds
<1>3. CASE n = 1
  <2>1. RoutingRule(r) \in Rules
    BY RoutingAssumption DEF RoutingRule
  <2>2. chain[n] \in Seq(Rules) /\ Len(chain[n]) = 1
    BY <1>2, <1>3, <2>1
  <2>3. Leads(n, chain[n])
    BY <1>3, <2>2 DEF Leads
  <2> QED BY <1>1, <2>3
<1>4. CASE n # 1
  <2>1. n - 1 \in Rounds /\ n - 1 \notin Bad /\ n - 1 \in Nat \ {0} /\ (n - 1) + 1 = n
    BY <1>0, <1>1, <1>4 DEF Rounds
  <2>2. Leads(n - 1, chain[n - 1])
    BY <2>1
  <2>3. Leads(n, Extend(chain[n - 1]))
    <3>1. Leads((n - 1) + 1, Extend(chain[n - 1]))
      BY <2>1, <2>2, ExtendLeads
    <3> QED BY <2>1, <3>1
  <2> QED BY <1>1, <1>2, <1>4, <2>3
<1> QED BY <1>3, <1>4

LEMMA ChainsDoLead == ASSUME RoutingTypeOK PROVE ChainsLead
<1> SUFFICES ASSUME NEW r \in Rules
             PROVE  LET chain == EscalationChain(r)  n == Len(chain)
                        To2(i) == rules[chain[i]].value.escalatesTo
                    IN /\ n \in 1..MaxEscalationDepth
                       /\ \A i \in 1..n - 1 :
                            /\ rules[chain[i + 1]].value.office = To2(i)
                            /\ (\E s \in RulesFor(To2(i)) : CountryOf[s] = CountryOf[chain[1]])
                                 => CountryOf[chain[i + 1]] = CountryOf[chain[1]]
                       /\ n < MaxEscalationDepth => To2(n) = NoOffice \/ RulesFor(To2(n)) = {}
  BY DEF ChainsLead
<1>1. PICK chain : IsChainOf(r, MaxEscalationDepth, chain) /\ EscalationChain(r) = chain[MaxEscalationDepth]
  BY ChainIs
<1>2. MaxEscalationDepth \in Rounds
  BY RoutingAssumption DEF Rounds
<1>3. Leads(MaxEscalationDepth, EscalationChain(r))
  BY <1>1, <1>2, RoundsLead
<1> QED BY <1>3 DEF Leads, Stuck, To

-----------------------------------------------------------------------------
(* Sums.  Total is a fold over a set, one member chosen after the other;   *)
(* that it does not depend on the choice, a smallest counterexample shows. *)

LEMMA SmallestSet ==
  ASSUME NEW B, B # {}, \A s \in B : IsFiniteSet(s)
  PROVE  \E s \in B : \A t \in B : Cardinality(s) <= Cardinality(t)
<1>1. {Cardinality(s) : s \in B} \in SUBSET Nat /\ {Cardinality(s) : s \in B} # {}
  BY FS_CardinalityType
<1>2. PICK n \in {Cardinality(s) : s \in B} : \A k \in {Cardinality(s) : s \in B} : n <= k
  BY <1>1, LeastNumber
<1> QED BY <1>2

Pick(s) == CHOOSE x \in s : TRUE
IsSumOver(U, sum) ==
  sum = [s \in SUBSET U |-> IF s = {} THEN 0 ELSE Pick(s).amount + sum[s \ {Pick(s)}]]

LEMMA SubsetIsFinite == ASSUME NEW U, IsFiniteSet(U), NEW s \in SUBSET U PROVE IsFiniteSet(s)
  BY FS_Subset

LEMMA Smaller ==
  ASSUME NEW s, IsFiniteSet(s), NEW x \in s
  PROVE  IsFiniteSet(s \ {x}) /\ Cardinality(s \ {x}) < Cardinality(s) /\ Cardinality(s) \in Nat
         /\ Cardinality(s \ {x}) \in Nat
<1>1. IsFiniteSet(s \ {x}) /\ Cardinality(s \ {x}) = Cardinality(s) - 1
  BY FS_RemoveElement
<1>2. Cardinality(s) \in Nat /\ Cardinality(s \ {x}) \in Nat
  BY <1>1, FS_CardinalityType
<1> QED BY <1>1, <1>2

\* A sum over every subset of a set exists if it does over the subsets of every
\* smaller one.
LEMMA SumsAgree ==
  ASSUME NEW U, NEW V, IsFiniteSet(U), NEW f, NEW g, IsSumOver(U, f), IsSumOver(V, g),
         NEW s \in (SUBSET U) \cap (SUBSET V)
  PROVE  f[s] = g[s]
<1> DEFINE Bad == {t \in (SUBSET U) \cap (SUBSET V) : f[t] # g[t]}
<1> SUFFICES ASSUME Bad # {} PROVE FALSE
  OBVIOUS
<1>0. \A t \in Bad : IsFiniteSet(t)
  BY SubsetIsFinite
<1>1. PICK t \in Bad : \A u \in Bad : Cardinality(t) <= Cardinality(u)
  <2> HIDE DEF Bad
  <2> QED BY <1>0, SmallestSet
<1>2. /\ t \in SUBSET U /\ t \in SUBSET V /\ f[t] # g[t] /\ IsFiniteSet(t)
  <2>1. t \in (SUBSET U) \cap (SUBSET V) /\ f[t] # g[t]
    BY <1>1
  <2> QED BY <2>1, SubsetIsFinite
<1>3. /\ f[t] = IF t = {} THEN 0 ELSE Pick(t).amount + f[t \ {Pick(t)}]
      /\ g[t] = IF t = {} THEN 0 ELSE Pick(t).amount + g[t \ {Pick(t)}]
  BY <1>2 DEF IsSumOver
<1>4. t # {} /\ Pick(t) \in t
  BY <1>2, <1>3 DEF Pick
<1>5. t \ {Pick(t)} \in (SUBSET U) \cap (SUBSET V) /\ t \ {Pick(t)} \notin Bad
  <2>1. /\ Cardinality(t \ {Pick(t)}) < Cardinality(t) /\ Cardinality(t) \in Nat
        /\ Cardinality(t \ {Pick(t)}) \in Nat
    BY <1>2, <1>4, Smaller
  <2>2. t \ {Pick(t)} \in (SUBSET U) \cap (SUBSET V)
    BY <1>2
  <2> HIDE DEF Bad
  <2>3. t \ {Pick(t)} \notin Bad
    BY <1>1, <2>1
  <2> QED BY <2>2, <2>3
<1> QED BY <1>2, <1>3, <1>5

LEMMA SumExists == ASSUME NEW W, IsFiniteSet(W) PROVE \E sum : IsSumOver(W, sum)
<1> DEFINE Bad == {U \in SUBSET W : ~ \E sum : IsSumOver(U, sum)}
<1> SUFFICES ASSUME Bad # {} PROVE FALSE
  OBVIOUS
<1>1. PICK U \in Bad : \A V \in Bad : Cardinality(U) <= Cardinality(V)
  BY SubsetIsFinite, SmallestSet
<1>2. U \in SUBSET W /\ IsFiniteSet(U)
  BY <1>1, SubsetIsFinite
<1> DEFINE F(V) == CHOOSE sum : IsSumOver(V, sum)
           sum == [s \in SUBSET U |-> IF s = {} THEN 0 ELSE Pick(s).amount + F(s \ {Pick(s)})[s \ {Pick(s)}]]
<1>3. ASSUME NEW s \in SUBSET U, NEW x \in s
      PROVE  IsSumOver(s \ {x}, F(s \ {x})) /\ IsFiniteSet(s \ {x}) /\ s \ {x} \in SUBSET U
  <2>1. IsFiniteSet(s) /\ Cardinality(s) <= Cardinality(U) /\ Cardinality(U) \in Nat
    BY <1>2, FS_Subset, FS_CardinalityType
  <2>2. /\ IsFiniteSet(s \ {x}) /\ Cardinality(s \ {x}) < Cardinality(s) /\ Cardinality(s) \in Nat
        /\ Cardinality(s \ {x}) \in Nat
    BY <2>1, Smaller
  <2>3. s \ {x} \in SUBSET W /\ s \ {x} \notin Bad
    BY <1>1, <1>2, <2>1, <2>2
  <2>4. \E g : IsSumOver(s \ {x}, g)
    BY <2>3
  <2> QED BY <2>2, <2>4, Zenon
<1>4. ASSUME NEW s \in SUBSET U, s # {}
      PROVE  sum[s] = Pick(s).amount + sum[s \ {Pick(s)}]
  <2> DEFINE p == Pick(s)  r == s \ {p}
  <2>1. p \in s
    BY <1>4 DEF Pick
  <2>2. /\ IsSumOver(r, F(r)) /\ IsFiniteSet(r) /\ r \in SUBSET U
        /\ sum[s] = p.amount + F(r)[r]
    BY <1>3, <1>4, <2>1
  <2>3. sum[r] = F(r)[r]
    <3>1. F(r)[r] = IF r = {} THEN 0 ELSE Pick(r).amount + F(r)[r \ {Pick(r)}]
      BY <2>2 DEF IsSumOver
    <3>2. sum[r] = IF r = {} THEN 0 ELSE Pick(r).amount + F(r \ {Pick(r)})[r \ {Pick(r)}]
      BY <2>2
    <3>3. ASSUME r # {} PROVE F(r)[r \ {Pick(r)}] = F(r \ {Pick(r)})[r \ {Pick(r)}]
      <4>1. Pick(r) \in r
        BY <3>3 DEF Pick
      <4>2. IsSumOver(r \ {Pick(r)}, F(r \ {Pick(r)}))
        BY <1>3, <2>2, <4>1
      <4> DEFINE q == r \ {Pick(r)}  f == F(r)  g == F(q)
      <4>3. IsFiniteSet(r) /\ IsSumOver(r, f)
        BY <2>2
      <4>5. IsSumOver(q, g)
        BY <4>2
      <4>6. q \in (SUBSET r) \cap (SUBSET q)
        <5>1. q \subseteq r
          OBVIOUS
        <5> HIDE DEF q, r
        <5> QED BY <5>1
      <4> HIDE DEF f, g, q
      <4>4. f[q] = g[q]
        BY <4>3, <4>5, <4>6, SumsAgree
      <4> QED BY <4>4 DEF f, g, q
    <3> QED BY <3>1, <3>2, <3>3
  <2> QED BY <2>2, <2>3
<1>5. sum = [s \in SUBSET U |-> IF s = {} THEN 0 ELSE Pick(s).amount + sum[s \ {Pick(s)}]]
  <2>1. sum[{}] = 0
    OBVIOUS
  <2>2. sum = [s \in SUBSET U |-> sum[s]]
    OBVIOUS
  <2> HIDE DEF sum
  <2> QED BY <1>4, <2>1, <2>2
<1> HIDE DEF sum
<1> QED BY <1>1, <1>5 DEF IsSumOver

LEMMA TotalIs ==
  ASSUME NEW S, IsFiniteSet(S) PROVE \E sum : IsSumOver(S, sum) /\ Total(S) = sum[S]
<1> DEFINE C == CHOOSE sum : sum = [s \in SUBSET S |->
                  IF s = {} THEN 0 ELSE (CHOOSE x \in s : TRUE).amount + sum[s \ {CHOOSE x \in s : TRUE}]]
<1>1. Total(S) = C[S]
  BY DEF Total, MapThenSumSet, MapThenFoldSet
<1>2. IsSumOver(S, C)
  BY SumExists, Zenon DEF IsSumOver, Pick
<1> QED BY <1>1, <1>2

LEMMA TotalOfNone == Total({}) = 0
<1>1. PICK sum : IsSumOver({}, sum) /\ Total({}) = sum[{}]
  BY TotalIs, FS_EmptySet
<1> QED BY <1>1 DEF IsSumOver

\* One step of the fold, with the member it happens to choose.
LEMMA TotalUnfolds ==
  ASSUME NEW S, IsFiniteSet(S), S # {}
  PROVE  Pick(S) \in S /\ Total(S) = Pick(S).amount + Total(S \ {Pick(S)})
<1> DEFINE p == Pick(S)  R == S \ {p}
<1>1. p \in S
  BY DEF Pick
<1>2. PICK f : IsSumOver(S, f) /\ Total(S) = f[S]
  BY TotalIs
<1>3. IsFiniteSet(R)
  BY FS_Subset
<1>4. PICK g : IsSumOver(R, g) /\ Total(R) = g[R]
  BY <1>3, TotalIs
<1>5. f[R] = g[R]
  <2>1. R \in (SUBSET S) \cap (SUBSET R)
    <3>1. R \subseteq S
      OBVIOUS
    <3> HIDE DEF R
    <3> QED BY <3>1
  <2> HIDE DEF R
  <2> QED BY <1>2, <1>4, <2>1, SumsAgree
<1>6. f[S] = p.amount + f[R]
  BY <1>2 DEF IsSumOver
<1> QED BY <1>1, <1>2, <1>4, <1>5, <1>6

LEMMA TotalIsNumber ==
  ASSUME NEW S, IsFiniteSet(S), \A x \in S : x.amount \in Nat PROVE Total(S) \in Nat
<1> DEFINE Bad == {s \in SUBSET S : Total(s) \notin Nat}
<1> SUFFICES ASSUME Bad # {} PROVE FALSE
  OBVIOUS
<1>0. \A s \in Bad : IsFiniteSet(s)
  BY SubsetIsFinite
<1>1. PICK s \in Bad : \A t \in Bad : Cardinality(s) <= Cardinality(t)
  <2> HIDE DEF Bad
  <2> QED BY <1>0, SmallestSet
<1>2. IsFiniteSet(s) /\ s # {} /\ s \in SUBSET S
  BY <1>0, <1>1, TotalOfNone
<1>3. Pick(s) \in s /\ Total(s) = Pick(s).amount + Total(s \ {Pick(s)})
  BY <1>2, TotalUnfolds
<1>4. s \ {Pick(s)} \in SUBSET S /\ s \ {Pick(s)} \notin Bad
  <2>1. /\ Cardinality(s \ {Pick(s)}) < Cardinality(s) /\ Cardinality(s) \in Nat
        /\ Cardinality(s \ {Pick(s)}) \in Nat
    BY <1>2, <1>3, Smaller
  <2>2. s \ {Pick(s)} \in SUBSET S
    BY <1>2
  <2> HIDE DEF Bad
  <2>3. s \ {Pick(s)} \notin Bad
    BY <1>1, <2>1
  <2> QED BY <2>2, <2>3
<1>5. Total(s \ {Pick(s)}) \in Nat /\ Pick(s).amount \in Nat
  BY <1>2, <1>3, <1>4
<1> QED BY <1>1, <1>3, <1>5

\* Whichever member is taken out, it brought its amount.
LEMMA TotalWithout ==
  ASSUME NEW S, IsFiniteSet(S), \A x \in S : x.amount \in Nat
  PROVE  \A x \in S : Total(S) = x.amount + Total(S \ {x})
<1> DEFINE Bad == {s \in SUBSET S : ~ \A x \in s : Total(s) = x.amount + Total(s \ {x})}
<1> SUFFICES ASSUME Bad # {} PROVE FALSE
  OBVIOUS
<1>0. \A s \in Bad : IsFiniteSet(s)
  BY SubsetIsFinite
<1>1. PICK s \in Bad : \A t \in Bad : Cardinality(s) <= Cardinality(t)
  <2> HIDE DEF Bad
  <2> QED BY <1>0, SmallestSet
<1>2. IsFiniteSet(s) /\ s \in SUBSET S
  BY <1>0, <1>1
<1>3. PICK x \in s : Total(s) # x.amount + Total(s \ {x})
  BY <1>1
<1> DEFINE c == Pick(s)
<1>4. c \in s /\ Total(s) = c.amount + Total(s \ {c})
  BY <1>2, <1>3, TotalUnfolds
<1>5. x # c
  BY <1>3, <1>4
<1>6. ASSUME NEW y \in s, NEW z \in s, z # y
      PROVE  Total(s \ {y}) = z.amount + Total((s \ {y}) \ {z})
  <2>1. /\ Cardinality(s \ {y}) < Cardinality(s) /\ Cardinality(s) \in Nat
        /\ Cardinality(s \ {y}) \in Nat
    BY <1>2, Smaller
  <2>2. s \ {y} \in SUBSET S /\ z \in s \ {y}
    BY <1>2, <1>6
  <2>3. s \ {y} \notin Bad
    <3> HIDE DEF Bad
    <3> QED BY <1>1, <2>1
  <2> QED BY <2>2, <2>3
<1> HIDE DEF c
<1>7. (s \ {c}) \ {x} = (s \ {x}) \ {c}
  OBVIOUS
<1>8. Total(s \ {c}) = x.amount + Total((s \ {x}) \ {c})
  BY <1>4, <1>5, <1>6, <1>7
<1>9. Total(s \ {x}) = c.amount + Total((s \ {x}) \ {c})
  BY <1>4, <1>5, <1>6
<1>10. Total((s \ {x}) \ {c}) \in Nat /\ x.amount \in Nat /\ c.amount \in Nat
  <2>1. IsFiniteSet((s \ {x}) \ {c}) /\ \A y \in (s \ {x}) \ {c} : y.amount \in Nat
    BY <1>2, FS_Subset
  <2>2. x \in S /\ c \in S
    BY <1>2, <1>4
  <2> QED BY <2>1, <2>2, TotalIsNumber
<1> DEFINE rest == Total((s \ {x}) \ {c})  a == x.amount  b == c.amount
<1>11. Total(s) = b + (a + rest) /\ Total(s \ {x}) = b + rest /\ Total(s) # a + Total(s \ {x})
  BY <1>3, <1>4, <1>8, <1>9
<1>12. rest \in Nat /\ a \in Nat /\ b \in Nat
  BY <1>10
<1> HIDE DEF rest, a, b
<1> QED BY <1>11, <1>12

LEMMA TotalWith ==
  ASSUME NEW S, IsFiniteSet(S), NEW x, x \notin S, \A y \in S \cup {x} : y.amount \in Nat
  PROVE  Total(S \cup {x}) = Total(S) + x.amount /\ Total(S) \in Nat
<1>1. IsFiniteSet(S \cup {x}) /\ (S \cup {x}) \ {x} = S /\ x \in S \cup {x}
  BY FS_AddElement
<1>2. Total(S \cup {x}) = x.amount + Total((S \cup {x}) \ {x})
  BY <1>1, TotalWithout
<1>3. Total(S) \in Nat /\ x.amount \in Nat
  BY TotalIsNumber
<1> DEFINE a == x.amount  n == Total(S)
<1>4. Total(S \cup {x}) = a + n /\ a \in Nat /\ n \in Nat
  BY <1>1, <1>2, <1>3
<1> HIDE DEF a, n
<1>5. Total(S \cup {x}) = n + a
  BY <1>4
<1> QED BY <1>4, <1>5 DEF a, n

-----------------------------------------------------------------------------
(* The budget registry.                                                    *)

Own(records, d) == {s \in records : s.road = d}
Summaries == [sanctioned : Nat, released : Nat, spent : Nat, flags : SUBSET Flag]

FlagsTellOf(m) ==
  /\ "SPENT_EXCEEDS_RELEASED" \in m.flags <=> m.spent > m.released
  /\ "RELEASE_EXCEEDS_SANCTION" \in m.flags <=> m.released > m.sanctioned
  /\ "ZERO_SPEND_AFTER_6_MONTHS" \in m.flags => m.released > 0 /\ m.spent = 0
  /\ "LOW_UTILIZATION" \in m.flags => LowUse(m)
AddsUp(m, d, sanctioned, released, spent) ==
  /\ m.sanctioned = Total(Own(sanctioned, d))
  /\ m.released = Total(Own(released, d))
  /\ m.spent = Total(Own(spent, d))

RecordsAreFinite == IsFiniteSet(sanctions) /\ IsFiniteSet(releases) /\ IsFiniteSet(expenditures)
KeysAreUnique(records) == \A s, t \in records : s.road = t.road /\ s.id = t.id => s = t
Traceable(sanctioned, released, spent) ==
  /\ \A e \in spent : Recorded(released, e.road, e.for)
  /\ \A r \in released : Recorded(sanctioned, r.road, r.for)
\* A summary that InitLedger takes for new belongs to a road without records.
NewRoadsAreEmpty ==
  \A d \in BudgetRoads \ drifted : summary[d] = Fresh =>
    Own(sanctions, d) = {} /\ Own(releases, d) = {} /\ Own(expenditures, d) = {}

BudgetInv ==
  /\ BudgetTypeOK /\ RecordsAreFinite
  /\ Traceable(sanctions, releases, expenditures)
  /\ KeysAreUnique(sanctions) /\ KeysAreUnique(releases) /\ KeysAreUnique(expenditures)
  /\ \A d \in BudgetRoads : FlagsTellOf(summary[d])
  /\ \A d \in BudgetRoads \ drifted : AddsUp(summary[d], d, sanctions, releases, expenditures)
  /\ NewRoadsAreEmpty

LEMMA BudgetInvIsEnough == BudgetInv => BudgetInvariant
<1> SUFFICES ASSUME BudgetInv PROVE BudgetInvariant
  OBVIOUS
<1>1. MoneyTraceable
  BY DEF BudgetInv, MoneyTraceable, Traceable, KeysAreUnique
<1>2. TotalsAreSums
  BY DEF BudgetInv, TotalsAreSums, AddsUp, Own, GetBudgetHistory
<1>3. FlagsTell
  BY DEF BudgetInv, FlagsTell, FlagsTellOf, GetAnomalousRoads
<1> QED BY <1>1, <1>2, <1>3 DEF BudgetInv, BudgetInvariant

\* updateAnomalyFlags changes nothing but the flags, and these tell.
LEMMA FlagsAreSound ==
  ASSUME NEW m \in Summaries, NEW d, NEW ts
  PROVE  /\ Flagged(d, m, ts) \in Summaries
         /\ Flagged(d, m, ts).sanctioned = m.sanctioned
         /\ Flagged(d, m, ts).released = m.released
         /\ Flagged(d, m, ts).spent = m.spent
         /\ FlagsTellOf(Flagged(d, m, ts))
<1> DEFINE flags == FlagsOf(d, m, ts)  f == Flagged(d, m, ts)
<1>1. /\ flags \in SUBSET Flag
      /\ "SPENT_EXCEEDS_RELEASED" \in flags <=> m.spent > m.released
      /\ "RELEASE_EXCEEDS_SANCTION" \in flags <=> m.released > m.sanctioned
      /\ "ZERO_SPEND_AFTER_6_MONTHS" \in flags => m.released > 0 /\ m.spent = 0
      /\ "LOW_UTILIZATION" \in flags => LowUse(m)
  BY DEF FlagsOf, Flag
<1> HIDE DEF flags
<1>2. f = [m EXCEPT !.flags = flags]
  BY DEF Flagged, flags
<1>3. /\ f \in Summaries /\ f.sanctioned = m.sanctioned /\ f.released = m.released
      /\ f.spent = m.spent /\ f.flags = flags
  BY <1>1, <1>2 DEF Summaries
<1> HIDE DEF f
<1>4. LowUse(f) <=> LowUse(m)
  BY <1>3 DEF LowUse
<1> QED BY <1>1, <1>3, <1>4 DEF FlagsTellOf, f

LEMMA OwnIsFinite ==
  ASSUME NEW records, IsFiniteSet(records), NEW d PROVE IsFiniteSet(Own(records, d))
  BY FS_Subset DEF Own

\* A new record adds its amount to its road's total and to no other's.
LEMMA RecordAdds ==
  ASSUME NEW records, IsFiniteSet(records), \A s \in records : s.amount \in Nat,
         NEW x, x.amount \in Nat, ~Recorded(records, x.road, x.id)
  PROVE  /\ IsFiniteSet(records \cup {x})
         /\ \A d : d # x.road => Own(records \cup {x}, d) = Own(records, d)
         /\ Total(Own(records \cup {x}, x.road)) = Total(Own(records, x.road)) + x.amount
         /\ KeysAreUnique(records) => KeysAreUnique(records \cup {x})
<1>1. x \notin Own(records, x.road)
  BY DEF Own, Recorded
<1>2. Own(records \cup {x}, x.road) = Own(records, x.road) \cup {x}
  BY DEF Own
<1>3. \A s \in Own(records, x.road) \cup {x} : s.amount \in Nat
  BY DEF Own
<1>4. Total(Own(records, x.road) \cup {x}) = Total(Own(records, x.road)) + x.amount
  BY <1>1, <1>3, OwnIsFinite, TotalWith
<1>5. IsFiniteSet(records \cup {x})
  BY FS_AddElement
<1>6. \A d : d # x.road => Own(records \cup {x}, d) = Own(records, d)
  BY DEF Own
<1>7. KeysAreUnique(records) => KeysAreUnique(records \cup {x})
  BY DEF KeysAreUnique, Recorded
<1> QED BY <1>2, <1>4, <1>5, <1>6, <1>7

LEMMA BudgetInitHolds == BudgetInit => BudgetInv
<1> SUFFICES ASSUME BudgetInit PROVE BudgetInv
  OBVIOUS
<1>1. Fresh \in Summaries /\ FlagsTellOf(Fresh)
  BY DEF Fresh, Summaries, FlagsTellOf
<1>2. \A d \in BudgetRoads : summary[d] = Fresh
  BY DEF BudgetInit
<1>3. BudgetTypeOK
  BY <1>1 DEF BudgetInit, BudgetTypeOK, Summaries
<1>4. \A d : Own({}, d) = {}
  BY DEF Own
<1>5. \A d \in BudgetRoads : AddsUp(summary[d], d, sanctions, releases, expenditures)
  BY <1>2, <1>4, TotalOfNone DEF BudgetInit, AddsUp, Fresh
<1>6. RecordsAreFinite
  BY FS_EmptySet DEF BudgetInit, RecordsAreFinite
<1>7. Traceable(sanctions, releases, expenditures)
      /\ KeysAreUnique(sanctions) /\ KeysAreUnique(releases) /\ KeysAreUnique(expenditures)
  BY DEF BudgetInit, Traceable, KeysAreUnique
<1>8. NewRoadsAreEmpty
  BY <1>4 DEF BudgetInit, NewRoadsAreEmpty
<1> QED BY <1>1, <1>2, <1>3, <1>5, <1>6, <1>7, <1>8 DEF BudgetInv

LEMMA SanctionHolds ==
  ASSUME BudgetInv, NEW msp, NEW d \in BudgetRoads, NEW i \in BudgetIds, NEW n \in Amounts,
         NEW ts \in Times, RecordSanction(msp, d, i, n, ts)
  PROVE  BudgetInv'
<1> DEFINE x == [road |-> d, id |-> i, amount |-> n, at |-> ts]
           m == Adding(summary[d], "sanctioned", n)
           f == Flagged(d, m, ts)
<1>1. n \in Nat \ {0} /\ ts \in Nat
  BY BudgetAssumption
<1>2. summary[d] \in Summaries /\ \A b \in BudgetRoads : summary[b] \in Summaries
  BY DEF BudgetInv, BudgetTypeOK, Summaries
<1>3. /\ m \in Summaries /\ m.sanctioned = summary[d].sanctioned + n
      /\ m.released = summary[d].released /\ m.spent = summary[d].spent
  BY <1>1, <1>2 DEF Summaries, Adding
<1>4. /\ sanctions' = sanctions \cup {x} /\ summary' = [summary EXCEPT ![d] = f]
      /\ UNCHANGED <<releases, expenditures, drifted>> /\ ~Recorded(sanctions, d, i)
  <2>1. sanctions' = sanctions \cup {x}
    BY DEF RecordSanction
  <2>2. UNCHANGED <<releases, expenditures, drifted>> /\ ~Recorded(sanctions, d, i)
    BY DEF RecordSanction
  <2>3. summary' = [summary EXCEPT ![d] = f]
    BY Zenon DEF RecordSanction
  <2> QED BY <2>1, <2>2, <2>3
<1> HIDE DEF m
<1>5. /\ f \in Summaries /\ f.sanctioned = summary[d].sanctioned + n
      /\ f.released = summary[d].released /\ f.spent = summary[d].spent /\ FlagsTellOf(f)
  BY <1>3, FlagsAreSound
<1> HIDE DEF f
<1>6. /\ x \in [road : BudgetRoads, id : BudgetIds, amount : Nat, at : Times]
      /\ x.road = d /\ x.id = i /\ x.amount = n
  BY <1>1
<1> HIDE DEF x
<1>7. \A s \in sanctions : s.amount \in Nat
  BY DEF BudgetInv, BudgetTypeOK
<1>8. /\ IsFiniteSet(sanctions') /\ \A b : b # d => Own(sanctions', b) = Own(sanctions, b)
      /\ Total(Own(sanctions', d)) = Total(Own(sanctions, d)) + n
      /\ KeysAreUnique(sanctions')
  BY <1>1, <1>4, <1>6, <1>7, RecordAdds DEF BudgetInv, RecordsAreFinite
<1>9. summary'[d] = f /\ \A b \in BudgetRoads : b # d => summary'[b] = summary[b]
  BY <1>4 DEF BudgetInv, BudgetTypeOK
<1>10. BudgetTypeOK'
  BY <1>4, <1>5, <1>6 DEF BudgetInv, BudgetTypeOK, Summaries
<1>11. RecordsAreFinite'
  BY <1>4, <1>8 DEF BudgetInv, RecordsAreFinite
<1>12. Traceable(sanctions, releases, expenditures)'
  BY <1>4 DEF BudgetInv, Traceable, Recorded
<1>13. \A b \in BudgetRoads : FlagsTellOf(summary'[b])
  BY <1>5, <1>9 DEF BudgetInv
<1>14. \A b \in BudgetRoads \ drifted' : AddsUp(summary'[b], b, sanctions', releases', expenditures')
  <2> SUFFICES ASSUME NEW b \in BudgetRoads \ drifted
               PROVE  AddsUp(summary'[b], b, sanctions', releases', expenditures')
    BY <1>4
  <2>1. AddsUp(summary[b], b, sanctions, releases, expenditures)
    BY DEF BudgetInv
  <2>2. CASE b = d
    BY <1>4, <1>5, <1>8, <1>9, <2>1, <2>2 DEF AddsUp
  <2>3. CASE b # d
    BY <1>4, <1>8, <1>9, <2>1, <2>3 DEF AddsUp
  <2> QED BY <2>2, <2>3
<1>15. NewRoadsAreEmpty'
  <2> SUFFICES ASSUME NEW b \in BudgetRoads \ drifted, summary'[b] = Fresh
               PROVE  /\ Own(sanctions', b) = {} /\ Own(releases, b) = {}
                      /\ Own(expenditures, b) = {}
    BY <1>4 DEF NewRoadsAreEmpty
  <2>1. b # d
    BY <1>1, <1>2, <1>5, <1>9 DEF Fresh, Summaries
  <2> QED BY <1>8, <1>9, <2>1 DEF BudgetInv, NewRoadsAreEmpty
<1> QED BY <1>4, <1>8, <1>10, <1>11, <1>12, <1>13, <1>14, <1>15 DEF BudgetInv

LEMMA ReleaseHolds ==
  ASSUME BudgetInv, NEW msp, NEW d \in BudgetRoads, NEW i \in BudgetIds, NEW for \in BudgetIds, NEW n \in Amounts,
         NEW ts \in Times, RecordRelease(msp, d, i, for, n, ts)
  PROVE  BudgetInv'
<1> DEFINE x == [road |-> d, id |-> i, for |-> for, amount |-> n, at |-> ts]
           m == Adding(summary[d], "released", n)
           f == Flagged(d, m, ts)
<1>1. n \in Nat \ {0} /\ ts \in Nat
  BY BudgetAssumption
<1>2. summary[d] \in Summaries /\ \A b \in BudgetRoads : summary[b] \in Summaries
  BY DEF BudgetInv, BudgetTypeOK, Summaries
<1>3. /\ m \in Summaries /\ m.sanctioned = summary[d].sanctioned
      /\ m.released = summary[d].released + n
      /\ m.spent = summary[d].spent
  BY <1>1, <1>2 DEF Summaries, Adding
<1>4. /\ releases' = releases \cup {x} /\ summary' = [summary EXCEPT ![d] = f]
      /\ UNCHANGED <<sanctions, expenditures, drifted>> /\ ~Recorded(releases, d, i) /\ Recorded(sanctions, d, for)
  <2>1. releases' = releases \cup {x}
    BY DEF RecordRelease
  <2>2. UNCHANGED <<sanctions, expenditures, drifted>> /\ ~Recorded(releases, d, i) /\ Recorded(sanctions, d, for)
    BY DEF RecordRelease
  <2>3. summary' = [summary EXCEPT ![d] = f]
    BY Zenon DEF RecordRelease
  <2> QED BY <2>1, <2>2, <2>3
<1> HIDE DEF m
<1>5. /\ f \in Summaries /\ f.sanctioned = summary[d].sanctioned
      /\ f.released = summary[d].released + n
      /\ f.spent = summary[d].spent /\ FlagsTellOf(f)
  BY <1>3, FlagsAreSound
<1> HIDE DEF f
<1>6. /\ x \in [road : BudgetRoads, id : BudgetIds, for : BudgetIds, amount : Nat, at : Times]
      /\ x.road = d /\ x.id = i /\ x.amount = n /\ x.for = for
  BY <1>1
<1> HIDE DEF x
<1>7. \A s \in releases : s.amount \in Nat
  BY DEF BudgetInv, BudgetTypeOK
<1>8. /\ IsFiniteSet(releases') /\ \A b : b # d => Own(releases', b) = Own(releases, b)
      /\ Total(Own(releases', d)) = Total(Own(releases, d)) + n
      /\ KeysAreUnique(releases')
  BY <1>1, <1>4, <1>6, <1>7, RecordAdds DEF BudgetInv, RecordsAreFinite
<1>9. summary'[d] = f /\ \A b \in BudgetRoads : b # d => summary'[b] = summary[b]
  BY <1>4 DEF BudgetInv, BudgetTypeOK
<1>10. BudgetTypeOK'
  BY <1>4, <1>5, <1>6 DEF BudgetInv, BudgetTypeOK, Summaries
<1>11. RecordsAreFinite'
  BY <1>4, <1>8 DEF BudgetInv, RecordsAreFinite
<1>12. Traceable(sanctions, releases, expenditures)'
  BY <1>4, <1>6 DEF BudgetInv, Traceable, Recorded
<1>13. \A b \in BudgetRoads : FlagsTellOf(summary'[b])
  BY <1>5, <1>9 DEF BudgetInv
<1>14. \A b \in BudgetRoads \ drifted' : AddsUp(summary'[b], b, sanctions', releases', expenditures')
  <2> SUFFICES ASSUME NEW b \in BudgetRoads \ drifted
               PROVE  AddsUp(summary'[b], b, sanctions', releases', expenditures')
    BY <1>4
  <2>1. AddsUp(summary[b], b, sanctions, releases, expenditures)
    BY DEF BudgetInv
  <2>2. CASE b = d
    BY <1>4, <1>5, <1>8, <1>9, <2>1, <2>2 DEF AddsUp
  <2>3. CASE b # d
    BY <1>4, <1>8, <1>9, <2>1, <2>3 DEF AddsUp
  <2> QED BY <2>2, <2>3
<1>15. NewRoadsAreEmpty'
  <2> SUFFICES ASSUME NEW b \in BudgetRoads \ drifted, summary'[b] = Fresh
               PROVE  /\ Own(sanctions, b) = {}
                      /\ Own(releases', b) = {}
                      /\ Own(expenditures, b) = {}
    BY <1>4 DEF NewRoadsAreEmpty
  <2>1. b # d
    BY <1>1, <1>2, <1>5, <1>9 DEF Fresh, Summaries
  <2> QED BY <1>8, <1>9, <2>1 DEF BudgetInv, NewRoadsAreEmpty
<1> QED BY <1>4, <1>8, <1>10, <1>11, <1>12, <1>13, <1>14, <1>15 DEF BudgetInv
LEMMA ExpenditureHolds ==
  ASSUME BudgetInv, NEW msp, NEW d \in BudgetRoads, NEW i \in BudgetIds, NEW for \in BudgetIds, NEW n \in Amounts,
         NEW ts \in Times, RecordExpenditure(msp, d, i, for, n, ts)
  PROVE  BudgetInv'
<1> DEFINE x == [road |-> d, id |-> i, for |-> for, amount |-> n]
           m == Adding(summary[d], "spent", n)
           f == Flagged(d, m, ts)
<1>1. n \in Nat \ {0} /\ ts \in Nat
  BY BudgetAssumption
<1>2. summary[d] \in Summaries /\ \A b \in BudgetRoads : summary[b] \in Summaries
  BY DEF BudgetInv, BudgetTypeOK, Summaries
<1>3. /\ m \in Summaries /\ m.sanctioned = summary[d].sanctioned
      /\ m.released = summary[d].released
      /\ m.spent = summary[d].spent + n
  BY <1>1, <1>2 DEF Summaries, Adding
<1>4. /\ expenditures' = expenditures \cup {x} /\ summary' = [summary EXCEPT ![d] = f]
      /\ UNCHANGED <<sanctions, releases, drifted>> /\ ~Recorded(expenditures, d, i) /\ Recorded(releases, d, for)
  <2>1. expenditures' = expenditures \cup {x}
    BY DEF RecordExpenditure
  <2>2. UNCHANGED <<sanctions, releases, drifted>> /\ ~Recorded(expenditures, d, i) /\ Recorded(releases, d, for)
    BY DEF RecordExpenditure
  <2>3. summary' = [summary EXCEPT ![d] = f]
    BY Zenon DEF RecordExpenditure
  <2> QED BY <2>1, <2>2, <2>3
<1> HIDE DEF m
<1>5. /\ f \in Summaries /\ f.sanctioned = summary[d].sanctioned
      /\ f.released = summary[d].released
      /\ f.spent = summary[d].spent + n /\ FlagsTellOf(f)
  BY <1>3, FlagsAreSound
<1> HIDE DEF f
<1>6. /\ x \in [road : BudgetRoads, id : BudgetIds, for : BudgetIds, amount : Nat]
      /\ x.road = d /\ x.id = i /\ x.amount = n /\ x.for = for
  BY <1>1
<1> HIDE DEF x
<1>7. \A s \in expenditures : s.amount \in Nat
  BY DEF BudgetInv, BudgetTypeOK
<1>8. /\ IsFiniteSet(expenditures') /\ \A b : b # d => Own(expenditures', b) = Own(expenditures, b)
      /\ Total(Own(expenditures', d)) = Total(Own(expenditures, d)) + n
      /\ KeysAreUnique(expenditures')
  BY <1>1, <1>4, <1>6, <1>7, RecordAdds DEF BudgetInv, RecordsAreFinite
<1>9. summary'[d] = f /\ \A b \in BudgetRoads : b # d => summary'[b] = summary[b]
  BY <1>4 DEF BudgetInv, BudgetTypeOK
<1>10. BudgetTypeOK'
  BY <1>4, <1>5, <1>6 DEF BudgetInv, BudgetTypeOK, Summaries
<1>11. RecordsAreFinite'
  BY <1>4, <1>8 DEF BudgetInv, RecordsAreFinite
<1>12. Traceable(sanctions, releases, expenditures)'
  BY <1>4, <1>6 DEF BudgetInv, Traceable, Recorded
<1>13. \A b \in BudgetRoads : FlagsTellOf(summary'[b])
  BY <1>5, <1>9 DEF BudgetInv
<1>14. \A b \in BudgetRoads \ drifted' : AddsUp(summary'[b], b, sanctions', releases', expenditures')
  <2> SUFFICES ASSUME NEW b \in BudgetRoads \ drifted
               PROVE  AddsUp(summary'[b], b, sanctions', releases', expenditures')
    BY <1>4
  <2>1. AddsUp(summary[b], b, sanctions, releases, expenditures)
    BY DEF BudgetInv
  <2>2. CASE b = d
    BY <1>4, <1>5, <1>8, <1>9, <2>1, <2>2 DEF AddsUp
  <2>3. CASE b # d
    BY <1>4, <1>8, <1>9, <2>1, <2>3 DEF AddsUp
  <2> QED BY <2>2, <2>3
<1>15. NewRoadsAreEmpty'
  <2> SUFFICES ASSUME NEW b \in BudgetRoads \ drifted, summary'[b] = Fresh
               PROVE  /\ Own(sanctions, b) = {}
                      /\ Own(releases, b) = {}
                      /\ Own(expenditures', b) = {}
    BY <1>4 DEF NewRoadsAreEmpty
  <2>1. b # d
    BY <1>1, <1>2, <1>5, <1>9 DEF Fresh, Summaries
  <2> QED BY <1>8, <1>9, <2>1 DEF BudgetInv, NewRoadsAreEmpty
<1> QED BY <1>4, <1>8, <1>10, <1>11, <1>12, <1>13, <1>14, <1>15 DEF BudgetInv

\* A record of the seed's key, written over whatever had it before.
LEMMA SeedRecord ==
  ASSUME NEW records, IsFiniteSet(records), KeysAreUnique(records),
         NEW x, x.amount \in Nat
  PROVE  LET new == Without(records, x.road, x.id) \cup {x} IN
         /\ IsFiniteSet(new) /\ KeysAreUnique(new)
         /\ \A d : d # x.road => Own(new, d) = Own(records, d)
         /\ Own(records, x.road) = {} => Total(Own(new, x.road)) = x.amount
         /\ \A d, i : Recorded(records, d, i) => Recorded(new, d, i)
         /\ Recorded(new, x.road, x.id)
<1> DEFINE new == Without(records, x.road, x.id) \cup {x}
<1>1. IsFiniteSet(Without(records, x.road, x.id))
  BY FS_Subset DEF Without
<1>2. IsFiniteSet(new)
  BY <1>1, FS_AddElement
<1>3. KeysAreUnique(new) /\ \A d : d # x.road => Own(new, d) = Own(records, d)
  BY DEF Without, KeysAreUnique, Own
<1>4. ASSUME Own(records, x.road) = {} PROVE Total(Own(new, x.road)) = x.amount
  <2>1. Own(new, x.road) = {} \cup {x}
    BY <1>4 DEF Own, Without
  <2>2. IsFiniteSet({}) /\ x \notin {} /\ \A y \in {} \cup {x} : y.amount \in Nat
    BY FS_EmptySet
  <2>3. Total({} \cup {x}) = Total({}) + x.amount
    BY <2>2, TotalWith
  <2> QED BY <2>1, <2>3, TotalOfNone
<1>5. \A d, i : Recorded(records, d, i) => Recorded(new, d, i)
  BY DEF Recorded, Without
<1>6. Recorded(new, x.road, x.id)
  BY DEF Recorded
<1> QED BY <1>2, <1>3, <1>4, <1>5, <1>6

LEMMA SeedHolds ==
  ASSUME BudgetInv, NEW msp, NEW ts \in Times, BudgetInitLedger(msp, ts)
  PROVE  BudgetInv'
<1> DEFINE d == SeedRoad  i == SeedId
           s == [road |-> d, id |-> i, amount |-> SeedAmounts.sanctioned, at |-> ts]
           r == [road |-> d, id |-> i, for |-> i, amount |-> SeedAmounts.released, at |-> ts]
           e == [road |-> d, id |-> i, for |-> i, amount |-> SeedAmounts.spent]
           m == [Fresh EXCEPT !.sanctioned = SeedAmounts.sanctioned,
                   !.released = SeedAmounts.released, !.spent = SeedAmounts.spent]
           f == Flagged(d, m, ts)
           a == SeedAmounts.sanctioned  b == SeedAmounts.released  c == SeedAmounts.spent
<1>1. /\ a \in Nat \ {0} /\ b \in Nat \ {0} /\ c \in Nat \ {0}
      /\ d \in BudgetRoads /\ i \in BudgetIds
  BY BudgetAssumption
<1>2. m \in Summaries /\ m.sanctioned = a /\ m.released = b /\ m.spent = c
  BY <1>1 DEF Summaries, Fresh
<1>3. /\ sanctions' = Without(sanctions, d, i) \cup {s}
      /\ releases' = Without(releases, d, i) \cup {r}
      /\ expenditures' = Without(expenditures, d, i) \cup {e}
  BY DEF BudgetInitLedger
<1>4. summary' = [summary EXCEPT ![d] = f]
  BY Zenon DEF BudgetInitLedger
<1>5. drifted' = IF summary[d] = Fresh THEN drifted ELSE drifted \cup {d}
  BY DEF BudgetInitLedger
<1>6. /\ s \in [road : BudgetRoads, id : BudgetIds, amount : Nat, at : Times]
      /\ s.road = d /\ s.id = i /\ s.amount = a
  BY <1>1
<1>7. /\ r \in [road : BudgetRoads, id : BudgetIds, for : BudgetIds, amount : Nat, at : Times]
      /\ r.road = d /\ r.id = i /\ r.for = i /\ r.amount = b
  BY <1>1
<1>8. /\ e \in [road : BudgetRoads, id : BudgetIds, for : BudgetIds, amount : Nat]
      /\ e.road = d /\ e.id = i /\ e.for = i /\ e.amount = c
  BY <1>1
<1> HIDE DEF m, s, r, e
<1>9. /\ f \in Summaries /\ f.sanctioned = a /\ f.released = b /\ f.spent = c
      /\ FlagsTellOf(f)
  BY <1>2, FlagsAreSound
<1> HIDE DEF f, a, b, c, d, i
<1>10. /\ IsFiniteSet(sanctions') /\ KeysAreUnique(sanctions')
       /\ \A w : w # d => Own(sanctions', w) = Own(sanctions, w)
       /\ Own(sanctions, d) = {} => Total(Own(sanctions', d)) = a
       /\ \A w, k : Recorded(sanctions, w, k) => Recorded(sanctions', w, k)
       /\ Recorded(sanctions', d, i)
  BY <1>1, <1>3, <1>6, SeedRecord DEF BudgetInv, RecordsAreFinite
<1>11. /\ IsFiniteSet(releases') /\ KeysAreUnique(releases')
       /\ \A w : w # d => Own(releases', w) = Own(releases, w)
       /\ Own(releases, d) = {} => Total(Own(releases', d)) = b
       /\ \A w, k : Recorded(releases, w, k) => Recorded(releases', w, k)
       /\ Recorded(releases', d, i)
  <2>1. IsFiniteSet(releases) /\ KeysAreUnique(releases) /\ r.amount \in Nat
    BY <1>1, <1>7 DEF BudgetInv, RecordsAreFinite
  <2>2. r.road = d /\ r.id = i /\ r.amount = b
    BY <1>7
  <2>3. releases' = Without(releases, d, i) \cup {r}
    BY <1>3
  <2> QED BY <2>1, <2>2, <2>3, SeedRecord
<1>12. /\ IsFiniteSet(expenditures') /\ KeysAreUnique(expenditures')
       /\ \A w : w # d => Own(expenditures', w) = Own(expenditures, w)
       /\ Own(expenditures, d) = {} => Total(Own(expenditures', d)) = c
  <2>1. IsFiniteSet(expenditures) /\ KeysAreUnique(expenditures) /\ e.amount \in Nat
    BY <1>1, <1>8 DEF BudgetInv, RecordsAreFinite
  <2>2. e.road = d /\ e.id = i /\ e.amount = c
    BY <1>8
  <2>3. expenditures' = Without(expenditures, d, i) \cup {e}
    BY <1>3
  <2> QED BY <2>1, <2>2, <2>3, SeedRecord
<1>13. summary'[d] = f /\ \A w \in BudgetRoads : w # d => summary'[w] = summary[w]
  BY <1>1, <1>4 DEF BudgetInv, BudgetTypeOK
<1>14. BudgetTypeOK'
  <2>1. summary' \in [BudgetRoads -> Summaries]
    BY <1>4, <1>9 DEF BudgetInv, BudgetTypeOK, Summaries
  <2>2. /\ sanctions' \subseteq [road : BudgetRoads, id : BudgetIds, amount : Nat, at : Times]
        /\ releases' \subseteq [road : BudgetRoads, id : BudgetIds, for : BudgetIds, amount : Nat, at : Times]
        /\ expenditures' \subseteq [road : BudgetRoads, id : BudgetIds, for : BudgetIds, amount : Nat]
    BY <1>3, <1>6, <1>7, <1>8 DEF BudgetInv, BudgetTypeOK, Without
  <2>3. drifted' \subseteq BudgetRoads
    BY <1>1, <1>5 DEF BudgetInv, BudgetTypeOK
  <2> QED BY <2>1, <2>2, <2>3 DEF BudgetTypeOK, Summaries
<1>15. RecordsAreFinite'
  BY <1>10, <1>11, <1>12 DEF RecordsAreFinite
<1>16. Traceable(sanctions, releases, expenditures)'
  <2>1. \A x \in releases' : Recorded(sanctions', x.road, x.for)
    BY <1>3, <1>7, <1>10 DEF BudgetInv, Traceable, Without
  <2>2. \A x \in expenditures' : Recorded(releases', x.road, x.for)
    BY <1>3, <1>8, <1>11 DEF BudgetInv, Traceable, Without
  <2> QED BY <2>1, <2>2 DEF Traceable
<1>17. \A w \in BudgetRoads : FlagsTellOf(summary'[w])
  BY <1>9, <1>13 DEF BudgetInv
<1>18. \A w \in BudgetRoads \ drifted' : AddsUp(summary'[w], w, sanctions', releases', expenditures')
  <2> SUFFICES ASSUME NEW w \in BudgetRoads \ drifted'
               PROVE  AddsUp(summary'[w], w, sanctions', releases', expenditures')
    OBVIOUS
  <2>1. w \in BudgetRoads \ drifted
    BY <1>5
  <2>2. CASE w = d
    <3>1. summary[d] = Fresh
      BY <1>5, <2>2
    <3>2. Own(sanctions, d) = {} /\ Own(releases, d) = {} /\ Own(expenditures, d) = {}
      BY <2>1, <2>2, <3>1 DEF BudgetInv, NewRoadsAreEmpty
    <3> QED BY <1>9, <1>10, <1>11, <1>12, <1>13, <2>2, <3>2 DEF AddsUp
  <2>3. CASE w # d
    <3>1. AddsUp(summary[w], w, sanctions, releases, expenditures)
      BY <2>1 DEF BudgetInv
    <3> QED BY <1>10, <1>11, <1>12, <1>13, <2>1, <2>3, <3>1 DEF AddsUp
  <2> QED BY <2>2, <2>3
<1>19. NewRoadsAreEmpty'
  <2> SUFFICES ASSUME NEW w \in BudgetRoads \ drifted', summary'[w] = Fresh
               PROVE  /\ Own(sanctions', w) = {} /\ Own(releases', w) = {}
                      /\ Own(expenditures', w) = {}
    BY DEF NewRoadsAreEmpty
  <2>1. w # d
    BY <1>1, <1>9, <1>13 DEF Fresh, Summaries
  <2>2. w \in BudgetRoads \ drifted /\ summary[w] = Fresh
    BY <1>5, <1>13, <2>1
  <2> QED BY <1>10, <1>11, <1>12, <2>1, <2>2 DEF BudgetInv, NewRoadsAreEmpty
<1> QED BY <1>10, <1>11, <1>12, <1>14, <1>15, <1>16, <1>17, <1>18, <1>19 DEF BudgetInv

LEMMA BudgetNextHolds == BudgetInv /\ [BudgetNext]_budgetVars => BudgetInv'
<1>1. ASSUME BudgetInv, UNCHANGED budgetVars PROVE BudgetInv'
  <2>1. UNCHANGED <<sanctions, releases, expenditures, summary, drifted>>
    BY <1>1 DEF budgetVars
  <2> QED BY <1>1, <2>1 DEF BudgetInv, BudgetTypeOK, RecordsAreFinite, NewRoadsAreEmpty
<1>2. ASSUME BudgetInv, BudgetNext PROVE BudgetInv'
  BY <1>2, SanctionHolds, ReleaseHolds, ExpenditureHolds, SeedHolds DEF BudgetNext
<1> QED BY <1>1, <1>2

-----------------------------------------------------------------------------
(* The complaint ledger.                                                   *)

Has(k, p) == Events[k][p] \in claimed

\* What a transaction relies on while what it read still stands: its event is
\* past every event of its kind on the ledger and next to those not settled.
MayWrite(tx, n) ==
  /\ \A q \in DOMAIN Events[tx.kind] : Has(tx.kind, q) => q < n
  /\ \A p \in settled[tx.kind] + 1..n - 1 : Has(tx.kind, p)
  /\ tx.kind = "status" => complaint.version # 0
TxKnows(tx) ==
  /\ tx.id <= endorsements /\ Of(tx.kind, tx.event) /\ tx.read <= complaint.version
  /\ tx.noop => tx.event \in claimed
  /\ tx.id = awaited => Pending(tx.kind) /\ tx.event = NextEvent(tx.kind)
  /\ ~tx.noop /\ StillRead(tx) =>
       \A n \in DOMAIN Events[tx.kind] : Events[tx.kind][n] = tx.event => MayWrite(tx, n)

\* What is on the ledger leaves out no event of its kind that is not settled.
NoGaps ==
  \A k \in Kinds : \A q \in DOMAIN Events[k] :
    Has(k, q) => \A p \in settled[k] + 1..q : Has(k, p)

LedgerInv ==
  /\ LedgerTypeOK /\ claimed = Range(applied) /\ awaited <= endorsements
  /\ \A s, t \in endorsed : s.id = t.id => s = t
  /\ NoGaps /\ \A tx \in endorsed : TxKnows(tx)
  /\ AppliedInOrder /\ RecordFollowsHistory /\ SubmittedIsClaimed

LEMMA EventFacts ==
  ASSUME NEW k \in Kinds
  PROVE  /\ Events[k] \in Seq(EventIds) /\ Len(Events[k]) \in Nat
         /\ DOMAIN Events[k] = 1..Len(Events[k])
         /\ \A n \in DOMAIN Events[k] : Of(k, Events[k][n]) /\ Events[k][n] \in EventIds
         /\ \A e : Of(k, e) => \E n \in DOMAIN Events[k] : Events[k][n] = e
         /\ \A n, m \in DOMAIN Events[k] : Events[k][n] = Events[k][m] => n = m
<1>1. Events[k] \in Seq(EventIds)
  BY LedgerAssumption
<1>2. \A n, m \in DOMAIN Events[k] : Events[k][n] = Events[k][m] => n = m
  BY LedgerAssumption DEF IsInjective
<1>3. Len(Events[k]) \in Nat /\ DOMAIN Events[k] = 1..Len(Events[k])
  BY <1>1
<1>4. \A n \in DOMAIN Events[k] : Of(k, Events[k][n]) /\ Events[k][n] \in EventIds
  BY <1>1 DEF Of, Range
<1>5. \A e : Of(k, e) => \E n \in DOMAIN Events[k] : Events[k][n] = e
  BY DEF Of, Range
<1> QED BY <1>1, <1>2, <1>3, <1>4, <1>5

LEMMA PlaceIs ==
  ASSUME NEW k \in Kinds, NEW n \in DOMAIN Events[k]
  PROVE  Place(k, Events[k][n]) = n
<1>1. \E i \in DOMAIN Events[k] : Events[k][i] = Events[k][n]
  OBVIOUS
<1>2. Place(k, Events[k][n]) \in DOMAIN Events[k] /\ Events[k][Place(k, Events[k][n])] = Events[k][n]
  BY <1>1 DEF Place
<1> QED BY <1>2, EventFacts

LEMMA KindsDiffer ==
  /\ Kinds = {"submission", "status"}
  /\ \A e, k, l : k \in Kinds /\ l \in Kinds /\ Of(k, e) /\ Of(l, e) => k = l
  BY LedgerAssumption DEF Kinds, Of

LEMMA LedgerInitHolds == LedgerInit => LedgerInv
<1> SUFFICES ASSUME LedgerInit PROVE LedgerInv
  OBVIOUS
<1>1. LedgerTypeOK
  <2>1. complaint \in [version : Nat, status : {"none", "FILED"} \cup EventIds, reports : Nat]
    BY DEF LedgerInit, None
  <2>2. /\ applied \in Seq(EventIds) /\ claimed \subseteq EventIds
        /\ endorsed \subseteq [id : 1..MaxEndorsed, event : EventIds, kind : Kinds,
                               read : Nat, noop : BOOLEAN]
    BY DEF LedgerInit
  <2>3. endorsements \in 0..MaxEndorsed /\ awaited \in 0..MaxEndorsed
    BY LedgerAssumption DEF LedgerInit, Idle
  <2>4. /\ next \in [Kinds -> Nat] /\ settled \in [Kinds -> Nat]
        /\ \A kind \in Kinds : next[kind] = 1 /\ settled[kind] = 0
    BY DEF LedgerInit
  <2>5. \A kind \in Kinds : Len(Events[kind]) \in Nat
    BY EventFacts
  <2>6. \A kind \in Kinds :
          next[kind] \in 1..Len(Events[kind]) + 1 /\ settled[kind] \in 0..next[kind] - 1
    BY <2>4, <2>5
  <2> QED BY <2>1, <2>2, <2>3, <2>4, <2>6 DEF LedgerTypeOK
<1>2. claimed = Range(applied) /\ awaited <= endorsements
  BY DEF LedgerInit, Range, Idle
<1>3. AppliedInOrder
  BY DEF LedgerInit, AppliedInOrder
<1>4. RecordFollowsHistory
  BY DEF LedgerInit, RecordFollowsHistory, Latest, None
<1>5. SubmittedIsClaimed
  BY DEF LedgerInit, SubmittedIsClaimed
<1>6. NoGaps
  BY DEF LedgerInit, NoGaps, Has
<1> QED BY <1>1, <1>2, <1>3, <1>4, <1>5, <1>6 DEF LedgerInv, LedgerInit

\* Transactions of before stay as they are when neither record nor claims change
\* and no more than before is settled or awaited.
LEMMA SubmitHolds == ASSUME LedgerInv, NEW k \in Kinds, Submit(k) PROVE LedgerInv'
<1> PICK e, n : e = NextEvent(k) /\ n = next[k]
  OBVIOUS
<1> PICK tx : tx = [id |-> endorsements + 1, event |-> e, kind |-> k,
                    read |-> complaint.version, noop |-> ~ClaimEvent(e)]
  OBVIOUS
<1>1. /\ awaited = Idle /\ Pending(k) /\ endorsements < MaxEndorsed /\ ~Refuses(k, e)
      /\ endorsements' = endorsements + 1 /\ awaited' = endorsements + 1
      /\ endorsed' = endorsed \cup {tx}
      /\ UNCHANGED <<complaint, applied, claimed, next, settled>>
  BY DEF Submit
<1>2. /\ n \in DOMAIN Events[k] /\ Events[k][n] = e /\ Of(k, e) /\ e \in EventIds
      /\ settled[k] \in 0..n - 1 /\ settled[k] \in Nat
  BY <1>1, EventFacts DEF LedgerInv, LedgerTypeOK, Pending, NextEvent
<1>3. /\ endorsements \in Nat /\ MaxEndorsed \in Nat /\ complaint.version \in Nat
      /\ endorsements + 1 \in 1..MaxEndorsed
  BY <1>1, LedgerAssumption DEF LedgerInv, LedgerTypeOK
<1>4. /\ tx.id = endorsements + 1 /\ tx.event = e /\ tx.kind = k /\ tx.read = complaint.version
      /\ tx.noop = ~ClaimEvent(e)
      /\ tx \in [id : 1..MaxEndorsed, event : EventIds, kind : Kinds, read : Nat, noop : BOOLEAN]
  BY <1>2, <1>3
<1>5. \A s \in endorsed : s.id \in Nat /\ s.id <= endorsements
  BY DEF LedgerInv, LedgerTypeOK, TxKnows
<1>6. LedgerTypeOK'
  <2>1. endorsed' \subseteq [id : 1..MaxEndorsed, event : EventIds, kind : Kinds,
                           read : Nat, noop : BOOLEAN]
    BY <1>1, <1>4 DEF LedgerInv, LedgerTypeOK
  <2>2. endorsements' \in 0..MaxEndorsed /\ awaited' \in 0..MaxEndorsed
    BY <1>1, <1>3
  <2> QED BY <1>1, <2>1, <2>2 DEF LedgerInv, LedgerTypeOK
<1>7. \A s, t \in endorsed' : s.id = t.id => s = t
  BY <1>1, <1>3, <1>4, <1>5 DEF LedgerInv
<1>8. TxKnows(tx)'
  <2>1. tx.id <= endorsements' /\ Of(tx.kind, tx.event) /\ tx.read <= complaint'.version
    BY <1>1, <1>2, <1>3, <1>4
  <2>2. tx.noop => tx.event \in claimed'
    BY <1>1, <1>4 DEF ClaimEvent
  <2>3. (Pending(tx.kind) /\ tx.event = NextEvent(tx.kind))'
    BY <1>1, <1>4 DEF Pending, NextEvent
  <2>4. ASSUME ~tx.noop, NEW m \in DOMAIN Events[k], Events[k][m] = e PROVE MayWrite(tx, m)'
    <3>1. m = n
      BY <1>2, <2>4, EventFacts
    <3>2. e \notin claimed
      BY <1>4, <2>4 DEF ClaimEvent
    <3>3. ASSUME NEW q \in DOMAIN Events[k], Has(k, q) PROVE q < n
      <4>1. \A p \in settled[k] + 1..q : Has(k, p)
        BY <3>3 DEF LedgerInv, NoGaps
      <4>2. n \notin settled[k] + 1..q
        BY <1>2, <3>2, <4>1 DEF Has
      <4>3. q \in Nat /\ n \in Nat
        BY <1>2, EventFacts
      <4> QED BY <1>2, <4>2, <4>3
    <3>4. \A p \in settled[k] + 1..n - 1 : Has(k, p)
      BY DEF LedgerInv, SubmittedIsClaimed, Has
    <3>5. k = "status" => complaint.version # 0
      BY <1>1, <3>2 DEF Refuses, ClaimEvent
    <3> QED BY <1>1, <1>4, <3>1, <3>3, <3>4, <3>5 DEF MayWrite, Has
  <2> QED BY <1>4, <2>1, <2>2, <2>3, <2>4 DEF TxKnows
<1>9. ASSUME NEW s \in endorsed PROVE TxKnows(s)'
  <2>1. TxKnows(s) /\ s.id # awaited'
    BY <1>1, <1>3, <1>5 DEF LedgerInv
  <2>2. s.id <= endorsements'
    BY <1>1, <1>3, <1>5
  <2>3. StillRead(s)' <=> StillRead(s)
    BY <1>1 DEF StillRead, ClaimEvent
  <2>4. \A m : MayWrite(s, m)' <=> MayWrite(s, m)
    BY <1>1 DEF MayWrite, Has
  <2> QED BY <1>1, <2>1, <2>2, <2>3, <2>4 DEF TxKnows
<1>10. (AppliedInOrder /\ RecordFollowsHistory /\ SubmittedIsClaimed /\ NoGaps)'
  BY <1>1 DEF LedgerInv, AppliedInOrder, RecordFollowsHistory, SubmittedIsClaimed, NoGaps, Has, Latest
<1>11. (claimed = Range(applied) /\ awaited <= endorsements)'
  BY <1>1, <1>3 DEF LedgerInv
<1> QED BY <1>1, <1>6, <1>7, <1>8, <1>9, <1>10, <1>11 DEF LedgerInv

\* What was endorsed stays good while the record and the claims stand, nothing
\* more is awaited, and no less is settled.
LEMMA TxsStay ==
  ASSUME LedgerInv, UNCHANGED <<complaint, applied, claimed, endorsements>>,
         endorsed' \subseteq endorsed, LedgerTypeOK',
         \A k \in Kinds : settled[k] <= settled'[k],
         awaited' = Idle \/ UNCHANGED <<awaited, next>>, SubmittedIsClaimed'
  PROVE  LedgerInv'
<1>0. \A k \in Kinds : settled[k] \in Nat /\ settled'[k] \in Nat
  <2>1. settled \in [Kinds -> Nat]
    BY DEF LedgerInv, LedgerTypeOK
  <2>2. settled' \in [Kinds -> Nat]
    BY DEF LedgerTypeOK
  <2> QED BY <2>1, <2>2
<1>1. ASSUME NEW s \in endorsed' PROVE TxKnows(s)'
  <2>1. TxKnows(s) /\ s.kind \in Kinds /\ s.id \in Nat /\ s.id # Idle
    BY DEF LedgerInv, LedgerTypeOK, Idle
  <2>2. s.id <= endorsements' /\ s.read <= complaint'.version /\ (s.noop => s.event \in claimed')
    BY <2>1 DEF TxKnows
  <2>3. (s.id = awaited => Pending(s.kind) /\ s.event = NextEvent(s.kind))'
    BY <2>1 DEF TxKnows, Pending, NextEvent
  <2>4. StillRead(s)' <=> StillRead(s)
    BY DEF StillRead, ClaimEvent
  <2>5. ASSUME NEW m \in DOMAIN Events[s.kind], MayWrite(s, m) PROVE MayWrite(s, m)'
    <3>1. settled[s.kind] \in Nat /\ settled'[s.kind] \in Nat /\ settled[s.kind] <= settled'[s.kind]
          /\ m \in Nat
      BY <1>0, <2>1, EventFacts
    <3>2. \A p \in settled'[s.kind] + 1..m - 1 : p \in settled[s.kind] + 1..m - 1
      BY <3>1
    <3> QED BY <2>5, <3>2 DEF MayWrite, Has
  <2> QED BY <2>1, <2>2, <2>3, <2>4, <2>5 DEF TxKnows
<1>2. NoGaps'
  <2> SUFFICES ASSUME NEW k \in Kinds, NEW q \in DOMAIN Events[k], Has(k, q)',
                      NEW p \in settled'[k] + 1..q
               PROVE  Has(k, p)'
    BY DEF NoGaps
  <2>1. settled[k] \in Nat /\ settled'[k] \in Nat /\ settled[k] <= settled'[k] /\ q \in Nat
    BY <1>0, EventFacts
  <2>2. p \in settled[k] + 1..q /\ Has(k, q)
    BY <2>1 DEF Has
  <2> QED BY <2>2 DEF LedgerInv, NoGaps, Has
<1>3. (AppliedInOrder /\ RecordFollowsHistory)'
  BY DEF LedgerInv, AppliedInOrder, RecordFollowsHistory, Latest
<1>4. (claimed = Range(applied) /\ awaited <= endorsements)'
  BY DEF LedgerInv, LedgerTypeOK, Idle
<1>5. \A s, t \in endorsed' : s.id = t.id => s = t
  BY DEF LedgerInv
<1> QED BY <1>1, <1>2, <1>3, <1>4, <1>5 DEF LedgerInv

LEMMA GivingUp ==
  ASSUME LedgerInv, GiveUp
  PROVE  /\ awaited' = Idle /\ SubmittedIsClaimed'
         /\ \A k \in Kinds : settled[k] <= settled'[k]
         /\ next' \in [Kinds -> Nat] /\ settled' \in [Kinds -> Nat]
         /\ \A k \in Kinds : next'[k] \in 1..Len(Events[k]) + 1 /\ settled'[k] \in 0..next'[k] - 1
<1>1. PICK upTo \in [Kinds -> 0..Len(Events["submission"]) + Len(Events["status"])] :
        /\ \A kind \in Kinds : upTo[kind] \in settled[kind]..Len(Events[kind])
        /\ settled' = upTo
        /\ next' = [kind \in Kinds |-> upTo[kind] + 1]
  BY DEF GiveUp
<1>2. \A k \in Kinds : Len(Events[k]) \in Nat
  BY EventFacts
<1>3. \A k \in Kinds : settled[k] \in Nat
  BY DEF LedgerInv, LedgerTypeOK
<1>4. \A k \in Kinds : /\ upTo[k] \in Nat /\ settled[k] <= upTo[k] /\ upTo[k] <= Len(Events[k])
                       /\ settled'[k] = upTo[k] /\ next'[k] = upTo[k] + 1
  BY <1>1, <1>2, <1>3
<1>5. settled' \in [Kinds -> Nat] /\ next' \in [Kinds -> Nat]
  BY <1>1, <1>4
<1>6. \A k \in Kinds : next'[k] \in 1..Len(Events[k]) + 1 /\ settled'[k] \in 0..next'[k] - 1
  BY <1>2, <1>4
<1>7. SubmittedIsClaimed'
  <2> SUFFICES ASSUME NEW k \in Kinds, NEW i \in settled'[k] + 1..next'[k] - 1 PROVE FALSE
    BY DEF SubmittedIsClaimed
  <2> QED BY <1>4
<1> QED BY <1>4, <1>5, <1>6, <1>7 DEF GiveUp

LEMMA GiveUpTypes ==
  ASSUME LedgerInv, GiveUp, UNCHANGED <<complaint, applied, claimed, endorsements>>,
         endorsed' \subseteq endorsed
  PROVE  LedgerTypeOK'
<1>1. awaited' \in 0..MaxEndorsed
  BY GivingUp, LedgerAssumption DEF Idle
<1>2. /\ complaint' \in [version : Nat, status : {"none", "FILED"} \cup EventIds, reports : Nat]
      /\ applied' \in Seq(EventIds) /\ claimed' \subseteq EventIds
      /\ endorsed' \subseteq [id : 1..MaxEndorsed, event : EventIds, kind : Kinds,
                              read : Nat, noop : BOOLEAN]
      /\ endorsements' \in 0..MaxEndorsed
  BY DEF LedgerInv, LedgerTypeOK
<1> QED BY <1>1, <1>2, GivingUp DEF LedgerTypeOK

LEMMA DroppingHolds ==
  ASSUME LedgerInv, NEW tx \in endorsed,
         InvalidateTx(tx) \/ LoseTx(tx)
  PROVE  LedgerInv'
<1>1. CASE InvalidateTx(tx)
  <2>1. UNCHANGED <<complaint, applied, claimed, endorsements>> /\ endorsed' \subseteq endorsed
    BY <1>1 DEF InvalidateTx
  <2>2. CASE awaited = tx.id
    <3>1. GiveUp
      BY <1>1, <2>2 DEF InvalidateTx
    <3>2. LedgerTypeOK'
      BY <2>1, <3>1, GiveUpTypes
    <3> QED BY <2>1, <3>1, <3>2, GivingUp, TxsStay
  <2>3. CASE awaited # tx.id
    <3>1. UNCHANGED <<awaited, next, settled>>
      BY <1>1, <2>3 DEF InvalidateTx
    <3>2. LedgerTypeOK' /\ SubmittedIsClaimed' /\ \A k \in Kinds : settled[k] <= settled'[k]
      BY <2>1, <3>1 DEF LedgerInv, LedgerTypeOK, SubmittedIsClaimed
    <3> QED BY <2>1, <3>1, <3>2, TxsStay
  <2> QED BY <2>2, <2>3
<1>2. CASE LoseTx(tx)
  <2>1. /\ UNCHANGED <<complaint, applied, claimed, endorsements, awaited, next, settled>>
        /\ endorsed' \subseteq endorsed
    BY <1>2 DEF LoseTx
  <2>2. LedgerTypeOK' /\ SubmittedIsClaimed' /\ \A k \in Kinds : settled[k] <= settled'[k]
    BY <2>1 DEF LedgerInv, LedgerTypeOK, SubmittedIsClaimed
  <2> QED BY <2>1, <2>2, TxsStay
<1> QED BY <1>1, <1>2

LEMMA CallFailsHolds == ASSUME LedgerInv, CallFails PROVE LedgerInv'
<1>1. GiveUp /\ UNCHANGED <<complaint, applied, claimed, endorsed, endorsements>>
  BY DEF CallFails
<1>2. LedgerTypeOK'
  BY <1>1, GiveUpTypes
<1> QED BY <1>1, <1>2, GivingUp, TxsStay

LEMMA FlushEndsHolds == ASSUME LedgerInv, FlushEnds PROVE LedgerInv'
<1>1. /\ settled' = [kind \in Kinds |-> next[kind] - 1]
      /\ UNCHANGED <<complaint, applied, claimed, endorsed, endorsements, awaited, next>>
  BY DEF FlushEnds
<1>2. /\ next \in [Kinds -> Nat] /\ settled \in [Kinds -> Nat]
      /\ \A k \in Kinds : next[k] \in 1..Len(Events[k]) + 1 /\ settled[k] \in 0..next[k] - 1
  BY DEF LedgerInv, LedgerTypeOK
<1>3. \A k \in Kinds : /\ settled'[k] = next[k] - 1 /\ settled'[k] \in Nat
                       /\ settled[k] <= settled'[k] /\ settled'[k] \in 0..next[k] - 1
  BY <1>1, <1>2, EventFacts
<1>4. LedgerTypeOK'
  <2>1. settled' \in [Kinds -> Nat]
    BY <1>1, <1>3
  <2> QED BY <1>1, <1>2, <1>3, <2>1 DEF LedgerInv, LedgerTypeOK
<1>5. SubmittedIsClaimed'
  <2> SUFFICES ASSUME NEW k \in Kinds, NEW i \in settled'[k] + 1..next[k] - 1 PROVE FALSE
    BY <1>1 DEF SubmittedIsClaimed
  <2> QED BY <1>3
<1> QED BY <1>1, <1>3, <1>4, <1>5, TxsStay

\* Where the flush stands after a commit: an event further if it waited for it.
LEMMA FlushMoves ==
  ASSUME LedgerInv, NEW tx \in endorsed, CommitTx(tx), tx.event \in claimed',
         claimed \subseteq claimed'
  PROVE  /\ awaited' = Idle \/ UNCHANGED <<awaited, next>>
         /\ next' \in [Kinds -> Nat] /\ settled' \in [Kinds -> Nat]
         /\ \A k \in Kinds : next'[k] \in 1..Len(Events[k]) + 1 /\ settled'[k] \in 0..next'[k] - 1
         /\ awaited' \in 0..MaxEndorsed /\ awaited' <= endorsements'
         /\ SubmittedIsClaimed'
         /\ \A s \in endorsed' : s.id # awaited' \/ UNCHANGED <<awaited, next>>
<1>1. /\ settled' = settled /\ endorsements' = endorsements /\ endorsed' \subseteq endorsed
      /\ IF awaited = tx.id
           THEN awaited' = Idle /\ next' = [next EXCEPT ![tx.kind] = @ + 1]
           ELSE UNCHANGED <<awaited, next>>
  BY DEF CommitTx
<1>2. /\ next \in [Kinds -> Nat] /\ settled \in [Kinds -> Nat]
      /\ \A k \in Kinds : next[k] \in 1..Len(Events[k]) + 1 /\ settled[k] \in 0..next[k] - 1
      /\ awaited \in 0..MaxEndorsed /\ awaited <= endorsements /\ endorsements \in Nat
      /\ \A s \in endorsed : s.id \in 1..MaxEndorsed /\ s.kind \in Kinds
      /\ MaxEndorsed \in Nat
  <2>1. MaxEndorsed \in Nat
    BY LedgerAssumption
  <2>2. /\ next \in [Kinds -> Nat] /\ settled \in [Kinds -> Nat]
        /\ \A k \in Kinds : next[k] \in 1..Len(Events[k]) + 1 /\ settled[k] \in 0..next[k] - 1
    BY DEF LedgerInv, LedgerTypeOK
  <2>3. \A s \in endorsed : s.id \in 1..MaxEndorsed /\ s.kind \in Kinds
    BY DEF LedgerInv, LedgerTypeOK
  <2>4. awaited \in 0..MaxEndorsed /\ awaited <= endorsements /\ endorsements \in 0..MaxEndorsed
    BY DEF LedgerInv, LedgerTypeOK
  <2> QED BY <2>1, <2>2, <2>3, <2>4
<1>3. \A k \in Kinds : \A i \in settled[k] + 1..next[k] - 1 : Events[k][i] \in claimed
  BY DEF LedgerInv, SubmittedIsClaimed
<1>4. CASE awaited = tx.id
  <2> DEFINE k == tx.kind
  <2>1. Pending(k) /\ tx.event = NextEvent(k) /\ k \in Kinds
    BY <1>2, <1>4 DEF LedgerInv, TxKnows
  <2>2. /\ next[k] \in Nat /\ next[k] >= 1 /\ next[k] <= Len(Events[k]) /\ Len(Events[k]) \in Nat
        /\ Events[k][next[k]] = tx.event
    BY <1>2, <2>1, EventFacts DEF Pending, NextEvent
  <2>3. awaited' = Idle /\ next' = [next EXCEPT ![k] = @ + 1]
    BY <1>1, <1>4
  <2> HIDE DEF k
  <2>4. next' \in [Kinds -> Nat] /\ next'[k] = next[k] + 1 /\ \A l \in Kinds : l # k => next'[l] = next[l]
    BY <1>2, <2>1, <2>3
  <2>5. \A l \in Kinds : next'[l] \in 1..Len(Events[l]) + 1 /\ settled[l] \in 0..next'[l] - 1
    <3> SUFFICES ASSUME NEW l \in Kinds
                 PROVE  next'[l] \in 1..Len(Events[l]) + 1 /\ settled[l] \in 0..next'[l] - 1
      OBVIOUS
    <3>1. CASE l = k
      BY <1>2, <2>2, <2>4, <3>1
    <3>2. CASE l # k
      BY <1>2, <2>4, <3>2
    <3> QED BY <3>1, <3>2
  <2>6. SubmittedIsClaimed'
    <3> SUFFICES ASSUME NEW l \in Kinds, NEW i \in settled[l] + 1..next'[l] - 1
                 PROVE  Events[l][i] \in claimed'
      BY <1>1 DEF SubmittedIsClaimed
    <3>1. settled[l] \in Nat /\ next[l] \in Nat
      BY <1>2
    <3>2. CASE l = k /\ i = next[k]
      BY <2>2, <3>2
    <3>3. CASE ~(l = k /\ i = next[k])
      <4>1. i \in settled[l] + 1..next[l] - 1
        BY <2>2, <2>4, <3>1, <3>3
      <4> QED BY <1>3, <4>1
    <3> QED BY <3>2, <3>3
  <2>7. \A s \in endorsed' : s.id # awaited'
    BY <1>1, <1>2, <2>3 DEF Idle
  <2>8. awaited' \in 0..MaxEndorsed /\ awaited' <= endorsements'
    BY <1>1, <1>2, <2>3 DEF Idle
  <2> QED BY <1>1, <1>2, <2>3, <2>4, <2>5, <2>6, <2>7, <2>8
<1>5. CASE awaited # tx.id
  <2>1. UNCHANGED <<awaited, next>>
    BY <1>1, <1>5
  <2>2. SubmittedIsClaimed'
    BY <1>1, <1>3, <2>1 DEF SubmittedIsClaimed
  <2> QED BY <1>1, <1>2, <2>1, <2>2
<1> QED BY <1>4, <1>5

LEMMA RepeatHolds ==
  ASSUME LedgerInv, NEW tx \in endorsed, CommitTx(tx), tx.noop
  PROVE  LedgerInv'
<1>1. /\ UNCHANGED <<complaint, applied, claimed, endorsements, settled>>
      /\ endorsed' \subseteq endorsed
  BY DEF CommitTx
<1>2. tx.event \in claimed'
  BY <1>1 DEF LedgerInv, TxKnows
<1>3. LedgerTypeOK'
  <2>1. /\ complaint' \in [version : Nat, status : {"none", "FILED"} \cup EventIds, reports : Nat]
        /\ applied' \in Seq(EventIds) /\ claimed' \subseteq EventIds
        /\ endorsed' \subseteq [id : 1..MaxEndorsed, event : EventIds, kind : Kinds,
                                read : Nat, noop : BOOLEAN]
        /\ endorsements' \in 0..MaxEndorsed
    BY <1>1 DEF LedgerInv, LedgerTypeOK
  <2> QED BY <1>1, <1>2, <2>1, FlushMoves DEF LedgerTypeOK
<1>4. \A k \in Kinds : settled[k] <= settled'[k]
  BY <1>1 DEF LedgerInv, LedgerTypeOK
<1> QED BY <1>1, <1>2, <1>3, <1>4, FlushMoves, TxsStay

\* A history with one event more.
LEMMA AppliedLonger ==
  ASSUME LedgerInv, NEW e \in EventIds, applied' = Append(applied, e)
  PROVE  /\ applied \in Seq(EventIds) /\ applied' \in Seq(EventIds)
         /\ Len(applied) \in Nat /\ Len(applied') = Len(applied) + 1
         /\ DOMAIN applied = 1..Len(applied) /\ DOMAIN applied' = 1..Len(applied) + 1
         /\ applied'[Len(applied) + 1] = e
         /\ \A i \in DOMAIN applied : applied'[i] = applied[i] /\ i \in DOMAIN applied'
         /\ Range(applied') = Range(applied) \cup {e}
<1>1. applied \in Seq(EventIds)
  BY DEF LedgerInv, LedgerTypeOK
<1>2. /\ applied' \in Seq(EventIds) /\ Len(applied) \in Nat /\ Len(applied') = Len(applied) + 1
      /\ DOMAIN applied = 1..Len(applied) /\ DOMAIN applied' = 1..Len(applied) + 1
      /\ applied'[Len(applied) + 1] = e
      /\ \A i \in 1..Len(applied) : applied'[i] = applied[i]
  BY <1>1, AppendProperties
<1>3. \A i \in DOMAIN applied : i \in DOMAIN applied'
  BY <1>2
<1>4. Range(applied') = Range(applied) \cup {e}
  <2>1. ASSUME NEW x \in Range(applied') PROVE x \in Range(applied) \cup {e}
    <3>1. PICK i \in 1..Len(applied) + 1 : applied'[i] = x
      BY <1>2 DEF Range
    <3>2. i = Len(applied) + 1 \/ i \in DOMAIN applied
      BY <1>2
    <3> QED BY <1>2, <3>1, <3>2 DEF Range
  <2>2. ASSUME NEW x \in Range(applied) \cup {e} PROVE x \in Range(applied')
    <3>1. Len(applied) + 1 \in DOMAIN applied'
      BY <1>2
    <3> QED BY <1>2, <1>3, <2>2, <3>1 DEF Range
  <2> QED BY <2>1, <2>2
<1> QED BY <1>1, <1>2, <1>3, <1>4

\* The record with a version, and a count or a status, of its own.
LEMMA RecordWith ==
  ASSUME NEW S, NEW c \in [version : Nat, status : S, reports : Nat], NEW r \in Nat, NEW t \in S
  PROVE  /\ LET d == [c EXCEPT !.version = @ + 1, !.reports = r]
            IN /\ d \in [version : Nat, status : S, reports : Nat]
               /\ d.version = c.version + 1 /\ d.reports = r /\ d.status = c.status
         /\ LET d == [c EXCEPT !.version = @ + 1, !.status = t]
            IN /\ d \in [version : Nat, status : S, reports : Nat]
               /\ d.version = c.version + 1 /\ d.reports = c.reports /\ d.status = t
<1>1. PICK b : b = [c EXCEPT !.version = @ + 1]
  OBVIOUS
<1>2. /\ b \in [version : Nat, status : S, reports : Nat] /\ b.version = c.version + 1
      /\ b.status = c.status /\ b.reports = c.reports
  BY <1>1
<1>3. PICK d : d = [b EXCEPT !.reports = r]
  OBVIOUS
<1>4. PICK e : e = [b EXCEPT !.status = t]
  OBVIOUS
<1>5. /\ d \in [version : Nat, status : S, reports : Nat] /\ d.version = c.version + 1
      /\ d.reports = r /\ d.status = c.status
  BY <1>2, <1>3
<1>6. /\ e \in [version : Nat, status : S, reports : Nat] /\ e.version = c.version + 1
      /\ e.reports = c.reports /\ e.status = t
  BY <1>2, <1>4
<1> QED BY <1>1, <1>3, <1>4, <1>5, <1>6

LEMMA WriteHolds ==
  ASSUME LedgerInv, NEW tx \in endorsed, CommitTx(tx), ~tx.noop
  PROVE  LedgerInv'
<1> DEFINE k == tx.kind  e == tx.event
<1>0. k \in Kinds /\ Of(k, e) /\ e \in EventIds /\ TxKnows(tx)
  BY DEF LedgerInv, LedgerTypeOK, TxKnows
<1>1. /\ StillRead(tx) /\ endorsed' = endorsed \ {tx}
      /\ complaint' = IF k = "submission" THEN UpsertComplaintSubmission(e)
                                          ELSE UpdateComplaintStatus(e)
      /\ applied' = Append(applied, e) /\ claimed' = claimed \cup {e}
      /\ UNCHANGED <<endorsements, settled>>
  BY DEF CommitTx
<1>2. e \notin claimed /\ tx.read = complaint.version
  BY <1>1 DEF StillRead, ClaimEvent
<1>3. PICK n \in DOMAIN Events[k] : Events[k][n] = e
  BY <1>0, EventFacts
<1>4. MayWrite(tx, n)
  BY <1>0, <1>1, <1>3 DEF TxKnows
<1>5. /\ \A q \in DOMAIN Events[k] : Has(k, q) => q < n
      /\ \A p \in settled[k] + 1..n - 1 : Has(k, p)
      /\ k = "status" => complaint.version # 0
  BY <1>4 DEF MayWrite
<1> HIDE DEF k, e
<1>6. /\ complaint \in [version : Nat, status : {"none", "FILED"} \cup EventIds, reports : Nat]
      /\ complaint.version = Len(applied) /\ claimed = Range(applied)
  BY DEF LedgerInv, LedgerTypeOK, RecordFollowsHistory
<1>7. k = "submission" => ReportsOf[e] \in Nat
  BY <1>0, LedgerAssumption DEF Of
<1>8. k = "submission" \/ k = "status"
  BY <1>0, KindsDiffer
<1>9. /\ complaint' \in [version : Nat, status : {"none", "FILED"} \cup EventIds, reports : Nat]
      /\ complaint'.version = complaint.version + 1
      /\ k = "submission" => /\ complaint'.reports = ReportsOf[e]
                             /\ complaint'.status = IF complaint.version = 0 THEN "FILED" ELSE complaint.status
      /\ k = "status" => complaint'.reports = complaint.reports /\ complaint'.status = e
  <2> DEFINE Statuses == {"none", "FILED"} \cup EventIds
  <2>0. "FILED" \in Statuses /\ e \in Statuses
    BY <1>0
  <2>5. complaint \in [version : Nat, status : Statuses, reports : Nat]
    BY <1>6
  <2> HIDE DEF Statuses
  <2>1. CASE k = "submission" /\ complaint.version = 0
    <3>1. complaint' = [version |-> 1, status |-> "FILED", reports |-> ReportsOf[e]]
      BY <1>1, <2>1 DEF UpsertComplaintSubmission
    <3>2. complaint' \in [version : Nat, status : Statuses, reports : Nat]
      BY <1>7, <2>0, <2>1, <3>1
    <3> QED BY <2>1, <3>1, <3>2 DEF Statuses
  <2>2. CASE k = "submission" /\ complaint.version # 0
    <3>1. complaint' = [complaint EXCEPT !.version = @ + 1, !.reports = ReportsOf[e]]
      BY <1>1, <2>2 DEF UpsertComplaintSubmission
    <3>2. /\ complaint' \in [version : Nat, status : Statuses, reports : Nat]
          /\ complaint'.version = complaint.version + 1 /\ complaint'.reports = ReportsOf[e]
          /\ complaint'.status = complaint.status
      <4>1. ReportsOf[e] \in Nat
        BY <1>7, <2>2
      <4> QED BY <2>0, <2>5, <3>1, <4>1, RecordWith
    <3> QED BY <2>2, <3>2 DEF Statuses
  <2>3. CASE k = "status"
    <3>1. complaint' = [complaint EXCEPT !.version = @ + 1, !.status = e]
      BY <1>1, <2>3 DEF UpdateComplaintStatus
    <3>2. /\ complaint' \in [version : Nat, status : Statuses, reports : Nat]
          /\ complaint'.version = complaint.version + 1 /\ complaint'.reports = complaint.reports
          /\ complaint'.status = e
      <4>1. 0 \in Nat
        OBVIOUS
      <4> QED BY <2>0, <2>5, <3>1, <4>1, RecordWith
    <3> QED BY <2>3, <3>2 DEF Statuses
  <2> QED BY <1>8, <2>1, <2>2, <2>3
<1>10. /\ applied \in Seq(EventIds) /\ applied' \in Seq(EventIds)
       /\ Len(applied) \in Nat /\ Len(applied') = Len(applied) + 1
       /\ DOMAIN applied = 1..Len(applied) /\ DOMAIN applied' = 1..Len(applied) + 1
       /\ applied'[Len(applied) + 1] = e
       /\ \A i \in DOMAIN applied : applied'[i] = applied[i] /\ i \in DOMAIN applied'
       /\ Range(applied') = Range(applied) \cup {e}
  BY <1>0, <1>1, AppliedLonger
<1>11. e \in claimed' /\ claimed \subseteq claimed'
  BY <1>1
<1>12. LedgerTypeOK'
  <2>1. /\ claimed' \subseteq EventIds
        /\ endorsed' \subseteq [id : 1..MaxEndorsed, event : EventIds, kind : Kinds,
                                read : Nat, noop : BOOLEAN]
        /\ endorsements' \in 0..MaxEndorsed
    BY <1>0, <1>1 DEF LedgerInv, LedgerTypeOK
  <2> QED BY <1>9, <1>10, <1>11, <2>1, FlushMoves DEF LedgerTypeOK, e
<1>13. AppliedInOrder'
  <2> SUFFICES ASSUME NEW l \in Kinds, NEW i \in DOMAIN applied', NEW j \in DOMAIN applied',
                      i < j, Of(l, applied'[i]), Of(l, applied'[j])
               PROVE  Place(l, applied'[i]) < Place(l, applied'[j])
    BY DEF AppliedInOrder
  <2>1. i \in DOMAIN applied /\ applied'[i] = applied[i]
    BY <1>10
  <2>2. CASE j \in DOMAIN applied
    BY <1>10, <2>1, <2>2 DEF LedgerInv, AppliedInOrder
  <2>3. CASE j \notin DOMAIN applied
    <3>1. applied'[j] = e
      BY <1>10, <2>3
    <3>2. l = k
      BY <1>0, <3>1, KindsDiffer
    <3>3. PICK q \in DOMAIN Events[k] : Events[k][q] = applied[i]
      BY <1>0, <2>1, <3>2, EventFacts
    <3>4. applied[i] \in claimed
      BY <1>6, <2>1 DEF Range
    <3>5. q < n
      BY <1>5, <3>3, <3>4 DEF Has
    <3>6. Place(k, applied[i]) = q /\ Place(k, e) = n
      BY <1>0, <1>3, <3>3, PlaceIs
    <3> QED BY <2>1, <3>1, <3>2, <3>5, <3>6
  <2> QED BY <2>2, <2>3
<1>14. RecordFollowsHistory'
  <2>1. complaint'.version = Len(applied')
    BY <1>6, <1>9, <1>10
  <2>2. Of("submission", applied'[1])
    <3>1. CASE applied = <<>>
      <4>1. k = "submission" /\ applied'[1] = e
        BY <1>5, <1>6, <1>8, <1>10, <3>1
      <4> QED BY <1>0, <4>1
    <3>2. CASE applied # <<>>
      <4>1. 1 \in DOMAIN applied
        BY <1>10, <3>2
      <4> QED BY <1>10, <3>2, <4>1 DEF LedgerInv, RecordFollowsHistory
    <3> QED BY <3>1, <3>2
  <2>3. ASSUME NEW x \in EventIds, Latest(k, x)' PROVE x = e
    <3>1. PICK i \in DOMAIN applied' : /\ applied'[i] = x /\ Of(k, x)
                                       /\ \A j \in DOMAIN applied' : Of(k, applied'[j]) => j <= i
      BY <2>3 DEF Latest
    <3>2. Len(applied) + 1 \in DOMAIN applied'
      BY <1>10
    <3>3. Len(applied) + 1 <= i
      BY <1>0, <1>10, <3>1, <3>2
    <3> QED BY <1>10, <3>1, <3>3
  <2>4. ASSUME NEW l \in Kinds, l # k, NEW x \in EventIds, Latest(l, x)' PROVE Latest(l, x)
    <3>1. PICK i \in DOMAIN applied' : /\ applied'[i] = x /\ Of(l, x)
                                       /\ \A j \in DOMAIN applied' : Of(l, applied'[j]) => j <= i
      BY <2>4 DEF Latest
    <3>2. x # e
      BY <1>0, <2>4, <3>1, KindsDiffer
    <3>3. i \in DOMAIN applied
      BY <1>10, <3>1, <3>2
    <3>4. applied[i] = x /\ \A j \in DOMAIN applied : Of(l, applied[j]) => j <= i
      BY <1>10, <3>1, <3>3
    <3> QED BY <3>1, <3>3, <3>4 DEF Latest
  <2>5. /\ \A x \in EventIds : Latest("submission", x) => complaint.reports = ReportsOf[x]
        /\ \A x \in EventIds : Latest("status", x) => complaint.status = x
        /\ (\A i \in DOMAIN applied : ~Of("status", applied[i]))
             => complaint.status = IF applied = <<>> THEN "none" ELSE "FILED"
    BY DEF LedgerInv, RecordFollowsHistory
  <2>6. applied' # <<>> /\ (complaint.version = 0 <=> applied = <<>>)
    BY <1>6, <1>10
  <2>7. "submission" \in Kinds /\ "status" \in Kinds
    BY KindsDiffer
  <2>8. ASSUME NEW x \in EventIds, Latest("submission", x)' PROVE complaint'.reports = ReportsOf[x]
    <3>1. CASE k = "submission"
      BY <1>9, <2>3, <2>8, <3>1
    <3>2. CASE k # "submission"
      BY <1>8, <1>9, <2>4, <2>5, <2>7, <2>8, <3>2
    <3> QED BY <3>1, <3>2
  <2>9. ASSUME NEW x \in EventIds, Latest("status", x)' PROVE complaint'.status = x
    <3>1. CASE k = "status"
      BY <1>9, <2>3, <2>9, <3>1
    <3>2. CASE k # "status"
      <4>1. Latest("status", x)
        BY <2>4, <2>7, <2>9, <3>2
      <4>2. applied # <<>>
        BY <4>1 DEF Latest
      <4> QED BY <1>8, <1>9, <2>5, <2>6, <3>2, <4>1, <4>2
    <3> QED BY <3>1, <3>2
  <2>10. ASSUME \A i \in DOMAIN applied' : ~Of("status", applied'[i]) PROVE complaint'.status = "FILED"
    <3>1. Len(applied) + 1 \in DOMAIN applied' /\ \A i \in DOMAIN applied : ~Of("status", applied[i])
      BY <1>10, <2>10
    <3>2. k # "status"
      BY <1>0, <1>10, <2>10, <3>1
    <3> QED BY <1>8, <1>9, <2>5, <2>6, <3>1, <3>2
  <2> QED BY <2>1, <2>2, <2>6, <2>8, <2>9, <2>10 DEF RecordFollowsHistory
<1>15. NoGaps'
  <2> SUFFICES ASSUME NEW l \in Kinds, NEW q \in DOMAIN Events[l], Has(l, q)',
                      NEW p \in settled[l] + 1..q
               PROVE  Has(l, p)'
    BY <1>1 DEF NoGaps
  <2>1. CASE Has(l, q)
    BY <1>11, <2>1 DEF LedgerInv, NoGaps, Has
  <2>2. CASE ~Has(l, q)
    <3>1. Events[l][q] = e
      BY <1>1, <2>2 DEF Has
    <3>2. l = k
      BY <1>0, <3>1, EventFacts, KindsDiffer
    <3>3. q = n
      BY <1>0, <1>3, <3>1, <3>2, EventFacts
    <3>4. p = n \/ p \in settled[k] + 1..n - 1
      <4>1. settled[l] \in Nat /\ n \in Nat /\ l = k
        <5>1. settled[l] \in Nat
          BY DEF LedgerInv, LedgerTypeOK
        <5>2. n \in 1..Len(Events[k]) /\ Len(Events[k]) \in Nat
          BY <1>0, EventFacts
        <5> QED BY <3>2, <5>1, <5>2
      <4> QED BY <3>3, <4>1
    <3> QED BY <1>3, <1>5, <1>11, <3>2, <3>4 DEF Has
  <2> QED BY <2>1, <2>2
<1>16. ASSUME NEW s \in endorsed' PROVE TxKnows(s)'
  <2>1. TxKnows(s) /\ s \in endorsed /\ s.read \in Nat
    BY <1>1 DEF LedgerInv, LedgerTypeOK
  <2>2. s.id <= endorsements' /\ s.read <= complaint'.version /\ (s.noop => s.event \in claimed')
        /\ Of(s.kind, s.event)
    BY <1>1, <1>6, <1>9, <2>1 DEF TxKnows
  <2>3. (s.id = awaited => Pending(s.kind) /\ s.event = NextEvent(s.kind))'
    <3>1. s.id # awaited' \/ UNCHANGED <<awaited, next>>
      BY <1>11, FlushMoves DEF e
    <3> QED BY <2>1, <3>1 DEF TxKnows, Pending, NextEvent
  <2>4. ~s.noop => ~StillRead(s)'
    BY <1>6, <1>9, <2>1 DEF TxKnows, StillRead
  <2> QED BY <2>2, <2>3, <2>4 DEF TxKnows
<1>17. \A s, t \in endorsed' : s.id = t.id => s = t
  BY <1>1 DEF LedgerInv
<1>18. claimed' = Range(applied')
  BY <1>1, <1>6, <1>10
<1>19. awaited' <= endorsements' /\ SubmittedIsClaimed'
  BY <1>11, FlushMoves DEF e
<1> QED BY <1>12, <1>13, <1>14, <1>15, <1>16, <1>17, <1>18, <1>19 DEF LedgerInv

LEMMA LedgerNextHolds == LedgerInv /\ [LedgerNext]_ledgerVars => LedgerInv'
<1>1. ASSUME LedgerInv, UNCHANGED ledgerVars PROVE LedgerInv'
  <2>1. UNCHANGED <<complaint, applied, claimed, endorsed, endorsements, awaited, next, settled>>
    BY <1>1 DEF ledgerVars
  <2>2. LedgerTypeOK' /\ SubmittedIsClaimed' /\ \A k \in Kinds : settled[k] <= settled'[k]
    BY <1>1, <2>1 DEF LedgerInv, LedgerTypeOK, SubmittedIsClaimed
  <2> QED BY <1>1, <2>1, <2>2, TxsStay
<1>2. ASSUME LedgerInv, LedgerNext PROVE LedgerInv'
  BY <1>2, SubmitHolds, RepeatHolds, WriteHolds, DroppingHolds, CallFailsHolds, FlushEndsHolds
     DEF LedgerNext
<1> QED BY <1>1, <1>2

-----------------------------------------------------------------------------
(* The contracts together.                                                 *)

\* Each contract runs, or rests, as if it were alone.
LEMMA ContractsAreApart ==
  Spec => BudgetSpec /\ RoadSpec /\ AuthoritySpec /\ RoutingSpec /\ AnchorSpec /\ LedgerSpec
<1>1. Init => BudgetInit /\ RoadInit /\ AuthorityInit /\ RoutingInit /\ AnchorInit /\ LedgerInit
  BY DEF Init
<1>2. ASSUME [Next]_vars
      PROVE  /\ [BudgetNext]_budgetVars /\ [RoadNext]_roadVars /\ [AuthorityNext]_authorityVars
             /\ [RoutingNext]_routingVars /\ [AnchorNext]_anchorLedgerVars /\ [LedgerNext]_ledgerVars
  <2>1. CASE Next
    BY <2>1, Zenon DEF Next
  <2>2. CASE UNCHANGED vars
    BY <2>2 DEF vars
  <2> QED BY <1>2, <2>1, <2>2
<1> QED BY <1>1, <1>2, PTL DEF Spec, BudgetSpec, RoadSpec, AuthoritySpec, RoutingSpec, AnchorSpec,
    LedgerSpec

LEMMA BudgetsHold == BudgetSpec => []BudgetInv
  BY BudgetInitHolds, BudgetNextHolds, PTL DEF BudgetSpec

LEMMA ContractsHold == RoadSpec => []ContractsUnique
<1>1. RoadInit => ContractsUnique
  BY DEF RoadInit, ContractsUnique
<1>2. RoadTypeOK /\ ContractsUnique /\ [RoadNext]_roadVars => ContractsUnique'
  BY ContractsKnown
<1> QED BY <1>1, <1>2, RoadsHold, PTL DEF RoadSpec

LEMMA AuthoritiesHold == AuthoritySpec => []AuthorityInv
<1>1. AuthorityInit => AuthorityInv
  BY AuthorityInitHolds
<1>2. AuthorityInv /\ [AuthorityNext]_authorityVars => AuthorityInv'
  BY AuthorityNextHolds
<1> QED BY <1>1, <1>2, PTL DEF AuthoritySpec

LEMMA RoutingHolds == RoutingSpec => []RoutingInv
<1>1. RoutingInit => RoutingInv
  BY RoutingInitHolds
<1>2. RoutingInv /\ [RoutingNext]_routingVars => RoutingInv'
  BY RoutingNextHolds
<1> QED BY <1>1, <1>2, PTL DEF RoutingSpec

LEMMA AnchorsHold == AnchorSpec => [](AnchorTypeOK /\ OneOfAKind)
<1>1. AnchorInit => AnchorTypeOK /\ OneOfAKind
  BY DEF AnchorInit, AnchorTypeOK, OneOfAKind
<1>2. (AnchorTypeOK /\ OneOfAKind) /\ [AnchorNext]_anchorLedgerVars => (AnchorTypeOK /\ OneOfAKind)'
  BY AnchorNextHolds
<1> QED BY <1>1, <1>2, PTL DEF AnchorSpec

LEMMA LedgersHold == LedgerSpec => []LedgerInv
  BY LedgerInitHolds, LedgerNextHolds, PTL DEF LedgerSpec

\* The records of every contract: expenditures name a release and releases a
\* sanction of their road, the summaries are the sums of their histories and their
\* flags tell, copies of an authority or a rule with the record's version are the
\* record, and escalation chains lead from office to office until they are stuck.
THEOREM ContractsKeepTheirRecords == Spec => []RecordsHold
<1>1. BudgetInv => BudgetInvariant
  BY BudgetInvIsEnough
<1>2. AuthorityInv => AuthorityTypeOK /\ AuthorityCopiesTell
  BY DEF AuthorityInv
<1>3. RoutingInv => RoutingTypeOK /\ RulesAreVersioned /\ ChainsLead
  BY ChainsDoLead DEF RoutingInv
<1>4. BudgetInv /\ RoadTypeOK /\ AuthorityInv /\ RoutingInv /\ AnchorTypeOK => RecordsHold
  BY <1>1, <1>2, <1>3 DEF RecordsHold
<1> QED BY <1>4, ContractsAreApart, BudgetsHold, RoadsHold, AuthoritiesHold, RoutingHolds,
    AnchorsHold, PTL

\* A contract awarded stays in its road's history, an anchor is never replaced, and
\* the log of an authority's actions loses an entry only to one of the same second.
THEOREM ContractsKeepWhatTheyWrote == Spec => RecordsKept
<1>1. RoadTypeOK /\ ContractsUnique /\ RoadNext =>
        \A d \in Roads : LET history == GetContractHistory(d) IN
          /\ history \subseteq history'
          /\ \A a, b \in history' : a.id = b.id => a = b
          /\ roads[d].value.contractor # roads'[d].value.contractor =>
               \/ \E a \in history' \ history : a.contractor = roads'[d].value.contractor
               \/ history' = history /\ roads'[d].version = roads[d].version + 1
  BY AwardsAreKept
<1>2. RoadSpec => ContractsKept
  BY <1>1, RoadsHold, ContractsHold, PTL DEF RoadSpec, ContractsKept
<1>3. AnchorTypeOK /\ OneOfAKind /\ [AnchorNext]_anchorLedgerVars =>
        /\ roots \subseteq roots' /\ escalations \subseteq escalations'
        /\ resolutions \subseteq resolutions'
        /\ \A a, b \in roots' : a.root = b.root => a = b
        /\ \A a, b \in escalations' : a.of = b.of /\ a.at = b.at => a = b
        /\ \A a, b \in resolutions' : a.of = b.of => a = b
  BY AnchorNextHolds DEF OneOfAKind
<1>4. AnchorSpec => AnchorsKept
  BY <1>3, AnchorsHold, PTL DEF AnchorSpec, AnchorsKept
<1>5. AuthorityInv /\ AuthorityNext =>
        \A x \in Cases : LET history == GetComplaintActionHistory(x) IN
          \A l \in history \ history' : \E m \in history' \ history :
            m.by = l.by /\ m.at = l.at
  BY OthersStayLogged
<1>6. AuthoritySpec => LogKeepsOthers
  BY <1>5, AuthoritiesHold, PTL DEF AuthoritySpec, LogKeepsOthers
<1> QED BY <1>2, <1>4, <1>6, ContractsAreApart, PTL DEF RecordsKept

\* What a complaint on the ledger says is what the last event of each topic said,
\* each event applied once and in its topic's order, and what a flush counts as
\* anchored is there: although a transaction may commit after its client's deadline,
\* when the flush has started over or given its event up.
THEOREM LedgerFollowsItsTopics == Spec => []LedgerInvariant
<1>1. LedgerInv => LedgerInvariant
  BY DEF LedgerInv, LedgerInvariant
<1> QED BY <1>1, ContractsAreApart, LedgersHold, PTL

\* The registry of roads keeps the promise of a store with versions: records change
\* one version at a time, and what a client has read is told by its version.
THEOREM RoadsAreRegisters == Spec => RoadsAreVersioned
  BY ContractsAreApart, RoadsVersioned, PTL

\* UpdateRoad overwrites nothing that its author has not read.
THEOREM RoadUpdatesAreSeen == Spec => NoLostRoadUpdate
  BY ContractsAreApart, RoadUpdatesSeen, PTL
=============================================================================
