---------------------------- MODULE RoadRegistry ----------------------------
(***************************************************************************)
(* The road chaincode (fabric/chaincode/road-registry): versioned road     *)
(* records, the contracts awarded for them, and clients that read a record *)
(* and send it back changed.  A transaction is one action (BudgetRegistry  *)
(* says why).  Name, type, region, engineer and date are one value.        *)
(***************************************************************************)
EXTENDS Naturals, FiniteSets

CONSTANTS
  Roads, SeedRoads,       (* roads, and those of InitLedger                *)
  RoadClients, MspOf,     (* clients and their organisations               *)
  RoadAdmins,             (* clients with an admin certificate             *)
  ContractIds, Contractors, NoContractor, Scores, Details,
  MaxVersion              (* bound on a record's version                   *)

Content == [contractor : Contractors \cup {NoContractor}, score : Scores, details : Details]

ASSUME RoadAssumption ==
  /\ SeedRoads \subseteq Roads /\ RoadAdmins \subseteq RoadClients
  /\ MspOf \in [RoadClients -> {"NHAIMSP", "RoadWatchMSP", "ContractorMSP"}]
  /\ Roads # {} /\ Scores # {} /\ Details # {} /\ MaxVersion \in Nat

VARIABLES
  roads,         (* roads[d]: version (0: none) and content                *)
  contracts,     (* ContractRecords, at most one of a road and id          *)
  roadCopies     (* roadCopies[c]: what c last got from GetRoad            *)

roadVars == <<roads, contracts, roadCopies>>

BlankRoad == [contractor |-> NoContractor, score |-> CHOOSE s \in Scores : TRUE,
              details |-> CHOOSE t \in Details : TRUE]

RoadTypeOK ==
  /\ roads \in [Roads -> [version : Nat, value : Content]]
  /\ contracts \subseteq [road : Roads, id : ContractIds, contractor : Contractors]
  /\ roadCopies \in [RoadClients -> [key : Roads, version : Nat, value : Content]]

RoadInit ==
  /\ roads = [d \in Roads |-> [version |-> 0, value |-> BlankRoad]]
  /\ contracts = {}
  /\ roadCopies = [c \in RoadClients |->
       [key |-> CHOOSE d \in Roads : TRUE, version |-> 0, value |-> BlankRoad]]

Exists(d) == roads[d].version > 0
Registrar(c) == MspOf[c] \in {"NHAIMSP", "RoadWatchMSP"}

NextVersionMutant(v) == v
NextVersion(v) == v + 1

Put(d, value) ==
  /\ roads[d].version < MaxVersion
  /\ roads' = [roads EXCEPT ![d] = [version |-> NextVersion(@.version), value |-> value]]

CreateRoad(c, d, value) ==
  /\ Registrar(c) /\ ~Exists(d) /\ Put(d, value)
  /\ UNCHANGED <<contracts, roadCopies>>

\* Seeds that exist are passed over.
RoadInitLedger(c) ==
  /\ Registrar(c) /\ c \in RoadAdmins
  /\ roads' = [d \in Roads |-> IF d \in SeedRoads /\ ~Exists(d)
                 THEN [version |-> 1, value |-> BlankRoad] ELSE roads[d]]
  /\ UNCHANGED <<contracts, roadCopies>>

GetRoad(c, d) ==
  /\ Exists(d)
  /\ roadCopies' = [roadCopies EXCEPT ![c] =
       [key |-> d, version |-> roads[d].version, value |-> roads[d].value]]
  /\ UNCHANGED <<roads, contracts>>

VersionMutant(c, d) == roadCopies[c].version <= roads[d].version
VersionAgrees(c, d) == roadCopies[c].version = roads[d].version

\* The client's version must be the record's; every field is the client's.
UpdateRoad(c, d, value) ==
  /\ Registrar(c) /\ Exists(d)
  /\ roadCopies[c].key = d /\ VersionAgrees(c, d)
  /\ Put(d, value)
  /\ UNCHANGED <<contracts, roadCopies>>

\* Contract and road in one transaction, whatever version the client knows.
AssignContractor(c, d, i, k) ==
  /\ MspOf[c] = "NHAIMSP" /\ Exists(d)
  /\ ~\E a \in contracts : a.road = d /\ a.id = i
  /\ contracts' = contracts \cup {[road |-> d, id |-> i, contractor |-> k]}
  /\ Put(d, [roads[d].value EXCEPT !.contractor = k])
  /\ UNCHANGED roadCopies

UpdateConditionScore(c, d, s) ==
  /\ MspOf[c] = "RoadWatchMSP" /\ Exists(d)
  /\ Put(d, [roads[d].value EXCEPT !.score = s])
  /\ UNCHANGED <<contracts, roadCopies>>

RoadNext ==
  \E c \in RoadClients :
    \/ RoadInitLedger(c)
    \/ \E d \in Roads :
         \/ GetRoad(c, d)
         \/ \E value \in Content : CreateRoad(c, d, value) \/ UpdateRoad(c, d, value)
         \/ \E i \in ContractIds, k \in Contractors : AssignContractor(c, d, i, k)
         \/ \E s \in Scores : UpdateConditionScore(c, d, s)

RoadSpec == RoadInit /\ [][RoadNext]_roadVars

GetContractHistory(d) == {a \in contracts : a.road = d}

-----------------------------------------------------------------------------
(* Properties.                                                             *)

RoadStore == INSTANCE VersionedStore WITH
  StoreKeys <- Roads, Values <- Content, Clients <- RoadClients,
  Blank <- BlankRoad, store <- roads, copies <- roadCopies

\* The condition sensor and the contract award change a road behind the back of
\* a client that is editing it; UpdateRoad must refuse that client's record.
\* The registry keeps the promise of VersionedStore, and with it this one.
RoadsAreVersioned == RoadStore!StoreSpec

\* An update overwrites nothing its author has not read.
NoLostRoadUpdate ==
  [][\A c \in RoadClients, d \in Roads, value \in Content :
       UpdateRoad(c, d, value) => roadCopies[c].value = roads[d].value]_roadVars

\* What GetContractHistory lists is never rewritten, an award with a used id
\* being refused, and a road's record names whom one of the awards or an update
\* put there.
ContractsKept ==
  [][\A d \in Roads : LET history == GetContractHistory(d) IN
       /\ history \subseteq history'
       /\ \A a, b \in history' : a.id = b.id => a = b
       /\ roads[d].value.contractor # roads'[d].value.contractor =>
            \/ \E a \in history' \ history : a.contractor = roads'[d].value.contractor
            \/ history' = history /\ roads'[d].version = roads[d].version + 1]_roadVars
=============================================================================
