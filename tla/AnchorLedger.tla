---------------------------- MODULE AnchorLedger ----------------------------
(***************************************************************************)
(* The anchors of the complaint chaincode (fabric/chaincode/complaint-     *)
(* anchor): roots of batches, escalations and resolutions.  The Go and the *)
(* deployed JavaScript contract agree on them, but for the seeds: Go's     *)
(* InitLedger writes all three.  A transaction is one action               *)
(* (BudgetRegistry says why); its second is the client's.                  *)
(***************************************************************************)
EXTENDS Naturals

CONSTANTS
  Roots, SeedRoot,        (* Merkle roots, and the one InitLedger writes   *)
  Anchored, SeedAnchored, (* complaints, and InitLedger's                  *)
  Routes,                 (* pairs of authorities: from and to             *)
  Tiers,                  (* tiers that clients submit                     *)
  Evidence,               (* repair CIDs with capture hashes               *)
  AnchorSeconds           (* transaction timestamps                        *)

ASSUME AnchorAssumption ==
  /\ SeedRoot \in Roots /\ SeedAnchored \in Anchored
  /\ Tiers \subseteq Nat /\ AnchorSeconds \subseteq Nat

MaxTier == 5
Msps == {"NHAIMSP", "RoadWatchMSP", "ContractorMSP"}
Writers == {"NHAIMSP", "RoadWatchMSP"}

VARIABLES
  roots,         (* MerkleAnchors                                          *)
  escalations,   (* EscalationAnchors                                      *)
  resolutions    (* ResolutionAnchors                                      *)

anchorLedgerVars == <<roots, escalations, resolutions>>

AnchorTypeOK ==
  /\ roots \subseteq [root : Roots, by : Writers, at : AnchorSeconds]
  /\ escalations \subseteq [of : Anchored, route : Routes, tier : 1..MaxTier, at : AnchorSeconds]
  /\ resolutions \subseteq [of : Anchored, by : Writers, evidence : Evidence, at : AnchorSeconds]

AnchorInit == roots = {} /\ escalations = {} /\ resolutions = {}

Rooted(r) == \E a \in roots : a.root = r
EscalatedAtMutant(x, ts) == \E e \in escalations : e.of = x /\ e.at > ts
EscalatedAt(x, ts) == \E e \in escalations : e.of = x /\ e.at = ts
Resolved(x) == \E a \in resolutions : a.of = x

\* A root that is anchored already is passed over without an error.
SubmitMerkleRoot(msp, r, ts) ==
  /\ msp \in Writers
  /\ roots' = IF Rooted(r) THEN roots ELSE roots \cup {[root |-> r, by |-> msp, at |-> ts]}
  /\ UNCHANGED <<escalations, resolutions>>

\* The key is the complaint and the second: a second escalation of a complaint
\* in the same second is refused, a tier below an earlier one is not.
AnchorEscalation(msp, x, route, tier, ts) ==
  /\ msp = "RoadWatchMSP"
  /\ route[1] # route[2] /\ tier \in 1..MaxTier /\ ~EscalatedAt(x, ts)
  /\ escalations' = escalations \cup {[of |-> x, route |-> route, tier |-> tier, at |-> ts]}
  /\ UNCHANGED <<roots, resolutions>>

AnchorResolution(msp, x, evidence, ts) ==
  /\ msp \in Writers /\ ~Resolved(x)
  /\ resolutions' = resolutions \cup {[of |-> x, by |-> msp, evidence |-> evidence, at |-> ts]}
  /\ UNCHANGED <<roots, escalations>>

\* Each seed is written unless one of its kind is there.
AnchorInitLedger(msp, route, evidence, ts) ==
  /\ msp \in Writers
  /\ roots' = IF Rooted(SeedRoot) THEN roots
       ELSE roots \cup {[root |-> SeedRoot, by |-> msp, at |-> ts]}
  /\ escalations' = IF \E e \in escalations : e.of = SeedAnchored THEN escalations
       ELSE escalations \cup {[of |-> SeedAnchored, route |-> route, tier |-> 1, at |-> ts]}
  /\ resolutions' = IF Resolved(SeedAnchored) THEN resolutions
       ELSE resolutions \cup
         {[of |-> SeedAnchored, by |-> msp, evidence |-> evidence, at |-> ts]}

AnchorNext ==
  \E msp \in Msps, ts \in AnchorSeconds :
    \/ \E r \in Roots : SubmitMerkleRoot(msp, r, ts)
    \/ \E x \in Anchored, route \in Routes, tier \in Tiers :
         AnchorEscalation(msp, x, route, tier, ts)
    \/ \E x \in Anchored, evidence \in Evidence : AnchorResolution(msp, x, evidence, ts)
    \/ \E route \in Routes, evidence \in Evidence : AnchorInitLedger(msp, route, evidence, ts)

AnchorSpec == AnchorInit /\ [][AnchorNext]_anchorLedgerVars

-----------------------------------------------------------------------------
(* Properties.                                                             *)

\* What is anchored stays as it was first written: one root record per root,
\* one escalation per complaint and second, one resolution per complaint, none
\* ever replaced, whoever submits what again and whenever InitLedger is run.
AnchorsKept ==
  [][/\ roots \subseteq roots' /\ escalations \subseteq escalations'
     /\ resolutions \subseteq resolutions'
     /\ \A a, b \in roots' : a.root = b.root => a = b
     /\ \A a, b \in escalations' : a.of = b.of /\ a.at = b.at => a = b
     /\ \A a, b \in resolutions' : a.of = b.of => a = b]_anchorLedgerVars
=============================================================================
