-------------------------- MODULE AuthorityRegistry --------------------------
(***************************************************************************)
(* The authority chaincode (fabric/chaincode/authority-registry): records  *)
(* of authorities, versioned like those of roads, and the log of what they *)
(* did about complaints.  A transaction is one action (BudgetRegistry says *)
(* why); its second is the client's.  Name, role and area are one value.   *)
(***************************************************************************)
EXTENDS Naturals, FiniteSets

CONSTANTS
  Officers,                  (* authority ids                              *)
  FirstSeed, OtherSeeds,     (* those InitLedger writes                    *)
  Posts,                     (* what a record says besides its status      *)
  AuthorityClients,          (* clients of NHAIMSP, administrators all     *)
  Cases, ActionTypes,        (* complaints; AllowedActionTypes             *)
  Seconds,                   (* transaction timestamps                     *)
  MaxAuthorityVersion, MaxLog  (* bounds on versions and on the log        *)

ASSUME AuthorityAssumption ==
  /\ FirstSeed \in Officers /\ OtherSeeds \subseteq Officers \ {FirstSeed}
  /\ Seconds \subseteq Nat /\ MaxAuthorityVersion \in Nat /\ MaxLog \in Nat
  /\ {"ACKNOWLEDGED", "RESOLVED"} \subseteq ActionTypes
  /\ Posts # {}

VARIABLES
  officers,      (* officers[o]: version (0: none), post and isActive      *)
  log,           (* ActionLogs                                             *)
  officerCopies, (* what each client last got from GetAuthority            *)
  reseeded       (* authorities that InitLedger found and overwrote        *)

authorityVars == <<officers, log, officerCopies, reseeded>>

Record == [version : Nat, post : Posts, active : BOOLEAN]
NoRecord == [version |-> 0, post |-> CHOOSE p \in Posts : TRUE, active |-> FALSE]

AuthorityTypeOK ==
  /\ officers \in [Officers -> Record]
  /\ log \subseteq [by : Officers, case : Cases, type : ActionTypes, at : Seconds]
  /\ officerCopies \in [AuthorityClients -> [of : Officers, record : Record]]
  /\ reseeded \subseteq Officers

AuthorityInit ==
  /\ officers = [o \in Officers |-> NoRecord] /\ log = {} /\ reseeded = {}
  /\ officerCopies = [c \in AuthorityClients |-> [of |-> FirstSeed, record |-> NoRecord]]

Registered(o) == officers[o].version > 0
Seed == [NoRecord EXCEPT !.version = 1, !.active = TRUE]

\* Only the first seed is looked for; the others are written over.
AuthorityInitLedger ==
  /\ ~Registered(FirstSeed)
  /\ officers' = [o \in Officers |->
       IF o = FirstSeed \/ o \in OtherSeeds THEN Seed ELSE officers[o]]
  /\ reseeded' = reseeded \cup {o \in OtherSeeds : Registered(o)}
  /\ UNCHANGED <<log, officerCopies>>

\* isActive is set whatever the client says.
RegisterAuthority(o, p) ==
  /\ ~Registered(o)
  /\ officers' = [officers EXCEPT ![o] = [version |-> 1, post |-> p, active |-> TRUE]]
  /\ UNCHANGED <<log, officerCopies, reseeded>>

GetAuthority(c, o) ==
  /\ Registered(o)
  /\ officerCopies' = [officerCopies EXCEPT ![c] = [of |-> o, record |-> officers[o]]]
  /\ UNCHANGED <<officers, log, reseeded>>

\* The version must be the record's; an inactive authority may be made active.
UpdateAuthority(c, o, p, active) ==
  /\ Registered(o) /\ officerCopies[c].of = o
  /\ officerCopies[c].record.version = officers[o].version
  /\ officers[o].version < MaxAuthorityVersion
  /\ officers' = [officers EXCEPT ![o] =
       [version |-> @.version + 1, post |-> p, active |-> active]]
  /\ UNCHANGED <<log, officerCopies, reseeded>>

DeactivateMutant(o) ==       \* the version is left
  /\ Registered(o) /\ officers[o].active
  /\ officers' = [officers EXCEPT ![o].active = FALSE]
  /\ UNCHANGED <<log, officerCopies, reseeded>>

DeactivateAuthority(o) ==
  /\ Registered(o) /\ officers[o].active /\ officers[o].version < MaxAuthorityVersion
  /\ officers' = [officers EXCEPT ![o].active = FALSE, ![o].version = @ + 1]
  /\ UNCHANGED <<log, officerCopies, reseeded>>

\* actionKey: authority, second and complaint, not the type of the action.
KeyOfMutant(l) == <<l.by, l.at>>
ActionKey(l) == <<l.by, l.at, l.case>>

LogAction(o, x, type, ts) ==
  /\ Registered(o) /\ officers[o].active /\ Cardinality(log) < MaxLog
  /\ LET entry == [by |-> o, case |-> x, type |-> type, at |-> ts]
     IN log' = {l \in log : ActionKey(l) # ActionKey(entry)} \cup {entry}
  /\ UNCHANGED <<officers, officerCopies, reseeded>>

AuthorityNext ==
  \/ AuthorityInitLedger
  \/ \E o \in Officers :
       \/ DeactivateAuthority(o)
       \/ \E p \in Posts : RegisterAuthority(o, p)
       \/ \E c \in AuthorityClients :
            \/ GetAuthority(c, o)
            \/ \E p \in Posts, active \in BOOLEAN : UpdateAuthority(c, o, p, active)
       \/ \E x \in Cases, type \in ActionTypes, ts \in Seconds : LogAction(o, x, type, ts)

AuthoritySpec == AuthorityInit /\ [][AuthorityNext]_authorityVars

GetComplaintActionHistory(x) == {l \in log : l.case = x}

-----------------------------------------------------------------------------
(* Properties.                                                             *)

\* A client whose copy has the version of the record has the record, so that its
\* update revives nobody who was deactivated meanwhile: until InitLedger is run
\* over authorities registered before, which takes their versions back to 1.
AuthorityCopiesTell ==
  \A c \in AuthorityClients : LET own == officerCopies[c] IN
    own.of \notin reseeded /\ own.record.version = officers[own.of].version
      => own.record = officers[own.of]

\* CalculatePerformanceScore counts what the log holds, and the log holds an
\* entry until the same authority acts on the same complaint in the same second.
\* Actions on other complaints, which one second may well see, are never lost.
LogKeepsOthers ==
  [][\A x \in Cases : LET history == GetComplaintActionHistory(x) IN
       \A l \in history \ history' : \E m \in history' \ history :
         m.by = l.by /\ m.at = l.at]_authorityVars
=============================================================================
