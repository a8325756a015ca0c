------------------------------ MODULE MCGateway ------------------------------
(***************************************************************************)
(* What happens to a complaint, side by side: the queue it waits in on a   *)
(* citizen's device, the permits a write needs, the reports that become    *)
(* complaints, the routes and passes that move them on, and the cached     *)
(* lists they are read from.                                               *)
(* They share no variable: a behaviour exercises one of them (subject)     *)
(* while the others rest in their initial states.                          *)
(* Admission: a request each of two citizens, of whom one at a time may    *)
(* write; a window admits one of each, and two in all.  Intake: three      *)
(* portal reports of a hole, two of them from one cell, and a citizen's    *)
(* report of a lamp.  Lifecycle: two complaints, one request at a time.    *)
(* Cache: two processes, the first of which serves two readers.  Offline:  *)
(* a report with a photo, which may be refused, and one without; two tabs  *)
(* with a drain each, and two lost calls.                                  *)
(***************************************************************************)
EXTENDS TLC, Admission, CitizenIntake, ComplaintLifecycle, ReadCache,
  OfflineQueue

CONSTANTS a, b, anna, bela, global, c1, c2, r1, r2, r3, r4, cora, dora, edna,
          i1, i2, d1, d2, t1, t2

VARIABLE subject

TwoRequests == {a, b}
ThreeCounters == {anna, bela, global}
RouteThenGlobal == [r \in TwoRequests |-> <<IF r = a THEN anna ELSE bela, global>>]
RateLimits  == [x \in ThreeCounters |-> IF x = global THEN 2 ELSE 1]
OneAtATime  == [x \in ThreeCounters |-> 1]

FourReports == {r1, r2, r3, r4}
OneLamp == [r \in FourReports |-> IF r = r4 THEN "lamp" ELSE "hole"]
TwoCells == [r \in FourReports |-> IF r = r3 THEN "east" ELSE "west"]

\* Twenty points, or twenty-five, take the contractor into the next band.
JustTrusted == {510}

ThreeReaders == {cora, dora, edna}
FirstServesTwo == [r \in ThreeReaders |-> IF r = edna THEN "two" ELSE "one"]

TwoDrains == {d1, d2}
OneEach == [d \in TwoDrains |-> IF d = d1 THEN t1 ELSE t2]

Alike == Permutations({c1, c2}) \cup Permutations({r1, r2}) \cup Permutations({cora, dora})

gatewayVars == <<subject, vars, intakeVars, lifecycleVars, cacheVars, offlineVars>>

GatewayInit ==
  /\ subject \in {"admission", "intake", "lifecycle", "cache", "offline"}
  /\ Init /\ IntakeInit /\ LifecycleInit /\ CacheInit /\ OfflineInit
  /\ subject # "lifecycle" => assigned = {}
  /\ subject # "offline" => refused = {}

GatewayNext ==
  /\ UNCHANGED subject
  /\ \/ /\ subject = "admission" /\ Next
        /\ UNCHANGED <<intakeVars, lifecycleVars, cacheVars, offlineVars>>
     \/ /\ subject = "intake" /\ IntakeNext
        /\ UNCHANGED <<vars, lifecycleVars, cacheVars, offlineVars>>
     \/ /\ subject = "lifecycle" /\ LifecycleNext
        /\ UNCHANGED <<vars, intakeVars, cacheVars, offlineVars>>
     \/ /\ subject = "cache" /\ CacheNext
        /\ UNCHANGED <<vars, intakeVars, lifecycleVars, offlineVars>>
     \/ /\ subject = "offline" /\ OfflineNext
        /\ UNCHANGED <<vars, intakeVars, lifecycleVars, cacheVars>>

GatewaySpec == GatewayInit /\ [][GatewayNext]_gatewayVars
=============================================================================
