------------------------------ MODULE Admission ------------------------------
(***************************************************************************)
(* Distributed admission control (packages/redis/admission.ts) and the     *)
(* gateway middleware that takes and releases its permits (app.ts).        *)
(*                                                                         *)
(* A permit is a rate counter and an inflight counter in Redis; a request  *)
(* takes all its permits, or none, in one Lua script, and gives them back  *)
(* in a second one when its response finishes or its connection closes.    *)
(* The limits, which adapt to the load every few seconds, are constants    *)
(* here.  A rate window is a key of its own, so it is reset as a whole.    *)
(***************************************************************************)
EXTENDS Integers, Sequences, FiniteSets, FiniteSetsExt

CONSTANTS
  Requests,       (* requests, each of which retries until it is admitted  *)
  Counters,       (* permit targets: a route and principal, or "global"    *)
  Permits,        (* Permits[r]: the targets of r, in the order taken      *)
  MaxRate,        (* MaxRate[x]: maxRequestsPerWindow                      *)
  MaxInflight,    (* MaxInflight[x]: maxInflight                           *)
  MaxAborts,      (* bound on clients that hang up                         *)
  MaxFaults       (* bound on dead processes and failed Redis calls        *)

ASSUME AdmissionAssumption ==
  /\ IsFiniteSet(Requests)
  /\ \A r \in Requests : Permits[r] \in Seq(Counters) /\ Permits[r] # <<>>
       /\ \A i, j \in DOMAIN Permits[r] : Permits[r][i] = Permits[r][j] => i = j
  /\ \A x \in Counters : MaxRate[x] \in Nat \ {0} /\ MaxInflight[x] \in Nat \ {0}
  /\ MaxAborts \in Nat /\ MaxFaults \in Nat

VARIABLES
  rate,           (* rate[x]: the rate counter of the current window       *)
  inflight,       (* inflight[x]: the inflight counter (absent: 0)         *)
  armed,          (* armed[x]: the inflight key has a time to live         *)
  permit,         (* permit[r]: what Redis and the gateway hold of r's     *)
  handler,        (* handler[r]: how far the request itself has come       *)
  gone,           (* clients that have hung up                             *)
  charged,        (* charged[x]: requests admitted in the current window   *)
  orphans,        (* orphans[x]: counted permits nobody will give back     *)
  cut,            (* counters whose TTL ended while a permit was held      *)
  aborts, faults

counterVars == <<rate, inflight, armed>>
ghostVars == <<charged, orphans, cut>>
vars == <<counterVars, permit, handler, gone, ghostVars, aborts, faults>>

Of(r) == {Permits[r][i] : i \in DOMAIN Permits[r]}

\* The permits of r count in Redis: granted, held by the middleware, or being
\* released.
Holding(r) == permit[r] \in {"granted", "held", "releasing"}
Holders(x) == {r \in Requests : x \in Of(r) /\ Holding(r)}

TypeOK ==
  /\ rate \in [Counters -> Nat] /\ armed \in [Counters -> BOOLEAN]
  /\ inflight \in [Counters -> -Cardinality(Requests)..Max({MaxInflight[x] : x \in Counters})]
  /\ permit \in [Requests -> {"none", "granted", "held", "releasing", "given"}]
  /\ handler \in [Requests -> {"idle", "running", "done"}]
  /\ gone \subseteq Requests /\ cut \subseteq Counters
  /\ charged \in [Counters -> Nat] /\ orphans \in [Counters -> Nat]
  /\ aborts \in 0..MaxAborts /\ faults \in 0..MaxFaults

Init ==
  /\ rate = [x \in Counters |-> 0] /\ inflight = [x \in Counters |-> 0]
  /\ armed = [x \in Counters |-> FALSE]
  /\ permit = [r \in Requests |-> "none"] /\ handler = [r \in Requests |-> "idle"]
  /\ gone = {}
  /\ charged = [x \in Counters |-> 0] /\ orphans = [x \in Counters |-> 0] /\ cut = {}
  /\ aborts = 0 /\ faults = 0

Plus(f, xs, n) == [x \in Counters |-> IF x \in xs THEN f[x] + n ELSE f[x]]

\* The permits of r that Redis counts stay counted although nobody is left to
\* release them.
Orphan(rs) ==
  orphans' = [x \in Counters |-> orphans[x] + Cardinality({r \in rs : r \in Holders(x)})]

Fault == faults < MaxFaults /\ faults' = faults + 1 /\ UNCHANGED aborts

-----------------------------------------------------------------------------
(* ACQUIRE_SCRIPT.                                                         *)

RateFull(x) == rate[x] + 1 > MaxRate[x]

FullMutant(x) == RateFull(x) \/ inflight[x] > MaxInflight[x]
Full(x) == RateFull(x) \/ inflight[x] + 1 > MaxInflight[x]

\* The permit that refuses r: the first that is full (0: admitted).
Refuser(r) ==
  LET full == {i \in DOMAIN Permits[r] : Full(Permits[r][i])}
  IN IF full = {} THEN 0 ELSE Min(full)

Before(r, n) == {Permits[r][i] : i \in 1..n - 1}

\* The inflight counters the script increments, if only for a moment.
Touched(r) ==
  LET n == Refuser(r)
  IN IF n = 0 THEN Of(r)
     ELSE Before(r, n) \cup (IF RateFull(Permits[r][n]) THEN {} ELSE {Permits[r][n]})

\* giveBack: what was taken before the refusing permit.
GiveBackMutant(r, n) == Before(r, n - 1)
GiveBackNoRate(r, n) == {}
GiveBack(r, n) == Before(r, n)
GiveBackRate(r, n) == Before(r, n)

\* The increments that remain when the script returns.
KeptInflight(r) == LET n == Refuser(r) IN
  IF n = 0 THEN Of(r) ELSE Before(r, n) \ GiveBack(r, n)
KeptRate(r) == LET n == Refuser(r) IN
  IF n = 0 THEN Of(r) ELSE Before(r, n) \ GiveBackRate(r, n)

\* EXPIRE, by the request whose INCR returned 1.
ArmsSecond(x) == inflight[x] = 1
ArmsNever(x) == FALSE
Arms(x) == inflight[x] = 0

Script(r) ==
  /\ inflight' = Plus(inflight, KeptInflight(r), 1)
  /\ rate' = Plus(rate, KeptRate(r), 1)
  /\ armed' = [x \in Counters |-> armed[x] \/ (x \in Touched(r) /\ Arms(x))]
  /\ charged' = Plus(charged, IF Refuser(r) = 0 THEN Of(r) ELSE {}, 1)

-----------------------------------------------------------------------------
(* The middleware.                                                         *)

\* The script runs: admitted, or refused with a 429 and tried again later.
Acquire(r) ==
  /\ handler[r] = "idle" /\ permit[r] = "none"
  /\ Script(r)
  /\ permit' = IF Refuser(r) = 0 THEN [permit EXCEPT ![r] = "granted"] ELSE permit
  /\ UNCHANGED <<handler, gone, orphans, cut, aborts, faults>>

\* The reply is lost: a 503, and the permits stay taken.
AcquireFails(r) ==
  /\ handler[r] = "idle" /\ permit[r] = "none" /\ Fault
  /\ Script(r) /\ orphans' = Plus(orphans, IF Refuser(r) = 0 THEN Of(r) ELSE {}, 1)
  /\ UNCHANGED <<permit, handler, gone, cut>>

\* The reply arrives: the middleware listens for finish and close, and the route
\* handler starts.  A client that hung up meanwhile has had its close event.
Admit(r) ==
  /\ permit[r] = "granted"
  /\ handler' = [handler EXCEPT ![r] = "running"]
  /\ IF r \in gone THEN Orphan({r}) /\ permit' = [permit EXCEPT ![r] = "given"]
     ELSE permit' = [permit EXCEPT ![r] = "held"] /\ UNCHANGED orphans
  /\ UNCHANGED <<counterVars, gone, charged, cut, aborts, faults>>

\* The client hangs up; close releases the permits while the handler runs on.
Abort(r) ==
  /\ aborts < MaxAborts /\ aborts' = aborts + 1
  /\ r \notin gone /\ (permit[r] = "granted" \/ handler[r] = "running")
  /\ gone' = gone \cup {r}
  /\ permit' = IF permit[r] = "held" THEN [permit EXCEPT ![r] = "releasing"] ELSE permit
  /\ UNCHANGED <<counterVars, handler, ghostVars, faults>>

\* The response finishes.
Finish(r) ==
  /\ handler[r] = "running"
  /\ handler' = [handler EXCEPT ![r] = "done"]
  /\ permit' = IF permit[r] = "held" THEN [permit EXCEPT ![r] = "releasing"] ELSE permit
  /\ UNCHANGED <<counterVars, gone, ghostVars, aborts, faults>>

\* RELEASE_SCRIPT.  DECR creates an absent key, without a time to live.
Release(r) ==
  /\ permit[r] = "releasing"
  /\ inflight' = Plus(inflight, Of(r), -1)
  /\ permit' = [permit EXCEPT ![r] = "given"]
  /\ UNCHANGED <<rate, armed, handler, gone, ghostVars, aborts, faults>>

\* Swallowed; its answer lost, or not reached.
ReleaseFails(r) ==
  /\ permit[r] = "releasing" /\ Fault
  /\ permit' = [permit EXCEPT ![r] = "given"]
  /\ \/ inflight' = Plus(inflight, Of(r), -1) /\ UNCHANGED orphans
     \/ UNCHANGED inflight /\ Orphan({r})
  /\ UNCHANGED <<rate, armed, handler, gone, charged, cut>>

\* The gateway replica dies, with some of the requests at work.
Crash ==
  /\ Fault
  /\ \E rs \in SUBSET {r \in Requests : handler[r] = "running" \/ Holding(r)} :
       /\ rs # {} /\ Orphan(rs)
       /\ permit' = [r \in Requests |-> IF r \in rs THEN "none" ELSE permit[r]]
       /\ handler' = [r \in Requests |->
            IF r \notin rs \/ handler[r] = "done" THEN handler[r] ELSE "idle"]
       /\ gone' = gone \ rs
  /\ UNCHANGED <<counterVars, charged, cut>>

-----------------------------------------------------------------------------
(* Time.                                                                   *)

\* inflightTtlSeconds after the INCR that returned 1, however busy the key is.
Expire(x) ==
  /\ armed[x]
  /\ armed' = [armed EXCEPT ![x] = FALSE]
  /\ inflight' = [inflight EXCEPT ![x] = 0]
  /\ orphans' = [orphans EXCEPT ![x] = 0]
  /\ cut' = IF Holders(x) = {} THEN cut ELSE cut \cup {x}
  /\ UNCHANGED <<rate, permit, handler, gone, charged, aborts, faults>>

\* currentWindow: all windows are of one length and begin together, and the next
\* one has keys of its own.
NextWindow ==
  /\ \E x \in Counters : rate[x] # 0
  /\ rate' = [x \in Counters |-> 0] /\ charged' = [x \in Counters |-> 0]
  /\ UNCHANGED <<inflight, armed, permit, handler, gone, orphans, cut, aborts, faults>>

Step(r) == Acquire(r) \/ Admit(r) \/ Finish(r) \/ Release(r)

Next ==
  \/ \E r \in Requests :
       Step(r) \/ AcquireFails(r) \/ ReleaseFails(r) \/ Abort(r)
  \/ Crash \/ NextWindow
  \/ \E x \in Counters : Expire(x)

Spec == Init /\ [][Next]_vars

\* Clients retry, calls return, time passes.
Fairness ==
  /\ \A r \in Requests : WF_vars(Step(r))
  /\ \A x \in Counters : WF_vars(Expire(x))
  /\ WF_vars(NextWindow)

FairSpec == Spec /\ Fairness

-----------------------------------------------------------------------------
(* Properties.                                                             *)

\* "The counter is only ever observable at its true value": the requests that
\* hold a permit, and those that died holding one since the last TTL - until a
\* TTL ends while permits are held, which the code does not keep from happening.
CounterIsTrue ==
  \A x \in Counters \ cut : inflight[x] = Cardinality(Holders(x)) + orphans[x]

\* "A refused write must not be charged": the window counts the requests that
\* were admitted, refusals by a later permit included, and no more than allowed.
RateIsTrue == \A x \in Counters : rate[x] = charged[x] /\ rate[x] <= MaxRate[x]

\* "A permit orphaned by a process that dies cannot consume capacity forever":
\* a counter that holds anything back has a time to live, whatever sequence of
\* releases, expiries and negative counts it has been through.
BackstopArmed == \A x \in Counters : inflight[x] > 0 => armed[x]

\* The ceiling on concurrent writes: the handlers at work stay within it, but
\* for one more with each client that hangs up, whose permit is given back
\* while its handler goes on, and until a TTL ends while permits are held.
WorkWithinInflight ==
  \A x \in Counters \ cut :
    Cardinality({r \in Requests : handler[r] = "running" /\ x \in Of(r)})
      <= MaxInflight[x] + aborts

\* Whatever is lost, the limiter does not lock the service: a request that is
\* retried is admitted in the end (<>AllServed, checked in MCSettles).
AllServed == \A r \in Requests : handler[r] = "done"
=============================================================================
