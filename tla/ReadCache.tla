----------------------------- MODULE ReadCache -----------------------------
(***************************************************************************)
(* The read cache of the complaint lists (packages/redis/read-cache.ts):   *)
(* lists are stored in Redis under the generation of their scope, a write  *)
(* moves the generation on after its COMMIT, and the readers of a gateway  *)
(* process that miss the same key share one query (inflightFills).  One    *)
(* list of one scope is modelled; its content is the number of the last    *)
(* write the query saw.  Redis forgets lists but not generations.          *)
(***************************************************************************)
EXTENDS Naturals

CONSTANTS
  Readers,        (* requests that read the list, each again and again     *)
  Replicas,       (* gateway processes                                     *)
  ReplicaOf,      (* ReplicaOf[r]: the process that serves r               *)
  None,
  MaxWrites,      (* bound on writes                                       *)
  MaxLosses       (* bound on Redis calls and queries that fail            *)

ASSUME ReadCacheAssumption ==
  /\ ReplicaOf \in [Readers -> Replicas] /\ None \notin Readers \cup Nat
  /\ MaxWrites \in Nat /\ MaxLosses \in Nat

VARIABLES
  written,        (* writes committed to Postgres                          *)
  unbumped,       (* committed writes that have yet to move the generation *)
  generation,     (* rw:cache:gen of the scope                             *)
  covered,        (* writes committed when the generation last moved       *)
  entries,        (* entries[g]: the list stored under generation g        *)
  fills,          (* fills[p][g]: the reader whose query p's readers share *)
  reader,         (* reader[r]: where r is in readThroughCachedJson        *)
  losses

redisVars == <<generation, covered, entries>>
cacheVars == <<written, unbumped, redisVars, fills, reader, losses>>

Generations == 0..MaxWrites
Versions == 0..MaxWrites

\* since: what covered was when the reader arrived.  key: the generation of its
\* lookup.  list: what it has.  under: where it stores that.  from: whence it has it.
Reader == [pc : {"idle", "get", "miss", "fill", "ask", "store", "wait", "origin", "served"},
           since : Versions, key : Generations, list : Versions,
           under : Generations, from : {"query", "shared", "cache"}]

Idle == [pc |-> "idle", since |-> 0, key |-> 0, list |-> 0, under |-> 0, from |-> "query"]

CacheTypeOK ==
  /\ written \in Versions /\ covered \in Versions /\ generation \in Generations
  /\ unbumped \subseteq Versions /\ losses \in 0..MaxLosses
  /\ entries \in [Generations -> Versions \cup {None}]
  /\ fills \in [Replicas -> [Generations -> Readers \cup {None}]]
  /\ reader \in [Readers -> Reader]

CacheInit ==
  /\ written = 0 /\ unbumped = {} /\ generation = 0 /\ covered = 0
  /\ entries = [g \in Generations |-> None]
  /\ fills = [p \in Replicas |-> [g \in Generations |-> None]]
  /\ reader = [r \in Readers |-> Idle]
  /\ losses = 0

At(r, pc) == reader[r].pc = pc

Set(r, pc) == reader' = [reader EXCEPT ![r].pc = pc]

Serve(r, list, from) ==
  reader' = [reader EXCEPT ![r].pc = "served", ![r].list = list, ![r].from = from]

Lose == losses < MaxLosses /\ losses' = losses + 1

-----------------------------------------------------------------------------
(* Writers.                                                                *)

Write ==
  /\ written < MaxWrites /\ written' = written + 1
  /\ unbumped' = unbumped \cup {written + 1}
  /\ UNCHANGED <<redisVars, fills, reader, losses>>

\* bumpComplaintReadCache, called after the COMMIT of w; its failure is ignored.
Bump(w) ==
  /\ w \in unbumped /\ unbumped' = unbumped \ {w}
  /\ \/ generation' = generation + 1 /\ covered' = written /\ UNCHANGED <<entries, losses>>
     \/ Lose /\ UNCHANGED redisVars
  /\ UNCHANGED <<written, fills, reader>>

\* Ten seconds after its SET a list is gone.
ExpireEntry(g) ==
  /\ entries[g] # None /\ entries' = [entries EXCEPT ![g] = None]
  /\ UNCHANGED <<written, unbumped, generation, covered, fills, reader, losses>>

-----------------------------------------------------------------------------
(* Readers: two GETs, then the cached list, a shared query or a query.     *)

Arrive(r) ==
  /\ At(r, "idle")
  /\ \/ /\ reader' = [reader EXCEPT ![r] =
             [Idle EXCEPT !.pc = "get", !.since = covered, !.key = generation]]
        /\ UNCHANGED losses
     \/ /\ Lose
        /\ reader' = [reader EXCEPT ![r] = [Idle EXCEPT !.pc = "origin", !.since = covered]]
  /\ UNCHANGED <<written, unbumped, redisVars, fills>>

GetEntry(r) ==
  /\ At(r, "get")
  /\ LET found == entries[reader[r].key] IN
       \/ found # None /\ Serve(r, found, "cache") /\ UNCHANGED losses
       \/ found = None /\ Set(r, "miss") /\ UNCHANGED losses
       \/ Lose /\ Set(r, "origin")
  /\ UNCHANGED <<written, unbumped, redisVars, fills>>

FillKeyMutant(r) == 0
FillKey(r) == reader[r].key

\* inflightFills.get(key): join the query in flight, or start one.
JoinOrLead(r) ==
  /\ At(r, "miss")
  /\ LET p == ReplicaOf[r]  k == FillKey(r) IN
       \/ fills[p][k] # None /\ Set(r, "wait") /\ UNCHANGED fills
       \/ fills[p][k] = None /\ Set(r, "fill") /\ fills' = [fills EXCEPT ![p][k] = r]
  /\ UNCHANGED <<written, unbumped, redisVars, losses>>

Waiters(r) ==
  {w \in Readers : At(w, "wait") /\ ReplicaOf[w] = ReplicaOf[r] /\ FillKey(w) = FillKey(r)}

Query(r) ==
  /\ At(r, "fill")
  /\ reader' = [reader EXCEPT ![r].pc = "ask", ![r].list = written]
  /\ UNCHANGED <<written, unbumped, redisVars, fills, losses>>

\* The leader's query failed: its waiters query for themselves.
QueryFails(r) ==
  /\ At(r, "fill") /\ Lose
  /\ reader' = [w \in Readers |->
       IF w = r THEN Idle
       ELSE IF w \in Waiters(r) THEN [reader[w] EXCEPT !.pc = "origin"] ELSE reader[w]]
  /\ fills' = [fills EXCEPT ![ReplicaOf[r]][FillKey(r)] = None]
  /\ UNCHANGED <<written, unbumped, redisVars>>

\* writeCachedJson asks for the generation again, which need not be the lookup's.
AskGeneration(r) ==
  /\ At(r, "ask") /\ reader' = [reader EXCEPT ![r].pc = "store", ![r].under = generation]
  /\ UNCHANGED <<written, unbumped, redisVars, fills, losses>>

\* The SET, or a failure of the last two calls; then leader and waiters answer.
Store(r) ==
  /\ \/ /\ At(r, "store") /\ UNCHANGED losses
        /\ entries' = [entries EXCEPT ![reader[r].under] = reader[r].list]
     \/ At(r, "ask") /\ Lose /\ UNCHANGED entries
  /\ reader' = [w \in Readers |->
       IF w \in {r} \cup Waiters(r)
       THEN [reader[w] EXCEPT !.pc = "served", !.list = reader[r].list,
                              !.from = IF w = r THEN "query" ELSE "shared"]
       ELSE reader[w]]
  /\ fills' = [fills EXCEPT ![ReplicaOf[r]][FillKey(r)] = None]
  /\ UNCHANGED <<written, unbumped, generation, covered>>

ReadOrigin(r) ==
  /\ At(r, "origin") /\ Serve(r, written, "query")
  /\ UNCHANGED <<written, unbumped, redisVars, fills, losses>>

Leave(r) ==
  /\ At(r, "served") /\ reader' = [reader EXCEPT ![r] = Idle]
  /\ UNCHANGED <<written, unbumped, redisVars, fills, losses>>

CacheNext ==
  \/ Write \/ \E w \in unbumped : Bump(w)
  \/ \E g \in Generations : ExpireEntry(g)
  \/ \E r \in Readers : \/ Arrive(r) \/ GetEntry(r) \/ JoinOrLead(r) \/ Query(r)
                        \/ QueryFails(r) \/ AskGeneration(r) \/ Store(r) \/ ReadOrigin(r) \/ Leave(r)

CacheSpec == CacheInit /\ [][CacheNext]_cacheVars

-----------------------------------------------------------------------------
(* Properties.                                                             *)

Behind(r) == At(r, "served") /\ reader[r].list < reader[r].since

\* A reader that joins another's query gets no older list than the generation it
\* found: the query began after that generation did (readThroughCachedJson).
SharedFillsAreFresh == \A r \in Readers : Behind(r) => reader[r].from = "cache"

\* "a read issued after a write still misses and refills" (read-cache.ts, of
\* readThroughCachedJson): what a reader gets has every write whose bump was
\* over when it arrived.
FreshAfterBump == \A r \in Readers : ~Behind(r)
=============================================================================
