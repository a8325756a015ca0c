# RoadWatch: a verification project

TLA+ models of the concurrent core of RoadWatch, the TLC runs that check them on
small instances, and TLAPS proofs of their most important safety properties for
every value of the constants. `PROJECT.json` lists components, runs, mutants,
theorems, findings and hazards, and maps each definition to the source lines it
stands for. Paths below are relative to `src/`.

## 1. The system

A citizen files a complaint with the **gateway** (`apps/gateway-api`, Express
over Postgres and Redis, several replicas). What the gateway writes goes to
Postgres, the source of truth; events about it are inserted into
`kafka_event_outbox`, in the same transaction or, by the portal's route, after it. A **relay** in each replica publishes the
outbox to two Kafka clusters: `hlf` (for the ledger) and `events`. The **Fabric
anchor consumer** (`services/fabric-anchor-consumer`) reads `hlf`, records
complaints on the Fabric chaincodes in Merkle batches, writes proof rows and
publishes `complaint-anchored`. The **webhook handler**
(`services/webhook-handler`) reads `events` and updates complaint rows, logs and
notifications. A **scheduler** escalates and charges what is late. Lists of
complaints are served from a **read cache** in Redis. On the ledger there are
five contracts: complaints with their anchors, budgets, roads, authorities and
routing. An older service, **backend-api**, files complaints with an outbox of
its own. The web client keeps an **offline queue**.

    offline queue
       |
    client -> admission -> gateway route -> Postgres rows + outbox row (one tx)
                                               | relay (claim / publish / settle)
                              Kafka hlf <------+------> Kafka events
                                 |                          |
                      Fabric anchor consumer -> events -> webhook handler
                                 |                          |
                        chaincodes, proof rows     complaints, notifications
                                                       |           |
                                                   scheduler   read cache

### Inventory

Modelled:

| component | state it keeps | operations | what is hard | what makes it correct |
|---|---|---|---|---|
| Kafka outbox and relay (`apps/gateway-api/src/kafka/outbox.ts`, `packages/kafka`) | outbox rows: status, attempts, due time; broker logs; the batch in memory | enqueue, claim, publish, mark sent or failed, dead-letter | several relays; death between claim, publish and settlement; acknowledgements lost; two clusters, one of which may fail | exclusive claims, SENT means published everywhere, duplicates bounded by attempts, every row settled |
| Fabric anchor consumer (`services/fabric-anchor-consumer/index.ts`) | poll queue, pending offsets, batch array, `processed_events`, `event_failures`, pause state | fetch, consume, parse, flush by size or by timer, the catch block's retries and dead letters, commit | a timer and the main loop share arrays and offsets across awaits; restart between any two steps | no offset past an unanchored message; announced only if rooted; poison does not block |
| Webhook handler (`services/webhook-handler/index.ts`, `packages/redis/idempotency.ts`) | Redis keys, in-memory attempts, group offsets, rows | claim, handle, release, dead-letter, commit | redelivery, restart, rebalance while the old owner still works, Redis failing | completes at most once, nothing skipped, status never set back |
| Complaint filing (`apps/gateway-api/src/routes/authority.ts`, `idempotency.ts`) | idempotency rows, complaints, row locks | claim or take over a key, scan, lock, merge or insert, store the answer, release | concurrent retries, stale claims, a target resolved under the scan, failures after COMMIT | one owner per key, one report counted, one answer, merges only into open complaints |
| Complaint intake of citizens (`routes/complaints.ts`, `routes/citizen.ts`) | complaints, advisory locks, row locks, event and SLA rows | lock, search, lock the row, merge or insert, publish, track | reports of one damage at once; a status changed between search and lock; death after COMMIT | no unseen duplicate in a cell, merges undo nothing, losses have a failure each |
| Status routes and scheduler (`routes/authority.ts`, `contractor.ts`, `citizen.ts`, `services/scheduler/index.ts`) | status, tier, SLA row, inspection rows, verification, the contractor's score, band and ledger | change a status, verify a repair, assign; breach pass and inspection pass, statement by statement | a pass works on rows read at its start while routes change them; it may end in any row and starts over the next night | announced before marked, repeats only after an ended pass, one charge per inspection, band agrees with score, breaches handled |
| Admission control (`packages/redis/admission.ts`, `app.ts`, `security/write-backpressure.ts`) | rate and inflight counters with their TTLs in Redis | acquire (Lua, all or nothing), release on finish or close | replies and releases lost, replicas dying, TTLs ending, clients hanging up | counters true, refusals uncharged, leaks time out, nobody locked out |
| Read cache (`packages/redis/read-cache.ts`) | generations, lists, queries in flight | lookup, join or lead a query, store, bump | a query begun before a write and stored after it; Redis failing silently | no reader gets a list older than the generation it came under |
| Offline queue of the web client (`frontend/src/lib/offlineStore.ts`, `offlineMedia.ts`, `pages/ComplaintWizard.tsx`) | queue in memory and in localStorage, photos in IndexedDB, the gateway's claim | enqueue, drain, upload, delete, submit, mark, reload | several drains and tabs over one queue, answers lost at each call | nothing shown as sent that was not counted, counted once, sent in the end |
| Contracts on the ledger (`fabric/chaincode/*`) and their client (`fabric-ledger.ts`) | registers of budgets, roads, authorities, rules, anchors, complaints | every transaction of each | clients that update from a stale copy; a transaction that commits after its client's deadline; events delivered again | versions refuse stale updates, sums add up, anchors are never replaced, events applied once and in order |
| backend-api complaint service (`backend-api/src/routes/complaints.ts`, `services/complaintOutbox.ts`) | complaints, row locks, its outbox, the relay's batch | search, lock, merge or insert, publish, commit; claim, publish, mark | no lock before the search; an event published before COMMIT; an error that ends a drain half-way | duplicates overlap, escalations are announced, what is published was filed, only faults strand rows |

Not modelled, and why (also in `PROJECT.json`):

| component | reason |
|---|---|
| sessions: OTP codes and refresh tokens | short-lived keys of one user each; a model of its own, not begun |
| circuit breaker, Redis-deduplicated publish, SyncEngine, most of EscalationEngine | nothing in the services calls them; the one function that is called, `nextInLinearHierarchy`, is in `ComplaintLifecycle` |
| notifications | fan-out to outside providers; the row they leave is in `WebhookHandler` |
| other gateway routes, analytics, agent | queries and single statements; language-model tools |
| TypeScript chaincode | an earlier form of the complaint contract, replaced by the deployed one |
| Fabric client of backend-api, authority node | endorse, submit and await elsewhere; the three outcomes are in `AnchorConsumer` and `ComplaintLedger` |
| image verification, nonces | arithmetic over pixels and scores |
| mobile client, user interfaces, media ingest, deployment | presentation, no source, or configuration |

## 2. The modules

| module | models | follows |
|---|---|---|
| `EventDelivery` | what the outbox promises about one event, without rows, relays or crashes | abstract specification |
| `KafkaOutbox` | the outbox table, the relays, both clusters | `outbox.ts`, `KafkaProducer.ts`, `clusters.ts` |
| `AnchorConsumer` | one consumer on one partition: main loop, timer, flush | `fabric-anchor-consumer/index.ts` |
| `WebhookHandler` | a consumer group over several partitions | `webhook-handler/index.ts`, `packages/redis/idempotency.ts` |
| `ComplaintFiling` | concurrent requests over claims, complaints and row locks | `authority.ts` `POST /complaints`, `idempotency.ts` |
| `CitizenIntake` | reports that become complaints or merge into them | `complaints.ts` and `citizen.ts`, `POST` |
| `ComplaintLifecycle` | routes and scheduler passes over filed complaints | `authority.ts`, `contractor.ts`, `citizen.ts`, `scheduler/index.ts`, `complaint-lifecycle.ts` |
| `Admission` | requests over the Redis counters | `admission.ts`, `app.ts` |
| `ReadCache` | readers, writers and Redis over one list | `read-cache.ts` |
| `OfflineQueue` | tabs, drains and the gateway over queued reports | `offlineStore.ts`, `offlineMedia.ts`, `ComplaintWizard.tsx`, `citizen.ts` |
| `BackendIntake` | backend-api's reports, its outbox and relay | `backend-api/src/routes/complaints.ts`, `services/complaintOutbox.ts` |
| `VersionedStore` | what a versioned register promises its clients | abstract specification |
| `BudgetRegistry`, `RoadRegistry`, `AuthorityRegistry`, `GlobalRouting` | the registers on the ledger | `fabric/chaincode/*/*.go` |
| `AnchorLedger` | roots, escalations and resolutions | `complaint_anchor.go`, `contract.js` |
| `ComplaintLedger` | a complaint's record, and the client that submits to it | `contract.js`, `fabric-ledger.ts`, the anchor consumer's flush |
| `Chaincodes` | the six contracts side by side | - |
| `KafkaOutboxProofs`, `WebhookHandlerProofs`, `ComplaintFilingProofs`, `AnchorConsumerProofs`, `BackendIntakeProofs` | theorems about the module named | - |
| `GatewayRedisProofs` | theorems about `Admission` and `ReadCache` | - |
| `ComplaintProofs` | theorems about `CitizenIntake`, `ComplaintLifecycle` and `OfflineQueue` | - |
| `ChaincodeProofs` | theorems about `Chaincodes` and the modules it puts together | - |
| `MCConsumers`, `MCGateway`, `MCChaincodes`, `MCSettles` | several components side by side (below) | - |
| other `MC...` | model values and bounds for one component | - |

Every model follows the same convention: one action per step between two
awaits (or two transactions), an "error" action for each call that may fail,
which takes effect or not (`\in {old, new}`), and a `Crash` (`AnchorCrash`,
`Dies`) that forgets what is in memory and keeps what is in Postgres, Redis, Kafka, Fabric or the browser's
storage.

Components that share no state are checked in one run: `MCConsumers`,
`MCGateway`, `MCChaincodes` and `MCSettles` have a variable `subject`, chosen
at the start, and a behaviour exercises that component while the others rest
in their initial states. This is no composition, and none is claimed: it
checks each component as a run of its own would. (`ChaincodeProofs` proves as
much for the contracts: `ContractsAreApart`, `Chaincodes!Spec` implies the
specification of each contract, whose theorems then carry over.)

### KafkaOutbox

`ClaimSelect` and `ClaimCommit` are the SELECT ... FOR UPDATE SKIP LOCKED and the
UPDATE of `claimPendingEvents`; rows selected and not committed are `Locked`.
`producer.publish` is one send per cluster: `StartPublish` begins them, `Ack` is
a cluster's append with its answer, and with the last one `Promise.all` resolves;
`Reject` is the first error, at which the relay goes on to settle the row while
the other send is still on its way. `Append` is a copy that lands without the
relay's hearing of it, before the settlement or after it, after the row is DEAD or
the process gone: a straggler, or one of the several copies that kafkajs's resends
of a producer that is not idempotent may leave of a single send. Requests are
counted per publish begun (`sends`), `SendTries` each; how they spread over the
publishes of one row is left open (`MayLand`). The dead letter may be as late
(`LetterLands`). `MarkSent`, `MarkFailed`, `DeadLetter` are the
settlements; each UPDATE may fail before or after it took effect. A relay
between two batches of a tick and one between two ticks are the same state,
since the timer may start either; ordering by `created_at` is the order of the
rows' numbers, and RETURNING is unordered. The graceful shutdown clears the timer
but does not wait for the running tick, so it is a `Crash`. The back-off delay is
the flag `due`; its length is not modelled.

### AnchorConsumer

`main` and `stage` say where the main loop and the running flush are suspended.
`Drain` is the resolution of `consume()` with everything queued, which replaces
`pendingCommitOffsets`; the loops of `flush` read the live `batch`, so the
variable `at` lets them see what is pushed meanwhile. `Record`, `AlertOps`,
`Recheck` and `CommitDlq` are the catch block in its order. `MainThrows` and
`FlushThrows` model that nothing catches what the main loop awaits: `main()`
rejects, while the timer and the Kafka client keep the process alive. SIGTERM
flushes once more and exits: a timer flush followed by `AnchorCrash`. Left out: several
partitions, rebalances of the group, the hashing in the Merkle tree, and the
circuit breaker's own state (an opening circuit shows as `paused`).

### WebhookHandler

`Deliver` to `Release` are one `eachMessage` call: claim the key (SET NX), run
the topic's writes one by one, count failures in memory, dead-letter at the
limit, or delete the key and throw. Redis failing lets the handler run all the
same, as in the code. kafkajs is external: a thrown message is delivered again,
offsets are committed some time later, a rebalance starts the new owner at the
committed offset while the old owner's call goes on. The key's time to live of
24 hours is taken as longer than any redelivery. The code's limit of four calls
at once is never reached with the partitions kafkajs runs concurrently, so it has
no variable.

### ComplaintFiling

`InsertClaim`, `SelectClaim`, `Reclaim` are the statements of `claimIdempotency`:
INSERT ON CONFLICT DO NOTHING, SELECT, and the conditional UPDATE that takes over
a stale claim. `Scan` is the unlocked search, `Lock` the SELECT FOR UPDATE with the
check under it, `Write` the rest of the transaction up to COMMIT. `Store` is
`storeIdempotencyResult`, `Release` the catch block. The transaction's failures
roll back (`TxFails`) or leave its outcome unknown (`CommitUnknown`). All reports
are at one spot, so the newest open complaint is the merge target; reports that
name an id of their own and the escalation of a merge are left out. A stale
candidate's lock is left out because nothing writes a closed complaint. 409 has
two meanings, told apart as `reused` (final) and `busy` (retried). `SlowOwners`
says whether a create may outlive `CLAIM_TTL_SECONDS`; the code relies on it not
doing so, and the properties are claimed only then.

### Admission

`Script` is the acquire script: the permits in order, the first full one refuses
and gives back what was taken before it (`GiveBack`). `Touched` are the counters
it increments even for a moment, which decides who arms a TTL. `orphans` and
`charged` are ghosts that count what nobody will release and what was admitted.
The limits, adaptive in the code, are constants; windows are aligned and reset
as a whole, since each window has keys of its own; script caching is left out. The
TTL of an inflight counter is not renewed, so it may end under a held permit;
counters to which that happened are in `cut`, and the counting properties are
claimed for the others.

### CitizenIntake

A complaint is known by the report that created it. `LockCell` is the portal's
`pg_advisory_xact_lock` on road, damage and rounded cell; the citizen route has
none and starts at `Search`. `Search` and `SearchResolved` are the two SELECTs;
Postgres at READ COMMITTED looks at a row again once its lock is granted, which
is `LockRow` and `LockResolved` with `Matches` and `Recurs`. `Choose` is the
preference for a complaint within 100 m, left open, as distances are not
modelled. `Insert` and `Merge` end in COMMIT; `Publish` and `Track`, the event
and the SLA row, are statements of their own after it, so `Dies` may come
between. `Mishap` counts what fails. A report with a photo never reaches `Track`
on the citizen route (`AfterInsert`, pc "photo"): a picture filed before gets 409,
any other ends at the audit INSERT below, and both come after COMMIT and before
`ensureSlaTracking`.

What the model shows and the properties allow: the lock covers one rounded
cell, so reports of one hole in two neighbouring cells may both be filed. The
LIMIT of five candidates is not reached by the instance. In `citizen.ts` the
audit INSERTs after COMMIT name an unquoted uuid and always fail as written;
a request has committed by then, so its client sees an error for a report that
is filed. `OfflineQueue` lets that statement succeed or fail, which covers it.

### ComplaintLifecycle

`Receive`, `Check`, `Work` and `WriteStatus` are the steps of a route: the row
is read, the repair verification consulted for RESOLVED, the contractor's own
transaction done, the status written. `StartPass` selects the breached rows with
the status they have then, `NextRow`, `Escalate`, `Announce`, `Charge`,
`MarkNotified` are the statements of one row, and a failing one ends the pass
(`PassEnds`). `StartInspections` marks before `ChargeInspection` charges.
`BandOfScore` is `getTierFromScore`, `SqlBand` the CASE of
`applyContractorKarmaDelta`: two programs keep the same two columns.
`charges`, `abandoned`, `everVerified`, `completions`, `inspectionCharges` are
ghosts.

`Escalate` writes ESCALATED without a condition, as the code does: a complaint
resolved after the pass selected it is escalated again. Nothing in the
repository promises otherwise, so no property forbids it. Neither does the
model separate two identical transitions of a complaint: the key
`complaint:<id>:status:<from>-><to>` is the same for both, and `announced` is a
set. The statement whose parameter has no type in `jsonb_build_object` may
succeed or fail (`Slip`).

### ReadCache

One list of one scope, whose content is the number of the last write its query
saw. A reader asks for the generation (`Arrive`), then for the entry
(`GetEntry`); on a miss it joins the query of another reader of its process or
begins one (`JoinOrLead`, the map `inflightFills`), runs it, asks for the
generation once more and stores (`AskGeneration`, `Store`). A write bumps the
generation after its COMMIT. Redis failing is `Lose`: a reader then reads from
Postgres, a bump is skipped. `covered` is a ghost, the last write whose bump
was over, and `since` a reader's copy of it on arrival.

### OfflineQueue

`image[t]` is the queue in the memory of tab `t`, `disk` the one in
localStorage, which `Persist` overwrites as a whole: one tab's queue replaces
another's, as in `persistDatabase`. A drain takes its rows once (`StartDrain`),
uploads the photo, deletes it, submits, and marks. The 'online' event starts two
drains (the store's and the banner's), buttons more; `autoSyncRunning` guards
only one of the callers. `Break` is a call whose request or answer is lost;
`Respond` lets the gateway finish what it received in any case. Of the gateway
the model has the claim on the key derived from the body, the COMMIT, and the
stored answer; a claim older than its time to live may be taken over
(`ClaimAges`). The upload route's retry goes past the claim a failed upload
left. Photos differ from each other. Queued actions of other types are never
sent by any drain, and `markQueueSynced` is called by nothing; such rows are
`refused` here.

### BackendIntake

The transaction of backend-api's `POST /complaints`: `Search`, `SearchResolved`
and `LockRow` as in `CitizenIntake`, but no lock before the search, so two
reports that overlap may both be filed; `known` and `inactive` are ghosts that
say what a call could have seen. `Emit` publishes the event of an escalation
before `CommitReport`, with the key `complaint:<id>:status:ESCALATED` every time.
The relay (`ClaimPendingEvents` to `MarkFailed`) is an earlier form of the
gateway's: attempts have no limit and there is no DEAD status; an error of
`markFailed` leaves the loop, and what is left of the batch stays IN_FLIGHT. There
is no idempotency key: a client's retry is one more report, which merges into
its own complaint. `Move` is what other services do to a status, the
unconditional UPDATE of `services/webhook.ts` among them.

### The contracts on the ledger

Each of the five chaincode directories holds a contract in Go and one in
JavaScript. `ops/deploy/fabric-deploy-chaincode.sh:94-100` takes the `node` one
wherever there is a `package.json`, as there is in all five, unless
`FABRIC_CC_LANG` says otherwise. `ComplaintLedger` follows the JavaScript
contract and `AnchorLedger` both; the modules of budgets, roads, authorities
and routing follow the Go contracts, of which the JavaScript ones (some thirty
lines each) have only a small part. What those four modules show is
therefore about the contracts the repository specifies and tests in Go, and
about a deployment only with `FABRIC_CC_LANG=golang`.

A transaction is one action: Fabric endorses it against a state and commits it
only if what it read, ranges included, still stands. What makes the registers
hard are their clients. In `RoadRegistry`, `AuthorityRegistry` and
`GlobalRouting` a client reads a record, keeps it, and sends it back changed;
the version decides. `VersionedStore` says what that promises: the version grows
by one with every change, so a copy of the current version is the record.
`RoadRegistry` is shown to implement it (`RoadsAreVersioned` is
`RoadStore!StoreSpec` under the refinement of records to the store), the routing
rules keep its `CopiesTell`, and authorities keep the same promise until
`InitLedger` is run over records that exist, which takes versions back
(`reseeded`). `BudgetRegistry` keeps sums beside the records they sum up;
`drifted` are the roads whose summary `InitLedger` has replaced.

`ComplaintLedger` is the deployed JavaScript contract with its client: a
transaction is endorsed, and commits or is refused later; the client's deadline
may pass in between, the consumer takes it for failed, sends it again, or gives
it up, and the first one commits all the same.

## 3. The runs

All are exhaustive searches of the instance named. Mutants (one per property of
each passing run) replace one code-mapped definition by a plausible bug, and TLC
must then find that property violated.

| run | states | what it shows |
|---|---|---|
| `outbox_relay` | 893 k | two relays, two rows (one for both clusters), two attempts of up to two requests per send, two copies that land unheard at any time, one crash, one database error anywhere: claims exclusive, SENT is delivered, copies within the requests of the attempts, DEAD only when exhausted, publishes begun only while claimed, `EventDelivery` implemented, every row settled unless orphaned |
| `consumers` | 2.8 M | the two consumers and backend-api. Webhook handler: two processes, a rebalance, a restart, three failed writes, a failed Redis call, a failing DLQ: at most one completion (plus one per Redis failure), rows within the attempts, no status set back by restarts. Anchor consumer: four messages (one malformed, one a republished key), two errors, a crash, timer on: processed means accounted for, announced means rooted, dead letters earned, nothing submitted, rooted or announced again after it was processed. backend-api: three reports of one damage, a relay with batches of two, a status change, a fault: duplicates overlap, escalations announced, published means filed, only faults strand rows |
| `filing_safety` | 2.4 M | one report sent twice and a neighbour's, with one failed statement, one late failure, one death, one complaint resolved: one owner, counted once, answers agree, merges into open complaints, and the inductive invariant of section 5 |
| `gateway` | 1.5 M | admission (two citizens under one global limit, a hang-up, two faults), intake (three portal reports, two of one cell, and a citizen's with or without a photo; a status change, a mishap), lifecycle (two complaints, two requests, a failed statement or death), cache (three readers in two processes, a write, a failure), offline queue (two reports, two tabs, two lost calls, a reload) |
| `chain_contracts` | 818 k | the six contracts, two clients where clients race: sums, flags, traceability, versions, chains of escalation, records kept, events applied once and in order though delivered again and committed late |
| `settles` | 383 k | liveness: everything accepted is anchored, handled or dead-lettered, answered, admitted; every breach is escalated and announced, or settled by a route; and, timer off, no offset is committed past an unanchored or unhandled message, poison included |
| `outbox_crash` (violation) | 23 k | a death after the claim leaves the row IN_FLIGHT for ever |
| `anchor_timer` (violation) | 186 | a timer flush commits and drops messages the main loop has just pushed |
| `webhook_crash` (violation) | 59 | a death after the claim: the redelivery is taken for a duplicate |
| `filing_late` (violation) | 32 | a failure after COMMIT reaches the catch block with the complaint committed |
| `cache_fill` (violation) | 1.7 k | a list queried before a write is served under the generation of that write |
| `offline_sync` (violation) | 473 | a photo deleted before its report is submitted leaves a report that can never be sent |

The counts of the violation runs are those seen before TLC stops.

### Bounds and why they are enough

The interesting cases need few actors: two relays for exclusion, two clients of
one key plus one of another for claims and merges, two processes for a
rebalance, a second batch (`BatchLimit` 2 with three or four messages) for the
timer, two reports of one cell and one of its neighbour for the advisory lock,
three reports for a search that sees one complaint and misses another, two
drains for a report sent twice, three readers for a shared query beside one of
another process. Two attempts tell "retry" from "give up". Each kind of fault may
happen once or twice, at any step, so every pair of faults the code could
confuse occurs. The contractor's score starts ten points from a boundary between
bands, so that charges cross it. Counters that only record faults (`crashes`,
`errors`, `slips`, `mishaps`, `losses`, `breaks`, ...) are bounded by constants in
the guards of the fault actions; requests and status changes of other routes
likewise (`MaxRequests`, `MaxMoves`, `MaxChanges`). Copies of
an event that land unheard are bounded by `MaxUnheard`, two in `outbox_relay`: enough
for a straggler of each cluster, or for two copies of one send. Nothing else is
capped, apart from counts
that saturate where the code only compares them (`failures`, `flushFailures` in
`AnchorConsumer`), records per register (`MaxRecords`, `MaxLog`, `MaxVersion`) and
endorsements (`MaxEndorsed`) on the ledger. The theorems of section 5 have no
bounds.

A larger instance of the offline queue was searched once: three drains, two of
them in one tab, two lost calls, a reload, 2.56 M states, no error.

`CHECK_DEADLOCK FALSE` is in every configuration because every instance ends:
the messages are handled, the requests answered.

### Fairness and why the code justifies it

Only what the runtime does by itself is fair: `setInterval` ticks and promises
that settle (`RelayStep`, `MainStep`, `TimerFlush`, `FlushGoesOn`), kafkajs
polling and committing (`Fetch`, `GoesOn`, `AutoCommit`), clients that repeat a
request, delays, TTLs and windows that run out, and node-cron, which starts a
pass every night (`PassFairness`). Weak fairness suffices everywhere. Faults are
never fair; a broker or Fabric need not answer well, so `RelayStep` may fail
publishing every time, and a poison message fails every time as part of the fair
step. Exceptions stated in the properties are real ends of progress:
`Orphaned` rows in the outbox, `main = "dead"` in the anchor consumer, and
complaints a route settles before the scheduler reaches them.

`OfflineFairness` assumes more than the client does, that drains are started
again and again and all calls end; it is used for the violation run only, whose
counterexample is the stronger for it.

## 4. Findings

Six places where the code does not do what a comment, a document or a text of
the program says. Each is a run that ends in a counterexample.

* `outbox_crash` (`apps/gateway-api/src/kafka/outbox.ts:81`): rows claimed by a
  process that dies stay IN_FLIGHT, and no query selects those.
  `docs/architecture/event-pipeline.md:77`: "This guarantees at-least-once
  delivery without losing events on API crashes."
* `anchor_timer` (`services/fabric-anchor-consumer/index.ts:584`): the timer's
  flush commits `pendingCommitOffsets` and empties the batch, including what the
  main loop pushed meanwhile. `index.ts:582`: "Commit only after Fabric confirms +
  DB writes complete."
* `webhook_crash` (`services/webhook-handler/index.ts:570`): the claim survives
  the process, and the redelivered message is skipped and committed.
  `index.ts:555`: "releasing the claim if processing fails so Kafka redelivery is
  not mistaken for a duplicate."
* `filing_late` (`apps/gateway-api/src/routes/authority.ts:435`): the answer is
  stored after the transaction, inside the try whose catch releases the key.
  `authority.ts:453`: "reaching here means none of it committed and the retry
  starts clean."
* `cache_fill` (`packages/redis/read-cache.ts:162`): the generation is read again
  after the query, so an old list is stored under a new key. `read-cache.ts:99`:
  "a read issued after a write still misses and refills".
* `offline_sync` (`frontend/src/lib/offlineStore.ts:203`): the photo is deleted
  when its upload is answered, before the report is submitted, and the content
  id is not kept. `ComplaintWizard.tsx:196`: "They will sync automatically when
  you have network connectivity."

Observed on the way, without a statement in the repository to hold against
them: a round of malformed messages only commits while a batch is still
unanchored, a failed DLQ publish counts as handled, and a dead main loop leaves
the process alive without consuming (`AnchorConsumer`); the webhook handler may
write an older status over a newer one the gateway has already written; the
scheduler escalates complaints resolved after its SELECT; the portal searches
for a status 'INPROGRESS' that nothing writes; and what section 2 says of the
citizen route's audit rows, complaints filed with a photo, which get no SLA row and so
are never escalated by the scheduler, the offline queue's single image and backend-api's
stranded batches.

## 5. What is proved

39 theorems in eight modules, each for all values of the constants that satisfy
the module's named assumption. Every safety property that a passing run checks,
invariant or action property, is stated by one of them; the runs check them on
small instances, and their mutants show that they can fail.

`KafkaOutboxProofs`, from `OutboxAssumption` only (any number of rows, replicas,
batch sizes, attempts, crashes and errors):

* `TypeCorrect`: `Spec => []TypeOK`.
* `OutboxSafe`: `Spec => []OutboxInvariant`, which contains `ClaimExclusive`,
  `SentIsOnEveryCluster`, `CopiesWithinAttempts` and `DeadIsExhausted`.
* `PublishesOnlyClaimedRows`: the action property `PublishOnlyWhileClaimed`. A copy
  may land at any time later, but no publish is begun of a row not claimed.
* `OutboxImplementsDelivery`: `Spec => Delivery!Spec`, the refinement mapping to
  `EventDelivery`.

The four invariants are not inductive by themselves. What is missing is the
memory of a relay: `RelayKnows(r)` says that rows it holds after the claim are
IN_FLIGHT with the attempts it was told, that the rows it has not reached yet
were published less often than they were claimed, and in which status the current row can be in each
phase (SENT is possible in `markFailed`, as a failed `markSent` may have taken
effect). `RetriesLeft` says a row that can be claimed has an attempt left, which
is what keeps `attempts <= MaxAttempts`. Each step then disturbs the conjuncts of
the row it touches, and exclusiveness keeps it away from the rows of the others.
A copy that lands disturbs no relay, since no relay reads the logs: what bounds
the copies is `SendsWithinAttempts` and the requests a send may make. In the refinement
`Append` and `Ack` are the same step, `Land`, or a stutter.

`ComplaintFilingProofs`, from `FilingAssumption` (any clients, keys, payloads,
number of rescans, failures, deaths and resolutions):

* `FilingTypeCorrect`: `Spec => []TypeOK`, which includes that a row lock is held
  by the request that writes the locked complaint, and that a stored claim has a
  body. Types are inductive only with `RequestKnows`: a rescan has an attempt
  left, and only an answer to COMMIT leads to the store.
* `MergesAreIntoOpen`: `Spec => MergedWhileOpen`. The writer of a merge holds the
  lock of an open complaint (`RequestKnows`), and a resolution waits for it.
* under `SlowOwners = FALSE`, `FilingSafe`: `Spec => []FilingInvariant`, and from
  it `OneOwner` (`OneOwnerPerKey`), `ReportsCountedOnce` (`EachReportOnce`) and
  `AnswersNameOneComplaint` (`AnswersAgree`).

One owner per key is inductive only with `OwnerKnows`: the owner's row is claimed
and fresh, or stored by an UPDATE whose answer was lost, so neither the INSERT nor
the take-over of a stale row lets a second request in. A report is counted once
because a key that is `Kept` (its answer stored or about to be) was counted at
most once more than there were deaths and late failures, and its row never opens
again; every step that drops `Kept` is itself such a death or failure. Requests
are grouped by how they move with respect to their key's row (`Enters`,
`StaysOut`, `StaysIn`, `Leaves`), which carries the argument in one lemma,
`OwnersKept`.

`WebhookHandlerProofs`, from `WebhookAssumption` (any finite set of consumers,
any partitions and messages, any number of errors, deaths and rebalances):

* `HandledAtMostOnce`: `Spec => []AtMostOnce`. The key is deleted by a handler that
  failed and by nobody else, so what was and is being done of a message is paid
  for: completions, its dead letter and the calls beyond their claim add up to at
  most the Redis failures plus one for a claim in place (`ClaimsAccount`).
* `StatusOnlyAdvances`: the action property `StatusNeverRegresses`, which is claimed
  while no partition has moved and Redis has not failed. Then only the owner runs
  a call, it runs the next message, and every message behind it has its key
  (`InOrder`).
* `RowsStayWithinAttempts`: `Spec => []WebhookInvariant`. The budget of rows is
  `MaxAttempts` for each life of a process and each owner of the partition.
  `RowsAccount` splits it: rows written, plus what the attempts still to come may
  write - those the owner has left (`Left`) and one for each former owner that is
  still at it (`Outsiders`) - stay within the budget, up to the first write of
  attempts that are half-way (`HalfDone`). A step either spends its own share or
  gives it up (`Pays`); a death or a rebalance brings a new share.
* `CommitsAreHandled`: `Spec => [](Undisturbed => CommittedIsHandled)`, at least once
  where the code can keep it: without death, rebalance, Redis failure or failing
  DLQ. `ClaimsKept` says then that the message of a key is handled or being handled.

`AnchorConsumerProofs`, from `AnchorAssumption` (any log of messages, keys and
malformed ones, any batch, failure and pause limits, any errors and restarts, with
and without the timer):

* `DeadLettersAreEarned` (`AnchorInvariant`), `ProcessedWentThrough`
  (`ProcessedIsAccounted`), `NoUnrootedAnnouncement` (`AnnouncedIsRooted`) and the
  action property `ProcessedIsNotAnchoredAgain` (`NoAnchorAfterProcessed`: what a call
  hands on - a submission, a root's leaves, proof rows with their announcement - has no
  message of its key processed, whether or not the ledger holds it already). One inductive
  invariant, `AInv`, has what each stage of the flush has carried through
  (`Carried`: up to `todo`, or all of `unique`, on the ledger, under the root,
  announced) and that no loop goes over an empty rest (`WorkIsLeft`). That these hold
  although the other loop pushes onto the live array is the content of the proof.
* `CommitsAreSettled`: `AnchorSpec => [](Quiet => CommittedIsSettled)`, no offset is
  committed past an unanchored message, when the timer is off and nothing is
  malformed, whatever fails or dies (a round of malformed messages only commits over
  an unanchored batch, section 4). Only the main loop flushes then, what it
  drained is processed or in the batch (`NothingLost`), and each loop has looked at
  what lies behind `at` (`BatchIsVisited`). With the timer the same property is the
  finding `anchor_timer`.

`BackendIntakeProofs`, from `BackendAssumption` (any finite set of reports, any
damages, replicas, batches, changes and faults): `IntakeOfBackendIsSafe`,
`BackendSpec => []BackendInvariant`. What a call saw of its kind it has still to lock,
or it was settled meanwhile (`SearchKnows`, `Excused`), so a call that creates leaves
nothing behind that stayed active. A call escalates exactly if it has said so
(`CallKnows`), which pairs `notified` with `escalated` up to the calls that failed. A
relay holds at most a batch (`RelayKnows`), a fault adds at most what its relay held
to the stranded rows, and no other step adds any.

`GatewayRedisProofs`, for admission from `AdmissionAssumption` (any finite set of
requests, any permits and limits): `CountersAreTrue`, `RatesAreTrue`, `BackstopIsArmed`,
`WorkIsWithinInflight`. The script counts all the permits of a request or none
(`AllOrNone`), which needs the minimum of a set of positions to be a member,
proved from the well-foundedness of `<` on `Nat`. The last one rests on a chain of
bounds: handlers at work are holders of permits or clients that hung up
(`RunningHold`), the former are within the limit (`WithinMax`, `CounterIsTrue`)
and the latter are counted (`GoneCounted`).

`ComplaintProofs`, for the intake from `IntakeAssumption` (any finite set of reports, any
damages and cells, any number of moves and mishaps):

* `IntakeSafety`: `IntakeSpec => []IntakeInvariant`. A report of the portal inside its
  transaction holds the lock of its cell (`CellsAreLocked`), so no twin can be
  filed between its search and its COMMIT; the twins filed before it were found, and
  are passed over one by one as their rows turn out not to match (`TwinsAreSeen`).
  Losses are counted per complaint (`MissesAreFailures`), also for those whose
  report is still to write its SLA row; a complaint filed with a photo counts only for
  its event.
* `MergesOnlyEscalate`: the action property `ReportsOnlyEscalate`. A report about
  to merge holds the row, and the status it read is the row's (`TargetsAreHeld`).

`ComplaintProofs`, for the lifecycle from `LifecycleAssumption` (any complaints, requests,
scores and slips): `LifecycleSafety`, `LifecycleSpec => []LifecycleInvariant`, and
`RepeatsAccounted`. A pass knows that its rows are not marked and, past the
announcement, that the event is in the outbox (`PassKnows`); a request about to
write RESOLVED has passed the check (`RequestKnows`); a reported completion pays
for one charge, due, begun or over (`InspectionsPaid`). That the SQL band is the
TypeScript band of the new score is arithmetic over the clamp and the boundaries.

`GatewayRedisProofs`, for the cache from `ReadCacheAssumption` (any readers,
processes, writes and failures): `SharedFillsSafety`,
`CacheSpec => []SharedFillsAreFresh`. Readers with one key arrived under one value of `covered`, because that moves only together with
the generation (`KeysAgree`); a query sees what was covered when its reader
arrived (`QueriesAreFresh`); and each write bumps at most once, so generations stay
within the writes (`GenerationsLeft`). Its counterpart is the finding `cache_fill`:
a list read from Redis has no such guarantee.

`ComplaintProofs`, for the offline queue from `OfflineAssumption` (any reports,
tabs, drains, lost calls and reloads): `OfflineSafety`,
`OfflineSpec => []OfflineInvariant`. While a key is
not followed by an answer, every counting of its report went unheard
(`ItemKnows`), and a drain about to mark a report was told of its counting
(`DrainKnows`).

`ChaincodeProofs`, from the assumptions of the six modules (any roads, amounts,
times, officers, rules, anchors, events, clients and bounds):

* `ContractsKeepTheirRecords` (`RecordsHold`). For the budgets `BudgetInv`: keys are
  unique, so a new record adds its amount to one total; summaries are the totals
  of their histories unless `InitLedger` replaced them; and a summary that looks
  new belongs to a road without records (`NewRoadsAreEmpty`), without which
  `InitLedger` would not preserve the sums. For authorities and rules: no client's
  copy is ahead of the record (`CopiesAreEarlier`), hence equal versions are equal
  records. For routing: the loop of `GetEscalationChain` leads, round by round,
  from office to office until it is stuck (`Leads`).
* `ContractsKeepWhatTheyWrote` (`RecordsKept`): contracts, anchors (`OneOfAKind`, each
  step adds one with a new key) and the log of actions.
* `LedgerFollowsItsTopics` (`LedgerInvariant`). What makes it inductive is what a
  transaction that is still to commit may do (`TxKnows`): if what it read still
  stands, its event lies past every event of its topic on the ledger, and next to
  those not settled (`MayWrite`), so a late commit can neither repeat nor overtake.
  `NoGaps` keeps what was given up from being mistaken for what is there.
* `RoadsAreRegisters` (`RoadsAreVersioned`): `RoadRegistry` implements
  `VersionedStore`, step by step: initial states map to initial states, each
  transaction to `WriteRecords`, `ReadRecord` or a stutter. `RoadUpdatesAreSeen`
  (`NoLostRoadUpdate`).

A sum over a set (`Total`, a fold) and a chain built round by round are values of
recursive functions. The library's induction theorems cannot be used, so the
lemmas take a least counterexample instead: were the fact false, the sets (by
cardinality) or rounds for which it fails had a minimal one, by the
well-foundedness of `<` on `Nat`, and the step before it refutes that. In this way
the existence of the fold, its independence of the order in which members are
chosen, and what a further member adds are proved, for every finite set.

### What is only model-checked

* Liveness: `EventuallySettled`, `AcceptedIsSettled`, `BreachesAreHandled`. Fairness
  and ENABLED are out of the prover's reach.

## 6. What the models leave out

Payloads, wording, logging, metrics and back-off lengths; the hashing of Merkle
trees; coordinates and distances; the karma of users and organisations; SQL beyond
the rows named; Postgres, Redis, Kafka and Fabric themselves, which are taken to be
linearizable stores that may refuse a call or lose an answer. A rebalance and more
than one partition are in `WebhookHandler` but not in `AnchorConsumer`. A release
or a store over a claim that was taken over (`SlowOwners = TRUE`) is a hazard with a
note: the code relies on creates being far shorter than 60 s. The adaptive limits
of admission are constants. The scheduler runs once, as its deployment has one
replica; its offline-queue report, clean-up and weekly report are left out, and of
a road's contractor the fallback to the road's assignment is; so is the upsert of
`complaint_assignments` when a recurrence escalates (`complaints.ts:598-612`).
The parameter without a type in the charge's `jsonb_build_object` probably makes that
transaction roll back every time; `Charge` with `Slip` has both outcomes. A release
that ioredis sends twice, and which decrements twice, is not in `Admission`: its
`ReleaseFails` loses a release or its answer, and repeats none. backend-api's
attachments, assignments, audit rows and rate limiter are left out. Components that
stand side by side in a run are not composed: that the webhook handler's writes
meet the routes' is in `ComplaintLifecycle` only as a status that other actors
change.

## 7. What is left

1. Proofs of what is stated for one contract or consumer at a time, taken together:
   the round from an outbox row to its proof row.
2. A composition of outbox, anchor consumer and webhook handler for one
   complaint, over `EventDelivery` as the abstraction of the outbox.
3. Rebalances and several partitions in `AnchorConsumer`.
4. Sessions: codes and token families of one user under concurrent requests.
5. The remaining jobs of the scheduler, and the karma of users and organisations.
