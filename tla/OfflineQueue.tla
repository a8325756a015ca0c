---------------------------- MODULE OfflineQueue ----------------------------
(***************************************************************************)
(* Reports a citizen makes without a connection (frontend/src/lib/         *)
(* offlineStore.ts, offlineMedia.ts, pages/ComplaintWizard.tsx): a queue   *)
(* kept by each tab of the browser in memory and written as a whole to     *)
(* localStorage, photos in IndexedDB, and drains of the queue towards the  *)
(* gateway, any number of which may run at once: the 'online' event        *)
(* starts two, the buttons more.  Of the gateway's POST                    *)
(* /citizen/complaints (routes/citizen.ts) the module has the claim on the *)
(* key derived from the body, the COMMIT and the stored answer; creating   *)
(* and merging both count as filing.  Queued actions other than a report,  *)
(* which no drain sends, are reports the gateway refuses.  The order of    *)
(* the rows, records, metadata and karma are left out, and the statements  *)
(* after COMMIT fail only as a fault does.                                 *)
(***************************************************************************)
EXTENDS Integers

CONSTANTS
  Items,            (* reports                                             *)
  Photos,           (* those whose photo waits in IndexedDB                *)
  Refusable,        (* those that may be answered 400: too old, too far    *)
  Tabs, Drains, TabOf,
  Nothing,          (* a drain between two reports                         *)
  MaxBreaks,        (* bound on lost calls and failing statements          *)
  MaxReloads        (* bound on reloads of tabs                            *)

ASSUME OfflineAssumption ==
  /\ Photos \subseteq Items /\ Refusable \subseteq Items /\ Nothing \notin Items
  /\ TabOf \in [Drains -> Tabs] /\ MaxBreaks \in Nat /\ MaxReloads \in Nat

VARIABLES
  refused,    (* reports the gateway refuses                               *)
  wizard,     (* wizard[i]: how far the citizen's form is                  *)
  image,      (* image[t]: the queue in the memory of the tab t            *)
  disk,       (* the queue in localStorage                                 *)
  photos,     (* photos in IndexedDB                                       *)
  drain,      (* drain[d]: the call d of processQueue                      *)
  key,        (* key[i]: the claim on the key of i's body, and its call    *)
  filed,      (* filed[i]: how often the gateway has counted i             *)
  unheard,    (* unheard[i]: countings whose answer never reached the tab  *)
  breaks, reloads

offlineVars ==
  <<refused, wizard, image, disk, photos, drain, key, filed, unheard, breaks, reloads>>

Rows == [Items -> {"absent", "pending", "synced"}]

\* succeeded: a report was sent, so that the last sync is written at the end.
Resting == [pc |-> "idle", item |-> Nothing, todo |-> {}, succeeded |-> FALSE]

OfflineTypeOK ==
  /\ refused \subseteq Refusable
  /\ wizard \in [Items -> {"draft", "failed", "queued", "submitted"}]
  /\ image \in [Tabs -> Rows] /\ disk \in Rows /\ photos \subseteq Photos
  /\ drain \in [Drains ->
       [pc : {"idle", "next", "photo", "upload", "delete", "submit", "wait", "mark"},
        item : Items \cup {Nothing}, todo : SUBSET Items, succeeded : BOOLEAN]]
  /\ key \in [Items -> {"free", "serving", "filed", "held", "stored"}]
  /\ filed \in [Items -> Nat] /\ unheard \in [Items -> Nat]
  /\ breaks \in 0..MaxBreaks /\ reloads \in 0..MaxReloads

OfflineInit ==
  /\ refused \in SUBSET Refusable
  /\ wizard = [i \in Items |-> "draft"] /\ photos = Photos
  /\ disk = [i \in Items |-> "absent"] /\ image = [t \in Tabs |-> disk]
  /\ drain = [d \in Drains |-> Resting] /\ key = [i \in Items |-> "free"]
  /\ filed = [i \in Items |-> 0] /\ unheard = [i \in Items |-> 0]
  /\ breaks = 0 /\ reloads = 0

Break == breaks < MaxBreaks /\ breaks' = breaks + 1

-----------------------------------------------------------------------------
(* The form (ComplaintWizard).                                             *)

\* Online and without a cached photo the report is sent at once.  Its body is
\* not that of a queued report, and so its key another.
SendAtOnce(i) ==
  /\ wizard[i] = "draft" /\ i \notin Photos
  /\ \/ /\ i \notin refused /\ UNCHANGED <<unheard, breaks>>
        /\ wizard' = [wizard EXCEPT ![i] = "submitted"]
        /\ filed' = [filed EXCEPT ![i] = @ + 1]
     \/ /\ i \notin refused /\ Break
        /\ wizard' = [wizard EXCEPT ![i] = "failed"]
        /\ filed' = [filed EXCEPT ![i] = @ + 1] /\ unheard' = [unheard EXCEPT ![i] = @ + 1]
     \/ /\ wizard' = [wizard EXCEPT ![i] = "failed"] /\ UNCHANGED <<filed, unheard, breaks>>
  /\ UNCHANGED <<image, disk, photos, drain, key, reloads, refused>>

\* Every change of a tab's rows writes the whole of them over those of other tabs.
Persist(t, rows) == image' = [image EXCEPT ![t] = rows] /\ disk' = rows

Enqueue(t, i) ==
  /\ wizard[i] \in {"draft", "failed"} /\ wizard' = [wizard EXCEPT ![i] = "queued"]
  /\ Persist(t, [image[t] EXCEPT ![i] = "pending"])
  /\ UNCHANGED <<photos, drain, key, filed, unheard, breaks, reloads, refused>>

-----------------------------------------------------------------------------
(* A drain (processQueue).                                                 *)

On(d, pc) == drain[d].pc = pc
Goes(d, pc) == drain' = [drain EXCEPT ![d].pc = pc]

\* The catch block of the loop, and its continue: on to the next row.
NextUp(d, sent) ==
  drain' = [drain EXCEPT ![d].pc = "next", ![d].item = Nothing,
                         ![d].succeeded = @ \/ sent]

StartDrain(d) ==
  /\ On(d, "idle")
  /\ LET pending == {i \in Items : image[TabOf[d]][i] = "pending"} IN
       pending # {} /\ drain' = [drain EXCEPT ![d] = [Resting EXCEPT !.pc = "next",
                                                                      !.todo = pending]]
  /\ UNCHANGED <<wizard, image, disk, photos, key, filed, unheard, breaks, reloads, refused>>

TakeRow(d, i) ==
  /\ On(d, "next") /\ i \in drain[d].todo
  /\ drain' = [drain EXCEPT ![d].pc = IF i \in Photos THEN "photo" ELSE "submit",
                            ![d].item = i, ![d].todo = @ \ {i}]
  /\ UNCHANGED <<wizard, image, disk, photos, key, filed, unheard, breaks, reloads, refused>>

\* updateSyncMeta writes the tab's rows once more.
FinishDrain(d) ==
  /\ On(d, "next") /\ drain[d].todo = {} /\ drain' = [drain EXCEPT ![d] = Resting]
  /\ IF drain[d].succeeded THEN Persist(TabOf[d], image[TabOf[d]]) ELSE UNCHANGED <<image, disk>>
  /\ UNCHANGED <<wizard, photos, key, filed, unheard, breaks, reloads, refused>>

Uploading(i) == \E d \in Drains : On(d, "upload") /\ drain[d].item = i

\* "Offline media not found", or 409 while another call uploads it, whose key is
\* the same; a later call is given the answer of the first.
ReadPhoto(d) ==
  /\ On(d, "photo")
  /\ \/ drain[d].item \in photos /\ Goes(d, "upload")
     \/ /\ drain[d].item \notin photos \/ Uploading(drain[d].item)
        /\ NextUp(d, FALSE)
  /\ UNCHANGED <<wizard, image, disk, photos, key, filed, unheard, breaks, reloads, refused>>

Upload(d) ==
  /\ On(d, "upload")
  /\ \/ Goes(d, "delete") /\ UNCHANGED breaks
     \/ drain[d].item \in refused /\ NextUp(d, FALSE) /\ UNCHANGED breaks
     \/ Break /\ NextUp(d, FALSE)
  /\ UNCHANGED <<wizard, image, disk, photos, key, filed, unheard, reloads, refused>>

DeletePhoto(d) ==
  /\ On(d, "delete") /\ Goes(d, "submit") /\ photos' = photos \ {drain[d].item}
  /\ UNCHANGED <<wizard, image, disk, key, filed, unheard, breaks, reloads, refused>>

\* Claimed, answered 409 while another holds the claim, or answered again.
ClaimableMutant(i) == key[i] # "stored"
Claimable(i) == key[i] = "free"

Submit(d) ==
  LET i == drain[d].item IN
  /\ On(d, "submit")
  /\ \/ i \in refused /\ NextUp(d, FALSE) /\ UNCHANGED <<key, breaks>>
     \/ Break /\ NextUp(d, FALSE) /\ UNCHANGED key
     \/ /\ i \notin refused /\ UNCHANGED breaks
        /\ \/ Claimable(i) /\ Goes(d, "wait") /\ key' = [key EXCEPT ![i] = "serving"]
           \/ key[i] = "stored" /\ Goes(d, "mark") /\ UNCHANGED key
           \/ /\ ~Claimable(i) /\ key[i] # "stored"
              /\ NextUp(d, FALSE) /\ UNCHANGED key
  /\ UNCHANGED <<wizard, image, disk, photos, filed, unheard, reloads, refused>>

\* The call for i answers the drain that waits for it, if one still does.
Answers(i, ok) ==
  drain' = [d \in Drains |->
    IF ~(On(d, "wait") /\ drain[d].item = i) THEN drain[d]
    ELSE IF ok THEN [drain[d] EXCEPT !.pc = "mark"]
    ELSE [drain[d] EXCEPT !.pc = "next", !.item = Nothing]]

\* The transaction.  The route has no catch: its claim stays when it fails.
File(i) ==
  /\ key[i] = "serving"
  /\ \/ key' = [key EXCEPT ![i] = "filed"] /\ filed' = [filed EXCEPT ![i] = @ + 1]
        /\ UNCHANGED <<drain, breaks>>
     \/ Break /\ key' = [key EXCEPT ![i] = "held"] /\ Answers(i, FALSE) /\ UNCHANGED filed
  /\ UNCHANGED <<wizard, image, disk, photos, unheard, reloads, refused>>

\* What follows COMMIT, up to the answer, which may be lost.
StoreAnswer(i) ==
  /\ key[i] = "filed"
  /\ \/ /\ key' = [key EXCEPT ![i] = "stored"] /\ UNCHANGED unheard
        /\ \/ Answers(i, TRUE) /\ UNCHANGED breaks
           \/ Answers(i, FALSE) /\ Break
     \/ /\ Break /\ Answers(i, FALSE) /\ key' = [key EXCEPT ![i] = "held"]
        /\ unheard' = [unheard EXCEPT ![i] = @ + 1]
  /\ UNCHANGED <<wizard, image, disk, photos, filed, reloads, refused>>

\* CLAIM_TTL_SECONDS after its last update a claim may be taken over.
ClaimAges(i) ==
  /\ key[i] = "held" /\ key' = [key EXCEPT ![i] = "free"]
  /\ UNCHANGED <<wizard, image, disk, photos, drain, filed, unheard, breaks, reloads, refused>>

MarkSynced(d) ==
  /\ On(d, "mark") /\ NextUp(d, TRUE)
  /\ Persist(TabOf[d], [image[TabOf[d]] EXCEPT ![drain[d].item] = "synced"])
  /\ UNCHANGED <<wizard, photos, key, filed, unheard, breaks, reloads, refused>>

-----------------------------------------------------------------------------
\* The tab's memory and its drains are gone, the calls they wait for are not.
Reload(t) ==
  /\ reloads < MaxReloads /\ reloads' = reloads + 1
  /\ image' = [image EXCEPT ![t] = disk]
  /\ drain' = [d \in Drains |-> IF TabOf[d] = t THEN Resting ELSE drain[d]]
  /\ UNCHANGED <<wizard, disk, photos, key, filed, unheard, breaks, refused>>

DrainStep(d) ==
  \/ \E i \in Items : TakeRow(d, i)
  \/ FinishDrain(d) \/ ReadPhoto(d) \/ Upload(d) \/ DeletePhoto(d)
  \/ Submit(d) \/ MarkSynced(d)

Respond(i) == File(i) \/ StoreAnswer(i)

OfflineNext ==
  \/ \E i \in Items : SendAtOnce(i) \/ Respond(i) \/ ClaimAges(i)
                         \/ \E t \in Tabs : Enqueue(t, i)
  \/ \E d \in Drains : StartDrain(d) \/ DrainStep(d)
  \/ \E t \in Tabs : Reload(t)

OfflineSpec == OfflineInit /\ [][OfflineNext]_offlineVars

\* The citizen comes online or asks for a sync again and again; the calls of a
\* drain end; claims age.
OfflineFairness ==
  /\ \A d \in Drains : WF_offlineVars(StartDrain(d) \/ DrainStep(d))
  /\ \A i \in Items : WF_offlineVars(Respond(i)) /\ WF_offlineVars(ClaimAges(i))

OfflineFairSpec == OfflineSpec /\ OfflineFairness

-----------------------------------------------------------------------------
(* Properties.                                                             *)

\* No tab shows as sent what the gateway has not counted.
SyncedIsFiled ==
  \A i \in Items : (\E t \in Tabs : image[t][i] = "synced") \/ disk[i] = "synced"
                     => filed[i] > 0

\* However many drains, tabs and reloads send a report, the gateway counts it once,
\* and once more for each counting it could not tell the client of.
CountedOnce == \A i \in Items : filed[i] <= 1 + unheard[i]

OfflineInvariant == OfflineTypeOK /\ SyncedIsFiled /\ CountedOnce

\* "Your report and geotagged photo are stored on this device. They will sync
\* automatically when you have network connectivity."
QueuedIsFiled ==
  \A i \in Items : (wizard[i] = "queued" /\ i \notin refused) ~> filed[i] > 0
=============================================================================
