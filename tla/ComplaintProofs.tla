-------------------------- MODULE ComplaintProofs ---------------------------
(***************************************************************************)
(* Proofs about the way of a complaint: the web client's offline queue    *)
(* (OfflineQueue), its intake by the gateway (CitizenIntake), and what     *)
(* routes and scheduler do to it then (ComplaintLifecycle).  They hold for *)
(* any reports, tabs, drains, damages, cells, requests, tiers and scores,  *)
(* and any number of lost calls, failing statements, reloads and deaths.   *)
(***************************************************************************)
EXTENDS OfflineQueue, CitizenIntake, ComplaintLifecycle, FiniteSetTheorems, TLAPS

-----------------------------------------------------------------------------
(***************************************************************************)
(* The offline queue of the web client.                                    *)
(***************************************************************************)

-----------------------------------------------------------------------------
(* What a step must know for the properties to be inductive.               *)

\* No tab, no drain and no claim has heard of i.
Unseen(i) ==
  /\ \A t \in Tabs : image[t][i] = "absent"
  /\ disk[i] = "absent" /\ key[i] = "free"
  /\ \A d \in Drains : i \notin drain[d].todo /\ drain[d].item # i

\* Only a report in the queue is drained, and while the claim on its key is not
\* followed by an answer, every counting of it went unheard.
ItemKnows(i) ==
  /\ wizard[i] # "queued" => Unseen(i)
  /\ key[i] \in {"filed", "stored"} => filed[i] > 0
  /\ wizard[i] # "submitted" /\ key[i] \notin {"filed", "stored"} => filed[i] <= unheard[i]

\* A drain about to mark a report as sent has been told of its counting.
DrainKnows(d) ==
  /\ drain[d].pc \notin {"idle", "next"} => drain[d].item \in Items
  /\ drain[d].pc = "mark" => filed[drain[d].item] > 0

OInv ==
  /\ OfflineTypeOK /\ SyncedIsFiled /\ CountedOnce
  /\ \A i \in Items : ItemKnows(i)
  /\ \A d \in Drains : DrainKnows(d)

-----------------------------------------------------------------------------
LEMMA InitOInv == OfflineInit => OInv
<1> SUFFICES ASSUME OfflineInit PROVE OInv
  OBVIOUS
<1> USE OfflineAssumption DEF OfflineInit
<1>1. OfflineTypeOK
  BY DEF OfflineTypeOK, Resting, Rows
<1>2. SyncedIsFiled /\ CountedOnce
  BY DEF SyncedIsFiled, CountedOnce
<1>3. \A i \in Items : ItemKnows(i)
  <2> SUFFICES ASSUME NEW i \in Items PROVE ItemKnows(i)
    OBVIOUS
  <2>1. Unseen(i)
    BY DEF Unseen, Resting
  <2>2. key[i] = "free" /\ filed[i] = 0 /\ unheard[i] = 0
    OBVIOUS
  <2> QED BY <2>1, <2>2 DEF ItemKnows
<1>4. \A d \in Drains : DrainKnows(d)
  BY DEF DrainKnows, Resting
<1> QED BY <1>1, <1>2, <1>3, <1>4 DEF OInv

-----------------------------------------------------------------------------
(* Types, by the groups of variables that change together.                 *)

DrainType ==
  drain \in [Drains ->
       [pc : {"idle", "next", "photo", "upload", "delete", "submit", "wait", "mark"},
        item : Items \cup {Nothing}, todo : SUBSET Items, succeeded : BOOLEAN]]

QueueTypes == image \in [Tabs -> Rows] /\ disk \in Rows

OtherTypes ==
  /\ refused \subseteq Refusable /\ photos \subseteq Photos
  /\ wizard \in [Items -> {"draft", "failed", "queued", "submitted"}]
  /\ key \in [Items -> {"free", "serving", "filed", "held", "stored"}]
  /\ filed \in [Items -> Nat] /\ unheard \in [Items -> Nat]
  /\ breaks \in 0..MaxBreaks /\ reloads \in 0..MaxReloads

LEMMA QueueTypesSplit == OfflineTypeOK <=> DrainType /\ QueueTypes /\ OtherTypes
BY DEF OfflineTypeOK, DrainType, QueueTypes, OtherTypes

LEMMA QueueTypesSplitNext == DrainType' /\ QueueTypes' /\ OtherTypes' => OfflineTypeOK'
BY DEF OfflineTypeOK, DrainType, QueueTypes, OtherTypes

LEMMA GoesType ==
  ASSUME DrainType, NEW d \in Drains,
         NEW pc \in {"idle", "next", "photo", "upload", "delete", "submit", "wait", "mark"},
         Goes(d, pc)
  PROVE DrainType'
BY DEF DrainType, Goes

LEMMA NextUpType ==
  ASSUME DrainType, NEW d \in Drains, NEW sent \in BOOLEAN, NextUp(d, sent) PROVE DrainType'
<1> DEFINE new == [drain[d] EXCEPT !.pc = "next", !.item = Nothing, !.succeeded = @ \/ sent]
<1>1. drain' = [drain EXCEPT ![d] = new]
  BY DEF DrainType, NextUp
<1>2. new \in [pc : {"idle", "next", "photo", "upload", "delete", "submit", "wait", "mark"},
               item : Items \cup {Nothing}, todo : SUBSET Items, succeeded : BOOLEAN]
  BY DEF DrainType
<1> HIDE DEF new
<1> QED BY <1>1, <1>2 DEF DrainType

LEMMA AnswersType ==
  ASSUME DrainType, NEW i \in Items, NEW ok \in BOOLEAN, Answers(i, ok) PROVE DrainType'
BY DEF DrainType, Answers, On

LEMMA PersistType ==
  ASSUME QueueTypes, NEW t \in Tabs, NEW rows \in Rows, Persist(t, rows) PROVE QueueTypes'
BY DEF QueueTypes, Persist, Rows

LEMMA BreakType ==
  ASSUME OtherTypes, Break PROVE breaks' \in 0..MaxBreaks
BY OfflineAssumption DEF OtherTypes, Break

-----------------------------------------------------------------------------
(* How a drain's step bears on what the drains know.                       *)

\* A drain only leaves a report, or passes on to a step it may take.
LEMMA NextUpKnows ==
  ASSUME DrainType, NEW d \in Drains, NEW sent, NextUp(d, sent), UNCHANGED filed,
         \A e \in Drains : DrainKnows(e)
  PROVE \A e \in Drains : DrainKnows(e)'
BY DEF DrainType, NextUp, DrainKnows

LEMMA GoesKnows ==
  ASSUME DrainType, NEW d \in Drains, NEW pc, Goes(d, pc), UNCHANGED filed,
         drain[d].item \in Items, pc = "mark" => filed[drain[d].item] > 0,
         \A e \in Drains : DrainKnows(e)
  PROVE \A e \in Drains : DrainKnows(e)'
BY DEF DrainType, Goes, DrainKnows

LEMMA AnswersKnow ==
  ASSUME DrainType, NEW i \in Items, NEW ok \in BOOLEAN, Answers(i, ok), UNCHANGED filed,
         ok => filed[i] > 0, \A e \in Drains : DrainKnows(e)
  PROVE \A e \in Drains : DrainKnows(e)'
BY DEF DrainType, Answers, On, DrainKnows

\* None of these steps brings a report to a drain.
LEMMA NothingNew ==
  ASSUME DrainType,
         \/ \E d \in Drains, pc \in {"upload", "delete", "submit", "wait", "mark"} : Goes(d, pc)
         \/ \E d \in Drains : NextUp(d, FALSE)
         \/ \E j \in Items, ok \in BOOLEAN : Answers(j, ok)
         \/ UNCHANGED drain,
         UNCHANGED <<image, disk>>,
         NEW i \in Items, Unseen(i), key'[i] = key[i]
  PROVE Unseen(i)'
<1> USE OfflineAssumption
<1>1. \A e \in Drains : drain'[e].todo = drain[e].todo /\ drain'[e].item \in {drain[e].item, Nothing}
  <2> SUFFICES ASSUME NEW e \in Drains
               PROVE drain'[e].todo = drain[e].todo
                     /\ drain'[e].item \in {drain[e].item, Nothing}
    OBVIOUS
  <2>1. CASE \E d \in Drains, pc \in {"upload", "delete", "submit", "wait", "mark"} : Goes(d, pc)
    BY <2>1 DEF DrainType, Goes
  <2>2. CASE \E d \in Drains : NextUp(d, FALSE)
    <3>1. PICK d \in Drains : NextUp(d, FALSE)
      BY <2>2
    <3>2. drain'[d].todo = drain[d].todo
      BY <3>1 DEF DrainType, NextUp
    <3>3. drain'[d].item = Nothing
      BY <3>1 DEF DrainType, NextUp
    <3>4. e # d => drain'[e] = drain[e]
      BY <3>1 DEF DrainType, NextUp
    <3> QED BY <3>2, <3>3, <3>4
  <2>3. CASE \E j \in Items, ok \in BOOLEAN : Answers(j, ok)
    <3>1. PICK j \in Items, ok \in BOOLEAN : Answers(j, ok)
      BY <2>3
    <3>2. drain'[e] \in {drain[e], [drain[e] EXCEPT !.pc = "mark"],
                        [drain[e] EXCEPT !.pc = "next", !.item = Nothing]}
      BY <3>1 DEF Answers
    <3>3. drain[e] \in [pc : {"idle", "next", "photo", "upload", "delete", "submit", "wait", "mark"},
            item : Items \cup {Nothing}, todo : SUBSET Items, succeeded : BOOLEAN]
      BY DEF DrainType
    <3> QED BY <3>2, <3>3
  <2> QED BY <2>1, <2>2, <2>3
<1> QED BY <1>1 DEF Unseen

LEMMA ItemFrame ==
  ASSUME NEW i \in Items, ItemKnows(i), UNCHANGED <<wizard, key, filed, unheard>>,
         Unseen(i) => Unseen(i)'
  PROVE ItemKnows(i)'
BY DEF ItemKnows

LEMMA QueueFrame ==
  ASSUME SyncedIsFiled, CountedOnce, UNCHANGED <<image, disk, filed, unheard>>
  PROVE SyncedIsFiled' /\ CountedOnce'
BY DEF SyncedIsFiled, CountedOnce

-----------------------------------------------------------------------------
(* The steps.                                                              *)

LEMMA SendAtOnceStep ==
  ASSUME OInv, NEW i \in Items, SendAtOnce(i) PROVE OInv'
<1> USE DEF OInv
<1>0. DrainType /\ QueueTypes /\ OtherTypes
  BY QueueTypesSplit
<1>1. /\ wizard[i] = "draft" /\ UNCHANGED <<image, disk, photos, drain, key, reloads, refused>>
      /\ \/ /\ wizard' = [wizard EXCEPT ![i] = "submitted"]
            /\ filed' = [filed EXCEPT ![i] = @ + 1] /\ UNCHANGED <<unheard, breaks>>
         \/ /\ wizard' = [wizard EXCEPT ![i] = "failed"] /\ Break
            /\ filed' = [filed EXCEPT ![i] = @ + 1] /\ unheard' = [unheard EXCEPT ![i] = @ + 1]
         \/ /\ wizard' = [wizard EXCEPT ![i] = "failed"] /\ UNCHANGED <<filed, unheard, breaks>>
  BY DEF SendAtOnce
<1>2. DrainType' /\ QueueTypes'
  BY <1>0, <1>1 DEF DrainType, QueueTypes
<1>3. OtherTypes'
  <2>1. breaks' \in 0..MaxBreaks
    BY <1>0, <1>1, BreakType DEF OtherTypes
  <2> QED BY <1>0, <1>1, <2>1 DEF OtherTypes
<1>4. \A j \in Items : filed'[j] >= filed[j]
  BY <1>0, <1>1 DEF OtherTypes
<1>5. SyncedIsFiled'
  BY <1>0, <1>1, <1>4 DEF SyncedIsFiled, OtherTypes
<1>6. Unseen(i) /\ filed[i] <= unheard[i] /\ key[i] = "free"
  BY <1>1 DEF ItemKnows, Unseen
<1>7. CountedOnce'
  BY <1>0, <1>1, <1>6 DEF CountedOnce, OtherTypes
<1>8. ASSUME NEW j \in Items PROVE ItemKnows(j)'
  <2>1. Unseen(j) => Unseen(j)'
    BY <1>1 DEF Unseen
  <2>2. CASE j = i
    BY <1>0, <1>1, <1>6, <2>1, <2>2 DEF ItemKnows, OtherTypes
  <2>3. CASE j # i
    BY <1>0, <1>1, <2>1, <2>3 DEF ItemKnows, OtherTypes
  <2> QED BY <2>2, <2>3
<1>9. ASSUME NEW d \in Drains PROVE DrainKnows(d)'
  BY <1>0, <1>1, <1>4 DEF DrainKnows, OtherTypes
<1> QED BY <1>2, <1>3, <1>5, <1>7, <1>8, <1>9, QueueTypesSplitNext

LEMMA EnqueueStep ==
  ASSUME OInv, NEW t \in Tabs, NEW i \in Items, Enqueue(t, i) PROVE OInv'
<1> USE DEF OInv
<1>0. DrainType /\ QueueTypes /\ OtherTypes
  BY QueueTypesSplit
<1> DEFINE rows == [image[t] EXCEPT ![i] = "pending"]
<1>1. /\ wizard[i] \in {"draft", "failed"} /\ wizard' = [wizard EXCEPT ![i] = "queued"]
      /\ Persist(t, rows)
      /\ UNCHANGED <<photos, drain, key, filed, unheard, breaks, reloads, refused>>
  BY DEF Enqueue
<1>2. rows \in Rows
  BY <1>0 DEF QueueTypes, Rows
<1> HIDE DEF rows
<1>3. DrainType' /\ OtherTypes'
  BY <1>0, <1>1 DEF DrainType, OtherTypes
<1>4. QueueTypes'
  BY <1>0, <1>1, <1>2, PersistType
<1>5. ASSUME NEW j \in Items, j # i
      PROVE \A u \in Tabs : image'[u][j] = image[u][j] /\ disk'[j] = image[t][j]
  BY <1>0, <1>1, <1>5 DEF Persist, QueueTypes, Rows, rows
<1>6. disk'[i] = "pending" /\ \A u \in Tabs : image'[u][i] \in {"pending", image[u][i]}
  BY <1>0, <1>1 DEF Persist, QueueTypes, Rows, rows
<1>7. SyncedIsFiled'
  <2> SUFFICES ASSUME NEW j \in Items, (\E u \in Tabs : image'[u][j] = "synced") \/ disk'[j] = "synced"
               PROVE filed'[j] > 0
    BY DEF SyncedIsFiled
  <2>1. \E u \in Tabs : image[u][j] = "synced"
    BY <1>5, <1>6
  <2> QED BY <1>1, <2>1 DEF SyncedIsFiled
<1>8. CountedOnce'
  BY <1>1 DEF CountedOnce
<1>9. ASSUME NEW j \in Items PROVE ItemKnows(j)'
  <2>1. CASE j = i
    BY <1>0, <1>1, <2>1 DEF ItemKnows, OtherTypes
  <2>2. CASE j # i
    <3>1. Unseen(j) => Unseen(j)'
      BY <1>1, <1>5, <2>2 DEF Unseen
    <3> QED BY <1>0, <1>1, <2>2, <3>1 DEF ItemKnows, OtherTypes
  <2> QED BY <2>1, <2>2
<1>10. ASSUME NEW d \in Drains PROVE DrainKnows(d)'
  BY <1>1 DEF DrainKnows
<1> QED BY <1>3, <1>4, <1>7, <1>8, <1>9, <1>10, QueueTypesSplitNext

LEMMA StartDrainStep ==
  ASSUME OInv, NEW d \in Drains, StartDrain(d) PROVE OInv'
<1> USE DEF OInv
<1>0. DrainType /\ QueueTypes /\ OtherTypes
  BY QueueTypesSplit
<1> DEFINE found == {i \in Items : image[TabOf[d]][i] = "pending"}
<1>1. /\ drain' = [drain EXCEPT ![d] = [Resting EXCEPT !.pc = "next", !.todo = found]]
      /\ UNCHANGED <<wizard, image, disk, photos, key, filed, unheard, breaks, reloads, refused>>
  BY DEF StartDrain
<1>2. drain'[d] = [pc |-> "next", item |-> Nothing, todo |-> found, succeeded |-> FALSE]
      /\ \A e \in Drains \ {d} : drain'[e] = drain[e]
  BY <1>0, <1>1 DEF DrainType, Resting
<1>3. DrainType'
  BY <1>0, <1>1 DEF DrainType, Resting
<1>4. QueueTypes' /\ OtherTypes'
  BY <1>0, <1>1 DEF QueueTypes, OtherTypes
<1>5. ASSUME NEW j \in Items PROVE ItemKnows(j)'
  <2>1. Unseen(j) => Unseen(j)'
    <3> SUFFICES ASSUME Unseen(j) PROVE Unseen(j)'
      OBVIOUS
    <3>1. j \notin found /\ j # Nothing
      BY OfflineAssumption DEF Unseen
    <3>2. drain'[d].todo = found /\ drain'[d].item = Nothing
      BY <1>2
    <3> HIDE DEF found
    <3>3. \A e \in Drains : j \notin drain'[e].todo /\ drain'[e].item # j
      BY <1>2, <3>1, <3>2 DEF Unseen
    <3> QED BY <1>1, <3>3 DEF Unseen
  <2> QED BY <1>1, <2>1, ItemFrame
<1>6. ASSUME NEW e \in Drains PROVE DrainKnows(e)'
  <2>1. CASE e = d
    BY <1>2, <2>1 DEF DrainKnows
  <2>2. CASE e # d
    BY <1>1, <1>2, <2>2 DEF DrainKnows
  <2> QED BY <2>1, <2>2
<1> QED BY <1>1, <1>3, <1>4, <1>5, <1>6, QueueFrame, QueueTypesSplitNext

LEMMA TakeRowStep ==
  ASSUME OInv, NEW d \in Drains, NEW i \in Items, TakeRow(d, i) PROVE OInv'
<1> USE DEF OInv
<1>0. DrainType /\ QueueTypes /\ OtherTypes
  BY QueueTypesSplit
<1>1. /\ i \in drain[d].todo
      /\ drain' = [drain EXCEPT ![d].pc = IF i \in Photos THEN "photo" ELSE "submit",
                                ![d].item = i, ![d].todo = @ \ {i}]
      /\ UNCHANGED <<wizard, image, disk, photos, key, filed, unheard, breaks, reloads, refused>>
  BY DEF TakeRow
<1>2. /\ drain'[d].pc \in {"photo", "submit"} /\ drain'[d].item = i
      /\ drain'[d].todo = drain[d].todo \ {i}
      /\ \A e \in Drains \ {d} : drain'[e] = drain[e]
  BY <1>0, <1>1 DEF DrainType
<1>3. DrainType'
  BY <1>0, <1>1 DEF DrainType
<1>4. QueueTypes' /\ OtherTypes'
  BY <1>0, <1>1 DEF QueueTypes, OtherTypes
<1>5. ASSUME NEW j \in Items PROVE ItemKnows(j)'
  <2>1. Unseen(j) => Unseen(j)'
    BY <1>1, <1>2 DEF Unseen
  <2> QED BY <1>1, <2>1, ItemFrame
<1>6. ASSUME NEW e \in Drains PROVE DrainKnows(e)'
  <2>1. CASE e = d
    BY <1>2, <2>1 DEF DrainKnows
  <2>2. CASE e # d
    BY <1>1, <1>2, <2>2 DEF DrainKnows
  <2> QED BY <2>1, <2>2
<1> QED BY <1>1, <1>3, <1>4, <1>5, <1>6, QueueFrame, QueueTypesSplitNext

LEMMA FinishDrainStep ==
  ASSUME OInv, NEW d \in Drains, FinishDrain(d) PROVE OInv'
<1> USE DEF OInv
<1>0. DrainType /\ QueueTypes /\ OtherTypes
  BY QueueTypesSplit
<1>t. TabOf[d] \in Tabs /\ image[TabOf[d]] \in Rows
  BY <1>0, OfflineAssumption DEF QueueTypes
<1>1. /\ drain' = [drain EXCEPT ![d] = Resting]
      /\ Persist(TabOf[d], image[TabOf[d]]) \/ UNCHANGED <<image, disk>>
      /\ UNCHANGED <<wizard, photos, key, filed, unheard, breaks, reloads, refused>>
  BY DEF FinishDrain
<1>2. image' = image /\ disk' \in {disk, image[TabOf[d]]}
  BY <1>0, <1>1 DEF Persist, QueueTypes
<1>3. drain'[d] = Resting /\ \A e \in Drains \ {d} : drain'[e] = drain[e]
  BY <1>0, <1>1 DEF DrainType
<1>4. DrainType'
  BY <1>0, <1>1 DEF DrainType, Resting
<1>5. QueueTypes' /\ OtherTypes'
  BY <1>0, <1>t, <1>1, <1>2 DEF QueueTypes, OtherTypes
<1>6. ASSUME NEW j \in Items PROVE ItemKnows(j)'
  <2>1. Unseen(j) => Unseen(j)'
    <3> SUFFICES ASSUME Unseen(j) PROVE Unseen(j)'
      OBVIOUS
    <3>1. disk'[j] = "absent"
      BY <1>t, <1>2 DEF Unseen
    <3>2. Resting.todo = {} /\ Resting.item # j
      BY OfflineAssumption DEF Resting
    <3> QED BY <1>1, <1>2, <1>3, <3>1, <3>2 DEF Unseen
  <2> QED BY <1>1, <2>1, ItemFrame
<1>7. ASSUME NEW e \in Drains PROVE DrainKnows(e)'
  <2>1. CASE e = d
    BY <1>3, <2>1 DEF DrainKnows, Resting
  <2>2. CASE e # d
    BY <1>1, <1>3, <2>2 DEF DrainKnows
  <2> QED BY <2>1, <2>2
<1>8. SyncedIsFiled'
  BY <1>t, <1>1, <1>2 DEF SyncedIsFiled
<1>9. CountedOnce'
  BY <1>1 DEF CountedOnce
<1> QED BY <1>4, <1>5, <1>6, <1>7, <1>8, <1>9, QueueTypesSplitNext

\* The drain passes on, with a report, or leaves it: nothing else changes but the
\* photos and the faults.
LEMMA PassOnStep ==
  ASSUME OInv, NEW d \in Drains, drain[d].pc \notin {"idle", "next"},
         \/ \E pc \in {"upload", "delete", "submit"} : Goes(d, pc)
         \/ NextUp(d, FALSE),
         photos' \subseteq photos, breaks' \in 0..MaxBreaks,
         UNCHANGED <<wizard, image, disk, key, filed, unheard, reloads, refused>>
  PROVE OInv'
<1> USE DEF OInv
<1>0. DrainType /\ QueueTypes /\ OtherTypes
  BY QueueTypesSplit
<1>1. drain[d].item \in Items
  BY DEF DrainKnows
<1>2. DrainType'
  BY <1>0, GoesType, NextUpType
<1>3. QueueTypes' /\ OtherTypes'
  BY <1>0 DEF QueueTypes, OtherTypes
<1>4. \A e \in Drains : DrainKnows(e)'
  <2>1. CASE NextUp(d, FALSE)
    BY <1>0, <2>1, NextUpKnows
  <2>2. CASE \E pc \in {"upload", "delete", "submit"} : Goes(d, pc)
    <3>1. PICK pc \in {"upload", "delete", "submit"} : Goes(d, pc)
      BY <2>2
    <3>2. \A e \in Drains : DrainKnows(e)
      OBVIOUS
    <3>3. ~(pc = "mark")
      OBVIOUS
    <3> QED BY <1>0, <1>1, <3>1, <3>2, <3>3, GoesKnows
  <2> QED BY <2>1, <2>2
<1>5. ASSUME NEW j \in Items PROVE ItemKnows(j)'
  <2>1. Unseen(j) => Unseen(j)'
    BY <1>0, NothingNew
  <2> QED BY <2>1, ItemFrame
<1> QED BY <1>2, <1>3, <1>4, <1>5, QueueFrame, QueueTypesSplitNext

LEMMA PhotoSteps ==
  ASSUME OInv, NEW d \in Drains, ReadPhoto(d) \/ Upload(d) \/ DeletePhoto(d)
  PROVE OInv'
<1>0. OtherTypes /\ breaks \in 0..MaxBreaks
  BY QueueTypesSplit DEF OInv, OtherTypes
<1>1. CASE ReadPhoto(d)
  BY <1>0, <1>1, PassOnStep DEF ReadPhoto, On
<1>2. CASE Upload(d)
  BY <1>0, <1>2, BreakType, PassOnStep DEF Upload, On
<1>3. CASE DeletePhoto(d)
  BY <1>0, <1>3, PassOnStep DEF DeletePhoto, On
<1> QED BY <1>1, <1>2, <1>3

\* The claims and answers of the gateway: of the reports only i's key and counts
\* change, and i is queued.
LEMMA AnswerStep ==
  ASSUME OInv, NEW i \in Items, wizard[i] = "queued",
         \/ \E d \in Drains, pc \in {"wait", "mark"} :
              /\ Goes(d, pc) /\ drain[d].item \in Items
              /\ pc = "mark" => filed'[drain[d].item] > 0
         \/ \E ok \in BOOLEAN : Answers(i, ok) /\ (ok => filed'[i] > 0)
         \/ UNCHANGED drain,
         NEW k \in {"free", "serving", "filed", "held", "stored"},
         key' = [key EXCEPT ![i] = k],
         filed' \in {filed, [filed EXCEPT ![i] = @ + 1]},
         unheard' \in {unheard, [unheard EXCEPT ![i] = @ + 1]},
         filed'[i] <= 1 + unheard'[i],
         k \in {"filed", "stored"} => filed'[i] > 0,
         k \notin {"filed", "stored"} => filed'[i] <= unheard'[i],
         breaks' \in 0..MaxBreaks,
         UNCHANGED <<wizard, image, disk, photos, reloads, refused>>
  PROVE OInv'
<1> USE DEF OInv
<1>0. DrainType /\ QueueTypes /\ OtherTypes
  BY QueueTypesSplit
<1>1. DrainType'
  <2>1. CASE \E ok \in BOOLEAN : Answers(i, ok)
    BY <1>0, <2>1, AnswersType
  <2>2. CASE \E d \in Drains, pc \in {"wait", "mark"} : Goes(d, pc)
    BY <1>0, <2>2, GoesType
  <2>3. CASE UNCHANGED drain
    BY <1>0, <2>3 DEF DrainType
  <2> QED BY <2>1, <2>2, <2>3
<1>2. QueueTypes' /\ OtherTypes'
  BY <1>0 DEF QueueTypes, OtherTypes
<1>3. \A j \in Items : filed'[j] >= filed[j] /\ unheard'[j] >= unheard[j]
                       /\ (j # i => filed'[j] = filed[j] /\ unheard'[j] = unheard[j] /\ key'[j] = key[j])
  BY <1>0 DEF OtherTypes
<1>4. SyncedIsFiled' /\ CountedOnce'
  <2>1. \A j \in Items : filed[j] \in Nat /\ filed'[j] \in Nat
    BY <1>0, <1>2 DEF OtherTypes
  <2> QED BY <1>3, <2>1 DEF SyncedIsFiled, CountedOnce
<1>5. ASSUME NEW j \in Items PROVE ItemKnows(j)'
  <2>1. CASE j = i
    BY <1>0, <2>1 DEF ItemKnows, OtherTypes
  <2>2. CASE j # i
    <3>1. Unseen(j) => Unseen(j)'
      BY <1>0, <1>3, <2>2, NothingNew
    <3> QED BY <1>3, <2>2, <3>1 DEF ItemKnows
  <2> QED BY <2>1, <2>2
<1>6. ASSUME NEW e \in Drains PROVE DrainKnows(e)'
  <2>0. \A j \in Items : filed[j] > 0 => filed'[j] > 0
    BY <1>0, <1>2, <1>3 DEF OtherTypes
  <2>1. CASE drain'[e] = drain[e]
    BY <2>0, <2>1 DEF DrainKnows
  <2>2. CASE drain'[e].pc = "next"
    BY <2>2 DEF DrainKnows
  <2>3. CASE \E d \in Drains, pc \in {"wait", "mark"} :
               /\ Goes(d, pc) /\ drain[d].item \in Items
               /\ pc = "mark" => filed'[drain[d].item] > 0
    BY <1>0, <2>0, <2>3 DEF DrainKnows, Goes, DrainType
  <2>4. CASE \E ok \in BOOLEAN : Answers(i, ok) /\ (ok => filed'[i] > 0)
    <3>1. PICK ok \in BOOLEAN : Answers(i, ok) /\ (ok => filed'[i] > 0)
      BY <2>4
    <3>2. CASE ~(On(e, "wait") /\ drain[e].item = i)
      BY <2>1, <3>1, <3>2 DEF Answers
    <3>3. CASE On(e, "wait") /\ drain[e].item = i /\ ok
      <4>1. drain'[e] = [drain[e] EXCEPT !.pc = "mark"]
        BY <3>1, <3>3 DEF Answers
      <4>2. drain'[e].pc = "mark" /\ drain'[e].item = i /\ filed'[i] > 0
        BY <1>0, <3>1, <3>3, <4>1 DEF DrainType
      <4> QED BY <1>0, <3>3, <4>1, <4>2 DEF DrainType, DrainKnows, On
    <3>4. CASE On(e, "wait") /\ drain[e].item = i /\ ~ok
      BY <1>0, <2>2, <3>1, <3>4 DEF Answers, DrainType
    <3> QED BY <3>2, <3>3, <3>4
  <2>5. CASE UNCHANGED drain
    BY <2>1, <2>5
  <2> QED BY <2>3, <2>4, <2>5
<1> QED BY <1>1, <1>2, <1>4, <1>5, <1>6, QueueTypesSplitNext

LEMMA SubmitStep ==
  ASSUME OInv, NEW d \in Drains, Submit(d) PROVE OInv'
<1> DEFINE i == drain[d].item
<1>0. DrainType /\ QueueTypes /\ OtherTypes
  BY QueueTypesSplit DEF OInv
<1>1. On(d, "submit") /\ UNCHANGED <<wizard, image, disk, photos, filed, unheard, reloads, refused>>
  BY DEF Submit
<1>2. i \in Items /\ wizard[i] = "queued"
  BY <1>1 DEF OInv, DrainKnows, ItemKnows, Unseen, On
<1>3. i \in Items /\ filed[i] \in Nat /\ unheard[i] \in Nat /\ key[i] \in {"free", "serving", "filed", "held", "stored"}
  BY <1>0, <1>2 DEF OtherTypes
<1>4. breaks' \in 0..MaxBreaks
  BY <1>0, BreakType DEF Submit, OtherTypes
<1>5. filed[i] <= 1 + unheard[i] /\ ItemKnows(i)
  BY <1>2 DEF OInv, CountedOnce
<1>6. CASE NextUp(d, FALSE) /\ UNCHANGED key
  BY <1>1, <1>4, <1>6, PassOnStep DEF On
<1>7. CASE Claimable(i) /\ Goes(d, "wait") /\ key' = [key EXCEPT ![i] = "serving"]
  <2>1. filed[i] <= unheard[i]
    BY <1>2, <1>5, <1>7 DEF ItemKnows, Claimable
  <2> HIDE DEF i
  <2> QED BY <1>1, <1>2, <1>3, <1>4, <1>5, <1>7, <2>1, AnswerStep DEF i
<1>8. CASE key[i] = "stored" /\ Goes(d, "mark") /\ UNCHANGED key
  <2>1. filed[i] > 0
    BY <1>5, <1>8 DEF ItemKnows
  <2>2. key' = [key EXCEPT ![i] = key[i]]
    BY <1>0, <1>8 DEF OtherTypes
  <2> HIDE DEF i
  <2> QED BY <1>1, <1>2, <1>3, <1>4, <1>5, <1>8, <2>1, <2>2, AnswerStep DEF i
<1> QED BY <1>6, <1>7, <1>8 DEF Submit

LEMMA GatewaySteps ==
  ASSUME OInv, NEW i \in Items, Respond(i) \/ ClaimAges(i) PROVE OInv'
<1>0. DrainType /\ QueueTypes /\ OtherTypes
  BY QueueTypesSplit DEF OInv
<1>1. wizard[i] = "queued" /\ filed[i] <= 1 + unheard[i] /\ ItemKnows(i)
  BY DEF OInv, ItemKnows, Unseen, Respond, File, StoreAnswer, ClaimAges, CountedOnce
<1>2. filed[i] \in Nat /\ unheard[i] \in Nat
  BY <1>0 DEF OtherTypes
<1>3. breaks' \in 0..MaxBreaks
  BY <1>0, BreakType DEF Respond, File, StoreAnswer, ClaimAges, OtherTypes
<1>4. CASE File(i)
  <2>1. filed[i] <= unheard[i]
    BY <1>1, <1>4 DEF ItemKnows, File
  <2>2. unheard' = unheard /\ UNCHANGED <<wizard, image, disk, photos, reloads, refused>>
    BY <1>4 DEF File
  <2>3. CASE /\ key' = [key EXCEPT ![i] = "filed"] /\ filed' = [filed EXCEPT ![i] = @ + 1]
             /\ UNCHANGED drain
    <3>1. filed'[i] = filed[i] + 1
      BY <1>0, <2>3 DEF OtherTypes
    <3>2. filed'[i] <= 1 + unheard'[i] /\ filed'[i] > 0
      BY <1>2, <2>1, <2>2, <3>1
    <3> QED BY <1>1, <1>3, <2>2, <2>3, <3>2, AnswerStep
  <2>4. CASE key' = [key EXCEPT ![i] = "held"] /\ Answers(i, FALSE) /\ UNCHANGED filed
    BY <1>1, <1>2, <1>3, <2>1, <2>2, <2>4, AnswerStep
  <2> QED BY <1>4, <2>3, <2>4 DEF File
<1>5. CASE StoreAnswer(i)
  <2>1. filed[i] > 0
    BY <1>1, <1>5 DEF ItemKnows, StoreAnswer
  <2>2. UNCHANGED <<wizard, image, disk, photos, filed, reloads, refused>>
    BY <1>5 DEF StoreAnswer
  <2>3. PICK ok \in BOOLEAN : Answers(i, ok)
    BY <1>5 DEF StoreAnswer
  <2>4. CASE key' = [key EXCEPT ![i] = "stored"] /\ UNCHANGED unheard
    BY <1>1, <1>2, <1>3, <2>1, <2>2, <2>3, <2>4, AnswerStep
  <2>5. CASE key' = [key EXCEPT ![i] = "held"] /\ unheard' = [unheard EXCEPT ![i] = @ + 1]
    <3>1. unheard'[i] = unheard[i] + 1
      BY <1>0, <2>5 DEF OtherTypes
    <3>2. filed'[i] <= unheard'[i] /\ filed'[i] <= 1 + unheard'[i]
      BY <1>1, <1>2, <2>2, <3>1
    <3> QED BY <1>1, <1>3, <2>2, <2>3, <2>1, <2>5, <3>2, AnswerStep
  <2> QED BY <1>5, <2>4, <2>5 DEF StoreAnswer
<1>6. CASE ClaimAges(i)
  <2>1. filed[i] <= unheard[i]
    BY <1>1, <1>6 DEF ItemKnows, ClaimAges
  <2> QED BY <1>1, <1>2, <1>3, <1>6, <2>1, AnswerStep DEF ClaimAges
<1> QED BY <1>4, <1>5, <1>6 DEF Respond

LEMMA MarkSyncedStep ==
  ASSUME OInv, NEW d \in Drains, MarkSynced(d) PROVE OInv'
<1> USE DEF OInv
<1> DEFINE i == drain[d].item
           t == TabOf[d]
           rows == [image[t] EXCEPT ![i] = "synced"]
<1>0. DrainType /\ QueueTypes /\ OtherTypes
  BY QueueTypesSplit
<1>1. /\ On(d, "mark") /\ NextUp(d, TRUE) /\ Persist(t, rows)
      /\ UNCHANGED <<wizard, photos, key, filed, unheard, breaks, reloads, refused>>
  BY DEF MarkSynced
<1>2. i \in Items /\ filed[i] > 0 /\ t \in Tabs
  BY <1>1, OfflineAssumption DEF DrainKnows, On
<1>3. rows \in Rows /\ \A j \in Items : rows[j] \in {image[t][j], "synced"} /\ (j # i => rows[j] = image[t][j])
  BY <1>0, <1>2 DEF QueueTypes, Rows
<1> HIDE DEF i, t, rows
<1>4. DrainType'
  BY <1>0, <1>1, NextUpType
<1>5. QueueTypes' /\ OtherTypes'
  BY <1>0, <1>1, <1>2, <1>3, PersistType DEF OtherTypes
<1>6. disk' = rows /\ \A u \in Tabs : image'[u] \in {image[u], rows}
  BY <1>0, <1>1 DEF Persist, QueueTypes
<1>7. SyncedIsFiled'
  <2> SUFFICES ASSUME NEW j \in Items, (\E u \in Tabs : image'[u][j] = "synced") \/ disk'[j] = "synced"
               PROVE filed'[j] > 0
    BY DEF SyncedIsFiled
  <2>1. CASE j = i
    BY <1>1, <1>2, <2>1
  <2>2. CASE j # i
    <3>1. \E u \in Tabs : image[u][j] = "synced"
      BY <1>2, <1>3, <1>6, <2>2
    <3> QED BY <1>1, <3>1 DEF SyncedIsFiled
  <2> QED BY <2>1, <2>2
<1>8. CountedOnce'
  BY <1>1 DEF CountedOnce
<1>9. ASSUME NEW j \in Items PROVE ItemKnows(j)'
  <2>1. Unseen(j) => Unseen(j)'
    <3> SUFFICES ASSUME Unseen(j) PROVE Unseen(j)'
      OBVIOUS
    <3>1. j # i
      BY DEF Unseen, i
    <3>2. disk'[j] = "absent" /\ \A u \in Tabs : image'[u][j] = "absent"
      BY <1>2, <1>3, <1>6, <3>1 DEF Unseen
    <3>3. \A e \in Drains : drain'[e].todo = drain[e].todo /\ drain'[e].item \in {drain[e].item, Nothing}
      <4> TAKE e \in Drains
      <4>1. CASE e = d
        BY <1>0, <1>1, <4>1, SMTT(30) DEF DrainType, NextUp
      <4>2. CASE e # d
        BY <1>0, <1>1, <4>2 DEF DrainType, NextUp
      <4> QED BY <4>1, <4>2
    <3> QED BY <1>1, <3>2, <3>3, OfflineAssumption DEF Unseen
  <2> QED BY <1>1, <2>1, ItemFrame
<1>10. \A e \in Drains : DrainKnows(e)'
  BY <1>0, <1>1, NextUpKnows
<1> QED BY <1>4, <1>5, <1>7, <1>8, <1>9, <1>10, QueueTypesSplitNext

LEMMA ReloadStep ==
  ASSUME OInv, NEW t \in Tabs, Reload(t) PROVE OInv'
<1> USE DEF OInv
<1>0. DrainType /\ QueueTypes /\ OtherTypes
  BY QueueTypesSplit
<1>1. /\ reloads < MaxReloads /\ reloads' = reloads + 1 /\ image' = [image EXCEPT ![t] = disk]
      /\ drain' = [d \in Drains |-> IF TabOf[d] = t THEN Resting ELSE drain[d]]
      /\ UNCHANGED <<wizard, disk, photos, key, filed, unheard, breaks, refused>>
  BY DEF Reload
<1>2. \A u \in Tabs : image'[u] \in {image[u], disk}
  BY <1>0, <1>1 DEF QueueTypes
<1>3. \A d \in Drains : drain'[d] \in {drain[d], Resting}
  BY <1>1
<1>4. DrainType'
  BY <1>0, <1>1 DEF DrainType, Resting
<1>5. QueueTypes'
  BY <1>0, <1>1 DEF QueueTypes
<1>6. OtherTypes'
  BY <1>0, <1>1, OfflineAssumption DEF OtherTypes
<1>7. SyncedIsFiled' /\ CountedOnce'
  BY <1>1, <1>2 DEF SyncedIsFiled, CountedOnce
<1>8. ASSUME NEW j \in Items PROVE ItemKnows(j)'
  <2>1. Unseen(j) => Unseen(j)'
    BY <1>1, <1>2, <1>3, OfflineAssumption DEF Unseen, Resting
  <2> QED BY <1>1, <2>1, ItemFrame
<1>9. ASSUME NEW d \in Drains PROVE DrainKnows(d)'
  BY <1>1, <1>3 DEF DrainKnows, Resting
<1> QED BY <1>4, <1>5, <1>6, <1>7, <1>8, <1>9, QueueTypesSplitNext

LEMMA StutterStep == ASSUME OInv, UNCHANGED offlineVars PROVE OInv'
<1>1. OfflineTypeOK' /\ SyncedIsFiled' /\ CountedOnce'
  BY DEF OInv, offlineVars, OfflineTypeOK, SyncedIsFiled, CountedOnce
<1>2. \A i \in Items : ItemKnows(i)'
  BY DEF OInv, offlineVars, ItemKnows, Unseen
<1>3. \A d \in Drains : DrainKnows(d)'
  BY DEF OInv, offlineVars, DrainKnows
<1> QED BY <1>1, <1>2, <1>3 DEF OInv

LEMMA OInvStep == OInv /\ [OfflineNext]_offlineVars => OInv'
<1> SUFFICES ASSUME OInv, [OfflineNext]_offlineVars PROVE OInv'
  OBVIOUS
<1>1. CASE \E i \in Items : SendAtOnce(i)
  BY <1>1, SendAtOnceStep
<1>2. CASE \E i \in Items : Respond(i) \/ ClaimAges(i)
  BY <1>2, GatewaySteps
<1>3. CASE \E i \in Items, t \in Tabs : Enqueue(t, i)
  BY <1>3, EnqueueStep
<1>4. CASE \E d \in Drains : StartDrain(d)
  BY <1>4, StartDrainStep
<1>5. CASE \E d \in Drains : DrainStep(d)
  BY <1>5, TakeRowStep, FinishDrainStep, PhotoSteps, SubmitStep, MarkSyncedStep DEF DrainStep
<1>6. CASE \E t \in Tabs : Reload(t)
  BY <1>6, ReloadStep
<1>7. CASE UNCHANGED offlineVars
  BY <1>7, StutterStep
<1> QED BY <1>1, <1>2, <1>3, <1>4, <1>5, <1>6, <1>7 DEF OfflineNext

\* However many tabs and drains send a report, and whatever is lost or reloaded in
\* between, none is shown as sent that the gateway has not counted, and the gateway
\* counts it once, plus once for each counting the client never heard of.
THEOREM OfflineSafety == OfflineSpec => []OfflineInvariant
<1>1. OInv => OfflineInvariant
  BY DEF OInv, OfflineInvariant
<1> QED BY <1>1, InitOInv, OInvStep, PTL DEF OfflineSpec

-----------------------------------------------------------------------------
(***************************************************************************)
(* The intake of citizens' complaints.                                     *)
(***************************************************************************)

-----------------------------------------------------------------------------
(* What a step must know for the properties to be inductive.               *)

Inside(r) == report[r].pc \in {"search", "active", "resolved", "write"}

\* In its transaction, a report of the portal holds the lock of its key.
CellsAreLocked == \A r \in PortalReports : Inside(r) => cellLock[Key(r)] = r

RowsAreFiled == \A c \in Reports : rowLock[c] # Unlocked => c \in Filed

\* A report that created a complaint has left the transaction, with itself as target.
FiledHaveLeft ==
  \A r \in Filed : /\ report[r].target = r
                   /\ report[r].pc \in {"publish", "track", "photo", "answered", "failed"}

\* Until it writes, a report has no other complaint for a target.
OwnTargets ==
  \A r \in Reports : report[r].pc \in {"new", "search", "active", "resolved"} => Creates(r)

\* A report about to merge holds its complaint, whose status is the one it read.
TargetsAreHeld ==
  \A r \in Reports : Is(r, "write") /\ ~Creates(r) =>
    LET c == report[r].target
    IN c \in Filed /\ rowLock[c] = r /\ report[r].was = standing[c]

TargetsAreFiled ==
  \A r \in Reports : /\ Is(r, "publish") => r \in Filed
                     /\ Is(r, "track") => report[r].target \in Filed

\* The portal's complaints of the damage and cell of r.
Twins(r) == {s \in Filed \cap PortalReports : Key(s) = Key(r)}

\* A report that may yet create a complaint has passed over the twins, but for
\* those whose row it has still to lock.
TwinsAreSeen ==
  \A r \in PortalReports :
    /\ Is(r, "active") => Twins(r) \subseteq passedOver[r] \cup report[r].found
    /\ Is(r, "resolved") \/ (Is(r, "write") /\ Creates(r)) => Twins(r) \subseteq passedOver[r]

\* Complaints that miss a row for a failure that has happened.
Missed ==
  {c \in Filed : \/ report[c].pc \in {"answered", "failed"} /\ ~(c \in submitted /\ c \in tracked)
                 \/ report[c].pc \in {"track", "photo"} /\ c \notin submitted}

MissesAreFailures == Cardinality(Missed) <= mishaps

IInv ==
  /\ IntakeTypeOK /\ CellsAreLocked /\ RowsAreFiled /\ FiledHaveLeft
  /\ OwnTargets /\ TargetsAreHeld /\ TargetsAreFiled /\ TwinsAreSeen
  /\ DuplicatesWereClosed /\ MissesAreFailures

RowTypes ==
  /\ standing \in [Reports -> Standings \cup {"none"}] /\ reportCount \in [Reports -> Nat]
  /\ passedOver \in [Reports -> SUBSET Reports]
  /\ moves \in 0..MaxMoves /\ mishaps \in 0..MaxMishaps

LockTypes ==
  /\ cellLock \in [Keys -> Reports \cup {Unlocked}]
  /\ rowLock \in [Reports -> Reports \cup {Unlocked}]

ReportRecord ==
  [found : SUBSET Reports, target : Reports,
   was : Standings \cup {"none"}, pc : {"new", "search", "active", "resolved", "write",
                                        "publish", "track", "photo", "answered", "failed"}]

ReportTypes == report \in [Reports -> ReportRecord]

FiledTypes == submitted \subseteq Filed /\ tracked \subseteq Filed

LEMMA IntakeSplit == IntakeTypeOK <=> RowTypes /\ LockTypes /\ ReportTypes /\ FiledTypes
BY DEF IntakeTypeOK, RowTypes, LockTypes, ReportTypes, FiledTypes, ReportRecord

LEMMA IntakeSplitNext == RowTypes' /\ LockTypes' /\ ReportTypes' /\ FiledTypes' => IntakeTypeOK'
BY DEF IntakeTypeOK, RowTypes, LockTypes, ReportTypes, FiledTypes, ReportRecord

LEMMA ReportSets ==
  ASSUME NEW S \in SUBSET Reports PROVE IsFiniteSet(S) /\ Cardinality(S) \in Nat
BY FS_Subset, FS_CardinalityType, IntakeAssumption

LEMMA InitIInv == IntakeInit => IInv
<1> SUFFICES ASSUME IntakeInit PROVE IInv
  OBVIOUS
<1> USE IntakeAssumption DEF IntakeInit
<1>1. Filed = {}
  BY DEF Filed
<1>2. RowTypes /\ LockTypes /\ FiledTypes
  BY <1>1 DEF RowTypes, LockTypes, FiledTypes
<1>3. ReportTypes
  BY DEF ReportTypes, ReportRecord
<1>4. CellsAreLocked /\ RowsAreFiled /\ FiledHaveLeft /\ OwnTargets /\ TargetsAreHeld /\ TargetsAreFiled
  <2>1. \A r \in Reports : report[r].pc \in {"new", "search"}
    OBVIOUS
  <2>2. \A r \in PortalReports : report[r].pc = "new"
    OBVIOUS
  <2>3. CellsAreLocked
    BY <2>2 DEF CellsAreLocked, Inside
  <2>4. TargetsAreHeld /\ TargetsAreFiled
    BY <2>1 DEF TargetsAreHeld, TargetsAreFiled, Is
  <2>5. RowsAreFiled
    BY DEF RowsAreFiled
  <2>6. FiledHaveLeft
    BY <1>1 DEF FiledHaveLeft
  <2>7. OwnTargets
    BY DEF OwnTargets, Creates
  <2> QED BY <2>3, <2>4, <2>5, <2>6, <2>7
<1>5. TwinsAreSeen /\ DuplicatesWereClosed
  BY <1>1 DEF TwinsAreSeen, DuplicatesWereClosed, Twins
<1>6. MissesAreFailures
  <2>1. Missed = {}
    BY <1>1 DEF Missed
  <2> QED BY <2>1, FS_EmptySet DEF MissesAreFailures
<1> QED BY <1>2, <1>3, <1>4, <1>5, <1>6, IntakeSplit DEF IInv

-----------------------------------------------------------------------------
(* What the steps share.                                                   *)

LEMMA MishapType ==
  ASSUME RowTypes, Mishap PROVE mishaps' \in 0..MaxMishaps /\ mishaps' = mishaps + 1
BY IntakeAssumption DEF RowTypes, Mishap

\* A step leaves no complaint without a row, but for one of a failure.
LEMMA MissesGrow ==
  ASSUME IInv, RowTypes', Filed' \subseteq Reports,
         \/ Missed' \subseteq Missed /\ (mishaps' = mishaps \/ mishaps' = mishaps + 1)
         \/ mishaps' = mishaps + 1 /\ \E r : Missed' \subseteq Missed \cup {r}
  PROVE  MissesAreFailures'
<1>1. Missed \subseteq Reports /\ Missed' \subseteq Reports
  BY DEF Missed, Filed
<1>2. /\ IsFiniteSet(Missed) /\ Cardinality(Missed) \in Nat /\ Cardinality(Missed') \in Nat
      /\ IsFiniteSet(Missed')
  BY <1>1, ReportSets
<1>3. mishaps \in Nat /\ Cardinality(Missed) <= mishaps
  BY IntakeAssumption DEF IInv, IntakeTypeOK, MissesAreFailures
<1>4. CASE Missed' \subseteq Missed /\ (mishaps' = mishaps \/ mishaps' = mishaps + 1)
  <2>1. Cardinality(Missed') <= Cardinality(Missed)
    BY <1>2, <1>4, FS_Subset
  <2> QED BY <1>2, <1>3, <1>4, <2>1 DEF MissesAreFailures
<1>5. CASE mishaps' = mishaps + 1 /\ \E r : Missed' \subseteq Missed \cup {r}
  <2>1. PICK r : Missed' \subseteq Missed \cup {r}
    BY <1>5
  <2>2. /\ IsFiniteSet(Missed \cup {r})
        /\ Cardinality(Missed \cup {r}) \in {Cardinality(Missed), Cardinality(Missed) + 1}
    BY <1>2, FS_AddElement
  <2>3. Cardinality(Missed') <= Cardinality(Missed \cup {r})
    BY <2>1, <2>2, FS_Subset
  <2> QED BY <1>2, <1>3, <1>5, <2>2, <2>3 DEF MissesAreFailures
<1> QED BY <1>4, <1>5

\* A step of r that creates no complaint, and changes the status of one it holds.
LEMMA ReportMoves ==
  ASSUME IInv, NEW r \in Reports, NEW new \in ReportRecord,
         report' = [report EXCEPT ![r] = new],
         Filed' = Filed,
         \A c \in Reports : rowLock[c] \notin {r, Unlocked} => standing'[c] = standing[c],
         RowTypes', LockTypes', FiledTypes',
         \A q \in Reports \ {r} : passedOver'[q] = passedOver[q],
         \A k \in Keys : cellLock[k] \notin {r, Unlocked} => cellLock'[k] = cellLock[k],
         r \in PortalReports /\ new.pc \in {"search", "active", "resolved", "write"}
           => cellLock'[Key(r)] = r,
         \A c \in Reports : /\ rowLock[c] \notin {r, Unlocked} => rowLock'[c] = rowLock[c]
                            /\ rowLock'[c] # Unlocked => c \in Filed,
         r \in Filed => /\ new.target = r
                        /\ new.pc \in {"publish", "track", "photo", "answered", "failed"}
                        /\ passedOver'[r] = passedOver[r],
         new.pc \in {"new", "search", "active", "resolved"} => new.target = r,
         new.pc = "write" /\ new.target # r =>
           new.target \in Filed /\ rowLock'[new.target] = r /\ new.was = standing'[new.target],
         new.pc = "publish" => r \in Filed,
         new.pc = "track" => new.target \in Filed,
         r \in PortalReports =>
           /\ new.pc = "active" => Twins(r) \subseteq passedOver'[r] \cup new.found
           /\ new.pc = "resolved" \/ (new.pc = "write" /\ new.target = r)
                => Twins(r) \subseteq passedOver'[r],
         MissesAreFailures'
  PROVE  IInv'
<1> USE IntakeAssumption DEF IInv
<1>1. RowTypes /\ LockTypes /\ ReportTypes /\ FiledTypes
  BY IntakeSplit
<1>2. Filed' = Filed /\ Filed \subseteq Reports
  BY DEF Filed
<1>3. report'[r] = new /\ \A q \in Reports \ {r} : report'[q] = report[q]
  BY <1>1 DEF ReportTypes
<1>4. IntakeTypeOK'
  BY <1>1, IntakeSplitNext DEF ReportTypes
<1>5. CellsAreLocked'
  <2> SUFFICES ASSUME NEW q \in PortalReports, Inside(q)' PROVE cellLock'[Key(q)] = q
    BY DEF CellsAreLocked, Key
  <2>1. CASE q = r
    BY <1>3, <2>1 DEF Inside
  <2>2. CASE q # r
    <3>1. Key(q) \in Keys /\ cellLock[Key(q)] = q /\ q \in Reports
      BY <1>3, <2>2 DEF Inside, CellsAreLocked, Keys, Key
    <3> QED BY <2>2, <3>1
  <2> QED BY <2>1, <2>2
<1>6. RowsAreFiled'
  BY <1>2 DEF RowsAreFiled
<1>7. FiledHaveLeft'
  BY <1>2, <1>3 DEF FiledHaveLeft
<1>8. TargetsAreHeld'
  <2> SUFFICES ASSUME NEW q \in Reports, Is(q, "write")', ~Creates(q)'
               PROVE  LET c == report'[q].target
                      IN c \in Filed /\ rowLock'[c] = q /\ report'[q].was = standing'[c]
    BY <1>2 DEF TargetsAreHeld
  <2>1. CASE q = r
    BY <1>3, <2>1 DEF Is, Creates
  <2>2. CASE q # r
    <3>1. report'[q] = report[q] /\ Is(q, "write") /\ ~Creates(q)
      BY <1>3, <2>2 DEF Is, Creates
    <3>2. LET c == report[q].target IN c \in Filed /\ rowLock[c] = q /\ report[q].was = standing[c]
      BY <3>1 DEF TargetsAreHeld
    <3>3. report[q].target \in Reports /\ q # Unlocked
      BY <1>2, <3>2
    <3> QED BY <2>2, <3>1, <3>2, <3>3
  <2> QED BY <2>1, <2>2
<1>9. TargetsAreFiled'
  <2> SUFFICES ASSUME NEW q \in Reports
               PROVE  /\ report'[q].pc = "publish" => q \in Filed
                      /\ report'[q].pc = "track" => report'[q].target \in Filed
    BY <1>2 DEF TargetsAreFiled, Is
  <2>1. CASE q = r
    BY <1>3, <2>1
  <2>2. CASE q # r
    BY <1>3, <2>2 DEF TargetsAreFiled, Is
  <2> QED BY <2>1, <2>2
<1>10. TwinsAreSeen'
  <2>1. \A q : Twins(q)' = Twins(q)
    BY <1>2 DEF Twins, Key
  <2> SUFFICES ASSUME NEW q \in PortalReports
               PROVE  /\ report'[q].pc = "active" => Twins(q) \subseteq passedOver'[q] \cup report'[q].found
                      /\ report'[q].pc = "resolved" \/ (report'[q].pc = "write" /\ report'[q].target = q)
                           => Twins(q) \subseteq passedOver'[q]
    BY <2>1 DEF TwinsAreSeen, Is, Creates
  <2>2. CASE q = r
    BY <1>3, <2>2
  <2>3. CASE q # r
    <3>1. report'[q] = report[q] /\ passedOver'[q] = passedOver[q]
      BY <1>3, <2>3
    <3> QED BY <3>1 DEF TwinsAreSeen, Is, Creates
  <2> QED BY <2>2, <2>3
<1>11. DuplicatesWereClosed'
  <2>1. \A q \in Filed : passedOver'[q] = passedOver[q]
    BY <1>2
  <2> QED BY <1>2, <2>1 DEF DuplicatesWereClosed, Key
<1>12. OwnTargets'
  BY <1>3 DEF OwnTargets, Creates
<1> QED BY <1>4, <1>5, <1>6, <1>7, <1>8, <1>9, <1>10, <1>11, <1>12

LEMMA NotFiled ==
  ASSUME IInv, NEW r \in Reports,
         report[r].pc \in {"new", "search", "active", "resolved", "write"}
  PROVE  r \notin Filed
BY DEF IInv, FiledHaveLeft

LEMMA FiledStays == UNCHANGED standing => Filed' = Filed
BY DEF Filed

LEMMA TypesOf ==
  ASSUME IInv
  PROVE  /\ RowTypes /\ LockTypes /\ ReportTypes /\ FiledTypes
         /\ \A r \in Reports : report[r] \in ReportRecord
BY IntakeSplit DEF IInv, ReportTypes

\* A report that has created nothing misses nothing.
LEMMA MissesStay ==
  ASSUME IInv, RowTypes', NEW r \in Reports, r \notin Filed,
         \A q \in Reports \ {r} : report'[q] = report[q],
         UNCHANGED <<standing, submitted>>, tracked \subseteq tracked',
         mishaps' = mishaps \/ mishaps' = mishaps + 1
  PROVE  MissesAreFailures'
<1>1. Filed' = Filed /\ Filed \subseteq Reports
  BY DEF Filed
<1>2. Missed' \subseteq Missed
  BY <1>1 DEF Missed, Is
<1> QED BY <1>1, <1>2, MissesGrow

-----------------------------------------------------------------------------
(* The transaction.                                                        *)

LEMMA LockCellStep ==
  ASSUME IInv, NEW r \in Reports, LockCell(r) PROVE IInv'
<1> USE DEF IInv
<1> DEFINE new == [report[r] EXCEPT !.pc = "search"]
<1>1. RowTypes' /\ FiledTypes' /\ UNCHANGED standing /\ r \notin Filed
  BY TypesOf, NotFiled DEF LockCell, RowTypes, FiledTypes, Filed, Is
<1>2. Key(r) \in Keys
  BY DEF Keys, Key
<1>3. LockTypes' /\ cellLock'[Key(r)] = r
  BY <1>2, TypesOf DEF LockCell, LockTypes
<1>4. \A k \in Keys : cellLock[k] \notin {r, Unlocked} => cellLock'[k] = cellLock[k]
  BY <1>2, TypesOf DEF LockCell, Free, LockTypes
<1>5. new \in ReportRecord /\ new.pc = "search" /\ new.target = r
  BY TypesOf DEF ReportRecord, LockCell, Is, OwnTargets, Creates
<1>6. report' = [report EXCEPT ![r] = new]
  BY DEF LockCell
<1> HIDE DEF new
<1>7. MissesAreFailures'
  BY <1>1, <1>6, TypesOf, MissesStay DEF LockCell, ReportTypes
<1> QED BY <1>1, <1>3, <1>4, <1>5, <1>6, <1>7, FiledStays, ReportMoves DEF LockCell, RowsAreFiled

LEMMA SearchStep ==
  ASSUME IInv, NEW r \in Reports, Search(r) PROVE IInv'
<1> USE DEF IInv
<1> DEFINE found == {c \in Reports : Matches(r, c)}
           new == [report[r] EXCEPT !.pc = "active", !.found = found]
<1>1. /\ UNCHANGED <<standing, lockVars, submitted, tracked, moves, mishaps>>
      /\ r \notin Filed /\ OfType(r) \subseteq Reports
      /\ passedOver' = [passedOver EXCEPT ![r] = OfType(r) \ found]
      /\ report' = [report EXCEPT ![r] = new]
  BY NotFiled DEF Search, Is, OfType, Filed
<1>2. RowTypes' /\ LockTypes' /\ FiledTypes'
  BY <1>1, TypesOf DEF Search, RowTypes, LockTypes, FiledTypes, Filed, lockVars
<1>3. new \in ReportRecord /\ new.pc = "active" /\ new.found = found /\ new.target = r
  <2>1. report[r] \in ReportRecord /\ report[r].target = r /\ found \subseteq Reports
    BY TypesOf DEF Search, Is, OwnTargets, Creates
  <2> HIDE DEF found
  <2> QED BY <2>1 DEF ReportRecord
<1>4. r \in PortalReports => cellLock'[Key(r)] = r
  BY <1>1 DEF CellsAreLocked, Inside, Search, Is, lockVars
<1>5. Twins(r) \subseteq passedOver'[r] \cup found
  <2>1. Twins(r) \subseteq OfType(r)
    BY DEF Twins, OfType, Key
  <2> QED BY <1>1, <2>1, TypesOf DEF RowTypes
<1>6. MissesAreFailures'
  BY <1>1, <1>2, TypesOf, MissesStay DEF ReportTypes
<1>7. \A q \in Reports \ {r} : passedOver'[q] = passedOver[q]
  BY <1>1, TypesOf DEF RowTypes
<1> HIDE DEF new, found
<1> QED BY <1>1, <1>2, <1>3, <1>4, <1>5, <1>6, <1>7, FiledStays, ReportMoves DEF RowsAreFiled, lockVars

LEMMA MatchesFiled ==
  ASSUME NEW r, NEW c \in Reports, Matches(r, c) \/ Recurs(r, c) PROVE c \in Filed
BY DEF Matches, Recurs, OfType

LEMMA LockRowStep ==
  ASSUME IInv, NEW r \in Reports, NEW c \in Reports, LockRow(r, c) PROVE IInv'
<1> USE DEF IInv
<1>1. /\ UNCHANGED <<standing, cellLock, submitted, tracked, moves, mishaps, reportCount>>
      /\ r \notin Filed /\ rowLock[c] = Unlocked /\ Is(r, "active") /\ c \in report[r].found
  BY NotFiled DEF LockRow, Is
<1>2. r \in PortalReports => /\ cellLock'[Key(r)] = r
                             /\ Twins(r) \subseteq passedOver[r] \cup report[r].found
  BY <1>1 DEF CellsAreLocked, Inside, Is, TwinsAreSeen
<1>3. CASE Matches(r, c)
  <2> DEFINE new == [report[r] EXCEPT !.pc = "write", !.target = c, !.was = standing[c]]
  <2>1. /\ report' = [report EXCEPT ![r] = new] /\ UNCHANGED passedOver
        /\ rowLock' = [rowLock EXCEPT ![c] = r]
    BY <1>3 DEF LockRow, Take
  <2>2. RowTypes' /\ LockTypes' /\ FiledTypes'
    BY <1>1, <2>1, TypesOf DEF RowTypes, LockTypes, FiledTypes, Filed
  <2>3. new \in ReportRecord /\ new.pc = "write" /\ new.target = c /\ new.was = standing[c]
    <3>1. report[r] \in ReportRecord /\ standing[c] \in Standings \cup {"none"}
      BY TypesOf DEF RowTypes
    <3> QED BY <3>1 DEF ReportRecord
  <2>4. c \in Filed /\ c # r /\ rowLock'[c] = r
    BY <1>1, <1>3, <2>1, MatchesFiled, TypesOf DEF LockTypes
  <2>5. \A d \in Reports : /\ rowLock[d] \notin {r, Unlocked} => rowLock'[d] = rowLock[d]
                           /\ rowLock'[d] # Unlocked => d \in Filed
    BY <1>1, <2>1, <2>4, TypesOf DEF LockTypes, RowsAreFiled
  <2>6. MissesAreFailures'
    BY <1>1, <2>1, <2>2, TypesOf, MissesStay DEF ReportTypes
  <2> HIDE DEF new
  <2> QED BY <1>1, <1>2, <2>1, <2>2, <2>3, <2>4, <2>5, <2>6, FiledStays, ReportMoves
<1>4. CASE ~Matches(r, c)
  <2> DEFINE new == [report[r] EXCEPT !.found = @ \ {c}]
  <2>1. /\ report' = [report EXCEPT ![r] = new] /\ UNCHANGED rowLock
        /\ passedOver' = [passedOver EXCEPT ![r] = @ \cup {c}]
    BY <1>4 DEF LockRow
  <2>2. RowTypes' /\ LockTypes' /\ FiledTypes'
    BY <1>1, <2>1, TypesOf DEF RowTypes, LockTypes, FiledTypes, Filed
  <2>3. new \in ReportRecord /\ new.pc = "active" /\ new.found = report[r].found \ {c}
        /\ new.target = r
    BY <1>1, TypesOf DEF ReportRecord, Is, OwnTargets, Creates
  <2>4. /\ \A q \in Reports \ {r} : passedOver'[q] = passedOver[q]
        /\ passedOver'[r] = passedOver[r] \cup {c}
    BY <2>1, TypesOf DEF RowTypes
  <2>5. MissesAreFailures'
    BY <1>1, <2>1, <2>2, TypesOf, MissesStay DEF ReportTypes
  <2> HIDE DEF new
  <2>6. r \in PortalReports => Twins(r) \subseteq passedOver'[r] \cup new.found
    BY <1>2, <2>3, <2>4
  <2> QED BY <1>1, <1>2, <2>1, <2>2, <2>3, <2>4, <2>5, <2>6, FiledStays, ReportMoves DEF RowsAreFiled
<1> QED BY <1>3, <1>4

LEMMA SearchResolvedStep ==
  ASSUME IInv, NEW r \in Reports, SearchResolved(r) PROVE IInv'
<1> USE DEF IInv
<1> DEFINE found == IF ByPortal(r) THEN {c \in Reports : Recurs(r, c)} ELSE {}
           new == [report[r] EXCEPT !.pc = IF ByPortal(r) THEN "resolved" ELSE "write",
                                    !.found = found]
<1>1. /\ UNCHANGED <<standing, lockVars, submitted, tracked, passedOver, moves, mishaps, reportCount>>
      /\ r \notin Filed /\ Is(r, "active") /\ report[r].found = {}
      /\ report' = [report EXCEPT ![r] = new]
  BY NotFiled DEF SearchResolved, Is
<1>2. RowTypes' /\ LockTypes' /\ FiledTypes'
  BY <1>1, TypesOf DEF RowTypes, LockTypes, FiledTypes, Filed, lockVars
<1>3. new \in ReportRecord /\ new.target = report[r].target
      /\ new.pc = IF ByPortal(r) THEN "resolved" ELSE "write"
  <2>1. report[r] \in ReportRecord /\ found \subseteq Reports
    BY TypesOf
  <2> HIDE DEF found
  <2>2. CASE ByPortal(r)
    BY <2>1, <2>2 DEF ReportRecord
  <2>3. CASE ~ByPortal(r)
    BY <2>1, <2>3 DEF ReportRecord
  <2> QED BY <2>2, <2>3
<1>4. r \in PortalReports => cellLock'[Key(r)] = r /\ Twins(r) \subseteq passedOver[r]
  BY <1>1 DEF CellsAreLocked, Inside, Is, TwinsAreSeen, lockVars
<1>5. MissesAreFailures'
  BY <1>1, <1>2, TypesOf, MissesStay DEF ReportTypes
<1>6. report[r].target = r
  BY <1>1 DEF OwnTargets, Creates, Is
<1> HIDE DEF new, found
<1> QED BY <1>1, <1>2, <1>3, <1>4, <1>5, <1>6, FiledStays, ReportMoves DEF RowsAreFiled, lockVars, ByPortal

LEMMA LockResolvedStep ==
  ASSUME IInv, NEW r \in Reports, NEW c \in Reports, LockResolved(r, c) PROVE IInv'
<1> USE DEF IInv
<1> DEFINE new == [report[r] EXCEPT !.found = @ \ {c}]
<1>1. /\ UNCHANGED <<standing, cellLock, submitted, tracked, passedOver, moves, mishaps, reportCount>>
      /\ r \notin Filed /\ rowLock[c] = Unlocked /\ Is(r, "resolved")
      /\ report' = [report EXCEPT ![r] = new]
      /\ rowLock' = rowLock \/ (Recurs(r, c) /\ rowLock' = [rowLock EXCEPT ![c] = r])
  BY NotFiled DEF LockResolved, Is, Take
<1>2. RowTypes' /\ LockTypes' /\ FiledTypes' /\ Filed' = Filed
  BY <1>1, TypesOf DEF RowTypes, LockTypes, FiledTypes, Filed
<1>3. new \in ReportRecord /\ new.target = r /\ new.pc = "resolved"
  <2>1. report[r] \in ReportRecord /\ report[r].target = r /\ report[r].pc = "resolved"
    BY <1>1, TypesOf DEF Is, OwnTargets, Creates
  <2> QED BY <2>1 DEF ReportRecord
<1>4. r \in PortalReports => cellLock'[Key(r)] = r /\ Twins(r) \subseteq passedOver[r]
  BY <1>1 DEF CellsAreLocked, Inside, Is, TwinsAreSeen
<1>5. \A d \in Reports : /\ rowLock[d] \notin {r, Unlocked} => rowLock'[d] = rowLock[d]
                         /\ rowLock'[d] # Unlocked => d \in Filed
  BY <1>1, MatchesFiled, TypesOf DEF LockTypes, RowsAreFiled
<1>6. MissesAreFailures'
  BY <1>1, <1>2, TypesOf, MissesStay DEF ReportTypes
<1> HIDE DEF new
<1> QED BY <1>1, <1>2, <1>3, <1>4, <1>5, <1>6, ReportMoves

LEMMA ChooseStep ==
  ASSUME IInv, NEW r \in Reports, NEW c \in Reports, Choose(r, c) PROVE IInv'
<1> USE DEF IInv
<1> DEFINE new == [report[r] EXCEPT !.pc = "write", !.target = c, !.was = standing[c]]
<1>1. /\ UNCHANGED <<standing, lockVars, submitted, tracked, passedOver, moves, mishaps, reportCount>>
      /\ r \notin Filed /\ Is(r, "resolved") /\ (c = r \/ rowLock[c] = r)
      /\ report' = [report EXCEPT ![r] = new]
  BY NotFiled DEF Choose, Is
<1>2. RowTypes' /\ LockTypes' /\ FiledTypes' /\ Filed' = Filed
  BY <1>1, TypesOf DEF RowTypes, LockTypes, FiledTypes, Filed, lockVars
<1>3. new \in ReportRecord /\ new.pc = "write" /\ new.target = c /\ new.was = standing[c]
  <2>1. report[r] \in ReportRecord /\ standing[c] \in Standings \cup {"none"}
    BY TypesOf DEF RowTypes
  <2> QED BY <2>1 DEF ReportRecord
<1>4. r \in PortalReports => cellLock'[Key(r)] = r /\ Twins(r) \subseteq passedOver[r]
  BY <1>1 DEF CellsAreLocked, Inside, Is, TwinsAreSeen, lockVars
<1>5. c # r => c \in Filed /\ rowLock'[c] = r
  BY <1>1, IntakeAssumption DEF RowsAreFiled, lockVars
<1>6. MissesAreFailures'
  BY <1>1, <1>2, TypesOf, MissesStay DEF ReportTypes
<1> HIDE DEF new
<1> QED BY <1>1, <1>2, <1>3, <1>4, <1>5, <1>6, ReportMoves DEF RowsAreFiled, lockVars

\* COMMIT and ROLLBACK free what a report holds, and nothing else.
LEMMA UnlockFrees ==
  ASSUME IInv, NEW r \in Reports, Unlock(r)
  PROVE  /\ LockTypes'
         /\ \A k \in Keys : cellLock[k] \notin {r, Unlocked} => cellLock'[k] = cellLock[k]
         /\ \A c \in Reports : /\ rowLock[c] \notin {r, Unlocked} => rowLock'[c] = rowLock[c]
                               /\ rowLock'[c] # Unlocked => c \in Filed
<1>1. LockTypes /\ RowsAreFiled
  BY TypesOf DEF IInv
<1> QED BY <1>1 DEF Unlock, LockTypes, RowsAreFiled

LEMMA RollbackStep ==
  ASSUME IInv, NEW r \in Reports, Rollback(r) PROVE IInv'
<1> USE DEF IInv
<1> DEFINE new == [report[r] EXCEPT !.pc = "failed"]
<1>1. /\ UNCHANGED <<standing, submitted, tracked, passedOver, moves, reportCount>>
      /\ r \notin Filed /\ report' = [report EXCEPT ![r] = new] /\ Unlock(r)
      /\ mishaps' = mishaps + 1 /\ mishaps' \in 0..MaxMishaps
  BY NotFiled, TypesOf, MishapType DEF Rollback
<1>2. RowTypes' /\ LockTypes' /\ FiledTypes' /\ Filed' = Filed
  BY <1>1, TypesOf, UnlockFrees DEF RowTypes, FiledTypes, Filed
<1>3. new \in ReportRecord /\ new.pc = "failed"
  BY TypesOf DEF ReportRecord
<1>4. MissesAreFailures'
  BY <1>1, <1>2, TypesOf, MissesStay DEF ReportTypes
<1> HIDE DEF new
<1> QED BY <1>1, <1>2, <1>3, <1>4, UnlockFrees, ReportMoves

LEMMA MergeStep ==
  ASSUME IInv, NEW r \in Reports, NEW escalates \in BOOLEAN, Merge(r, escalates) PROVE IInv'
<1> USE DEF IInv
<1> DEFINE c == report[r].target
           pc == IF escalates THEN "track" ELSE IF ByPortal(r) THEN "answered" ELSE "failed"
           new == [report[r] EXCEPT !.pc = pc]
<1>1. /\ UNCHANGED <<submitted, tracked, passedOver, moves, mishaps>>
      /\ r \notin Filed /\ report' = [report EXCEPT ![r] = new] /\ Unlock(r)
      /\ reportCount' = [reportCount EXCEPT ![c] = @ + 1]
      /\ \/ standing' = standing
         \/ standing' = [standing EXCEPT ![c] = "ESCALATED"]
         \/ standing' = [standing EXCEPT ![c] = report[r].was]
      /\ Is(r, "write") /\ ~Creates(r)
  BY NotFiled DEF Merge, Is
<1>2. c \in Filed /\ c \in Reports /\ rowLock[c] = r /\ report[r].was = standing[c]
  BY <1>1 DEF TargetsAreHeld, Filed
<1>3. /\ \A d \in Reports : d # c => standing'[d] = standing[d]
      /\ standing'[c] \in {standing[c], "ESCALATED"} /\ standing[c] # "none"
  BY <1>1, <1>2, TypesOf DEF RowTypes, Filed
<1>4. Filed' = Filed
  BY <1>2, <1>3 DEF Filed
<1>5. RowTypes' /\ LockTypes' /\ FiledTypes'
  <2>1. standing' \in [Reports -> Standings \cup {"none"}]
    BY <1>1, <1>2, TypesOf DEF RowTypes, Standings
  <2> QED BY <1>1, <1>2, <1>4, <2>1, TypesOf, UnlockFrees DEF RowTypes, FiledTypes
<1>6. new \in ReportRecord /\ new.pc = pc /\ new.target = c /\ pc \in {"track", "answered", "failed"}
  <2>1. report[r] \in ReportRecord /\ pc \in {"track", "answered", "failed"}
    BY TypesOf
  <2> HIDE DEF pc
  <2> QED BY <2>1 DEF ReportRecord
<1>7. MissesAreFailures'
  <2>1. \A q \in Reports \ {r} : report'[q] = report[q]
    BY <1>1, TypesOf DEF ReportTypes
  <2>2. Missed' \subseteq Missed
    BY <1>1, <1>4, <2>1 DEF Missed, Is, Filed
  <2> QED BY <1>1, <1>5, <2>2, MissesGrow DEF Filed
<1> HIDE DEF new, c, pc
<1>8. \A d \in Reports : rowLock[d] \notin {r, Unlocked} => standing'[d] = standing[d]
  BY <1>2, <1>3
<1> QED BY <1>1, <1>2, <1>4, <1>5, <1>6, <1>7, <1>8, UnlockFrees, ReportMoves

\* The INSERT commits: the report's twins, which it has all passed over, cannot
\* have grown while it held their lock, and nor can those of a report that holds
\* another lock have.
LEMMA InsertStep ==
  ASSUME IInv, NEW r \in Reports, NEW photo \in BOOLEAN, Insert(r, photo) PROVE IInv'
<1> USE IntakeAssumption DEF IInv
<1> DEFINE pc == IF ByPortal(r) THEN "publish" ELSE IF photo THEN "photo" ELSE "track"
<1>1. /\ UNCHANGED <<tracked, passedOver, moves, mishaps>>
      /\ r \notin Filed /\ report' = [report EXCEPT ![r] = [report[r] EXCEPT !.pc = pc]]
      /\ Unlock(r) /\ Is(r, "write") /\ Creates(r)
      /\ submitted' = IF ByPortal(r) THEN submitted ELSE submitted \cup {r}
  BY NotFiled DEF Insert, AfterInsert, Is
<1>2. /\ standing'[r] \in {"OPEN", "FILED"}
      /\ \A c \in Reports \ {r} : standing'[c] = standing[c]
  BY TypesOf DEF Insert, AfterInsert, RowTypes
<1>3. Filed' = Filed \cup {r} /\ Filed \subseteq Reports
  BY <1>2 DEF Filed
<1>4. /\ report'[r].pc = pc /\ report'[r].target = r
      /\ report'[r] \in ReportRecord /\ report' \in [Reports -> ReportRecord]
      /\ \A q \in Reports \ {r} : report'[q] = report[q]
  <2>1. pc \in {"publish", "track", "photo"} /\ report[r] \in ReportRecord /\ report[r].target = r
    BY <1>1, TypesOf DEF Creates
  <2> HIDE DEF pc
  <2> QED BY <1>1, <2>1, TypesOf DEF ReportRecord, ReportTypes
<1>5. IntakeTypeOK'
  <2>1. RowTypes'
    BY <1>1, TypesOf DEF Insert, AfterInsert, RowTypes, Standings
  <2>2. FiledTypes'
    BY <1>1, <1>3, TypesOf DEF FiledTypes
  <2> QED BY <1>1, <1>4, <2>1, <2>2, UnlockFrees, IntakeSplitNext DEF ReportTypes
<1>6. CellsAreLocked'
  <2> SUFFICES ASSUME NEW q \in PortalReports, Inside(q)' PROVE cellLock'[Key(q)] = q
    BY DEF CellsAreLocked, Key
  <2>1. q # r /\ q \in Reports /\ Key(q) \in Keys
    BY <1>4 DEF Inside, Keys, Key
  <2>2. cellLock[Key(q)] = q
    BY <1>4, <2>1 DEF Inside, CellsAreLocked
  <2> QED BY <1>1, <2>1, <2>2, UnlockFrees
<1>7. RowsAreFiled' /\ FiledHaveLeft' /\ TargetsAreFiled' /\ OwnTargets'
  <2>1. RowsAreFiled'
    BY <1>1, <1>3, UnlockFrees DEF RowsAreFiled
  <2>2. FiledHaveLeft'
    BY <1>3, <1>4 DEF FiledHaveLeft
  <2>3. TargetsAreFiled'
    BY <1>3, <1>4 DEF TargetsAreFiled, Is
  <2>4. OwnTargets'
    BY <1>4 DEF OwnTargets, Creates
  <2> QED BY <2>1, <2>2, <2>3, <2>4
<1>8. TargetsAreHeld'
  <2> SUFFICES ASSUME NEW q \in Reports, Is(q, "write")', ~Creates(q)'
               PROVE  LET c == report'[q].target
                      IN c \in Filed' /\ rowLock'[c] = q /\ report'[q].was = standing'[c]
    BY DEF TargetsAreHeld
  <2>1. q # r
    BY <1>4 DEF Is
  <2>2. report'[q] = report[q] /\ Is(q, "write") /\ ~Creates(q)
    BY <1>4, <2>1 DEF Is, Creates
  <2>3. LET c == report[q].target IN c \in Filed /\ rowLock[c] = q /\ report[q].was = standing[c]
    BY <2>2 DEF TargetsAreHeld
  <2>4. rowLock'[report[q].target] = q
    BY <1>1, <1>3, <2>1, <2>3, UnlockFrees
  <2> QED BY <1>1, <1>2, <1>3, <2>2, <2>3, <2>4
<1>9. TwinsAreSeen'
  <2> SUFFICES ASSUME NEW q \in PortalReports, q # r, Inside(q)
               PROVE  Twins(q)' = Twins(q)
    BY <1>1, <1>4 DEF TwinsAreSeen, Is, Creates, Inside
  <2>1. ~ (r \in PortalReports /\ Key(r) = Key(q))
    BY <1>1 DEF CellsAreLocked, Inside, Is
  <2> QED BY <1>3, <2>1 DEF Twins, Key
<1>10. DuplicatesWereClosed'
  <2> SUFFICES ASSUME NEW p \in Filed' \cap PortalReports, NEW q \in Filed' \cap PortalReports,
                      p # q, Key(p) = Key(q)
               PROVE  q \in passedOver[p] \/ p \in passedOver[q]
    BY <1>1 DEF DuplicatesWereClosed, Key
  <2>1. CASE p # r /\ q # r
    BY <1>3, <2>1 DEF DuplicatesWereClosed
  <2>2. CASE p = r
    <3>1. q \in Twins(r)
      BY <1>3, <2>2 DEF Twins
    <3> QED BY <1>1, <2>2, <3>1 DEF TwinsAreSeen
  <2>3. CASE q = r
    <3>1. p \in Twins(r)
      BY <1>3, <2>3 DEF Twins
    <3> QED BY <1>1, <2>3, <3>1 DEF TwinsAreSeen
  <2> QED BY <2>1, <2>2, <2>3
<1>11. MissesAreFailures'
  <2>1. r \notin Missed'
    BY <1>1, <1>4 DEF Missed, Is
  <2>2. Missed' \subseteq Missed
    BY <1>1, <1>3, <1>4, <2>1 DEF Missed, Is
  <2> QED BY <1>1, <1>3, <1>5, <2>2, MissesGrow, IntakeSplit DEF IntakeTypeOK, RowTypes
<1> QED BY <1>5, <1>6, <1>7, <1>8, <1>9, <1>10, <1>11

-----------------------------------------------------------------------------
(* After COMMIT, and the other routes.                                     *)

LEMMA AfterCommitStep ==
  ASSUME IInv, NEW r \in Reports, Publish(r) \/ Track(r) \/ Dies(r) PROVE IInv'
<1> USE DEF IInv
<1>1. UNCHANGED <<standing, lockVars, passedOver, moves, reportCount>>
  BY DEF Publish, Track, Dies
<1>2. Filed' = Filed /\ Filed \subseteq Reports
  BY <1>1 DEF Filed
<1>3. report[r].pc \in {"publish", "track"} /\ report[r].target \in Filed
  BY DEF Publish, Track, Dies, TargetsAreFiled, Is, FiledHaveLeft
<1>4. PICK pc \in {"track", "answered", "failed"} :
        report' = [report EXCEPT ![r] = [report[r] EXCEPT !.pc = pc]]
  BY DEF Publish, Track, Dies
<1> DEFINE new == [report[r] EXCEPT !.pc = pc]
<1>5. new \in ReportRecord /\ new.pc = pc /\ new.target = report[r].target
  BY TypesOf DEF ReportRecord
<1> HIDE DEF new
<1>6. report'[r] = new /\ \A q \in Reports \ {r} : report'[q] = report[q]
  BY <1>4, TypesOf DEF new, ReportTypes
<1>7. /\ submitted \subseteq submitted' /\ tracked \subseteq tracked'
      /\ submitted' \subseteq Filed /\ tracked' \subseteq Filed
      /\ mishaps' \in 0..MaxMishaps /\ (mishaps' = mishaps \/ mishaps' = mishaps + 1)
  <2>1. CASE Publish(r)
    <3>1. r \in Filed
      BY <2>1 DEF Publish, TargetsAreFiled
    <3> QED BY <2>1, <3>1, TypesOf, MishapType DEF Publish, FiledTypes, RowTypes
  <2>2. CASE Track(r)
    BY <1>3, <2>2, TypesOf DEF Track, FiledTypes, RowTypes
  <2>3. CASE Dies(r)
    BY <2>3, TypesOf, MishapType DEF Dies, FiledTypes
  <2> QED BY <2>1, <2>2, <2>3
<1>8. RowTypes' /\ LockTypes' /\ FiledTypes'
  BY <1>1, <1>2, <1>7, TypesOf DEF RowTypes, LockTypes, FiledTypes, lockVars
<1>9. MissesAreFailures'
  <2>1. Missed' \subseteq Missed \cup {r}
    BY <1>2, <1>6, <1>7 DEF Missed, Is
  <2>2. CASE mishaps' = mishaps + 1
    BY <1>2, <1>8, <2>1, <2>2, MissesGrow
  <2>3. CASE mishaps' # mishaps + 1
    <3>1. mishaps \in Nat /\ mishaps' = mishaps
      BY <1>7, <2>3, TypesOf, IntakeAssumption DEF RowTypes
    <3>2. r \in Missed' => r \in Missed
      <4>1. CASE Publish(r)
        BY <2>3, <4>1, TypesOf, MishapType, <1>6, <1>4, <1>2 DEF Publish, Missed, Is, new
      <4>2. CASE Track(r)
        <5>1. r \in Filed => r \in tracked'
          BY <4>2 DEF Track, FiledHaveLeft
        <5>2. submitted' = submitted /\ report[r].pc = "track"
          BY <4>2 DEF Track, Is
        <5> QED BY <1>2, <1>7, <5>1, <5>2 DEF Missed, Is
      <4>3. CASE Dies(r)
        BY <2>3, <4>3, TypesOf, MishapType DEF Dies
      <4> QED BY <4>1, <4>2, <4>3
    <3> QED BY <1>2, <1>8, <2>1, <3>1, <3>2, MissesGrow
  <2> QED BY <2>2, <2>3
<1>10. r \in Filed => new.target = r
  BY <1>5 DEF FiledHaveLeft
<1>11. report' = [report EXCEPT ![r] = new]
  BY <1>4 DEF new
<1> QED BY <1>1, <1>2, <1>3, <1>5, <1>7, <1>8, <1>9, <1>10, <1>11, ReportMoves
        DEF RowsAreFiled, lockVars

LEMMA MoveStep ==
  ASSUME IInv, NEW c \in Reports, NEW s \in Standings \ {"OPEN", "FILED"}, Move(c, s) PROVE IInv'
<1> USE IntakeAssumption DEF IInv
<1>1. /\ UNCHANGED <<reportCount, lockVars, report, submitted, tracked, passedOver, mishaps>>
      /\ c \in Filed /\ rowLock[c] = Unlocked /\ standing' = [standing EXCEPT ![c] = s]
      /\ s # "none"
  BY DEF Move, Standings
<1>2. Filed' = Filed /\ \A d \in Reports \ {c} : standing'[d] = standing[d]
  BY <1>1, TypesOf DEF Filed, RowTypes
<1>3. IntakeTypeOK'
  <2>1. RowTypes'
    BY <1>1, TypesOf DEF Move, RowTypes
  <2> QED BY <1>1, <1>2, <2>1, TypesOf, IntakeSplitNext DEF LockTypes, ReportTypes, FiledTypes, lockVars
<1>4. CellsAreLocked' /\ RowsAreFiled' /\ FiledHaveLeft' /\ OwnTargets' /\ TargetsAreFiled'
  BY <1>1, <1>2 DEF CellsAreLocked, Inside, Key, RowsAreFiled, FiledHaveLeft, OwnTargets, Creates,
                    TargetsAreFiled, Is, lockVars
<1>5. TargetsAreHeld'
  <2> SUFFICES ASSUME NEW q \in Reports, Is(q, "write"), ~Creates(q)
               PROVE  LET d == report[q].target
                      IN d \in Filed /\ rowLock[d] = q /\ report[q].was = standing'[d]
    BY <1>1, <1>2 DEF TargetsAreHeld, Is, Creates, lockVars
  <2>1. LET d == report[q].target IN d \in Filed /\ rowLock[d] = q /\ report[q].was = standing[d]
    BY DEF TargetsAreHeld
  <2>2. report[q].target # c /\ report[q].target \in Reports
    BY <1>1, <2>1 DEF Filed
  <2> QED BY <1>2, <2>1, <2>2
<1>6. TwinsAreSeen' /\ DuplicatesWereClosed'
  BY <1>1, <1>2 DEF TwinsAreSeen, Twins, Key, Is, Creates, DuplicatesWereClosed
<1>7. MissesAreFailures'
  BY <1>1, <1>2 DEF MissesAreFailures, Missed, Is
<1> QED BY <1>3, <1>4, <1>5, <1>6, <1>7

-----------------------------------------------------------------------------
LEMMA IntakeSteps == IInv /\ [IntakeNext]_intakeVars => IInv'
<1> SUFFICES ASSUME IInv, [IntakeNext]_intakeVars PROVE IInv'
  OBVIOUS
<1>1. CASE \E r \in Reports :
             \/ LockCell(r) \/ Search(r) \/ SearchResolved(r) \/ Rollback(r)
             \/ Publish(r) \/ Track(r) \/ Dies(r)
  BY <1>1, LockCellStep, SearchStep, SearchResolvedStep, RollbackStep, AfterCommitStep
<1>6. CASE \E r \in Reports, photo \in BOOLEAN : Insert(r, photo)
  BY <1>6, InsertStep
<1>2. CASE \E r \in Reports, escalates \in BOOLEAN : Merge(r, escalates)
  BY <1>2, MergeStep
<1>3. CASE \E r \in Reports, c \in Reports : LockRow(r, c) \/ LockResolved(r, c) \/ Choose(r, c)
  BY <1>3, LockRowStep, LockResolvedStep, ChooseStep
<1>4. CASE \E c \in Reports, s \in Standings \ {"OPEN", "FILED"} : Move(c, s)
  BY <1>4, MoveStep
<1>5. CASE UNCHANGED intakeVars
  BY <1>5 DEF intakeVars, lockVars, IInv, IntakeTypeOK, CellsAreLocked, Inside, Key, RowsAreFiled,
     FiledHaveLeft, OwnTargets, Creates, TargetsAreHeld, TargetsAreFiled, Is, TwinsAreSeen, Twins,
     DuplicatesWereClosed, MissesAreFailures, Missed, Filed
<1> QED BY <1>1, <1>2, <1>3, <1>4, <1>5, <1>6 DEF IntakeNext

LEMMA IInvHolds == IntakeSpec => []IInv
BY InitIInv, IntakeSteps, PTL DEF IntakeSpec

\* However the two POST routes interleave with each other and the rest: of two
\* complaints of one damage in one cell that the portal created, one was passed
\* over by the other; and a complaint lacks its event, or its SLA row, only for a
\* failure or a death of its own, the SLA row also for a photo that ended the
\* citizen route before it (citizen.ts: the 409 and the audit INSERT after COMMIT).
THEOREM IntakeSafety == IntakeSpec => []IntakeInvariant
<1>1. IInv => LossesAreFailures
  <2> SUFFICES ASSUME IInv PROVE LossesAreFailures
    OBVIOUS
  <2> DEFINE lost == {c \in Filed :
        \/ report[c].pc \in {"answered", "failed"} /\ ~(c \in submitted /\ c \in tracked)
        \/ report[c].pc = "photo" /\ c \notin submitted}
  <2>1. lost \subseteq Missed /\ Missed \subseteq Reports
    BY DEF Missed, Filed
  <2>2. Cardinality(lost) <= Cardinality(Missed) /\ Cardinality(Missed) \in Nat
        /\ Cardinality(lost) \in Nat
    BY <2>1, ReportSets, FS_Subset
  <2>3. Cardinality(Missed) <= mishaps /\ mishaps \in Nat
    BY IntakeAssumption DEF IInv, MissesAreFailures, IntakeTypeOK
  <2> HIDE DEF lost
  <2>4. Cardinality(lost) <= mishaps
    BY <2>2, <2>3
  <2> QED BY <2>4 DEF lost, LossesAreFailures
<1>2. IInv => IntakeInvariant
  BY <1>1 DEF IInv, IntakeInvariant
<1> QED BY <1>2, IInvHolds, PTL

\* A report that POST /complaints merges gives the complaint's status back as it
\* is, or escalates it: the row lock covers the search's status and the UPDATE.
THEOREM MergesOnlyEscalate == IntakeSpec => ReportsOnlyEscalate
<1>1. IInv /\ [IntakeNext]_intakeVars =>
        [\A c \in Filed : standing'[c] \in {standing[c], "ESCALATED"} \/ moves' # moves]_intakeVars
  <2> SUFFICES ASSUME IInv, IntakeNext, NEW c \in Filed
               PROVE  standing'[c] \in {standing[c], "ESCALATED"} \/ moves' # moves
    OBVIOUS
  <2>1. c \in Reports
    BY DEF Filed
  <2>2. CASE UNCHANGED standing
    BY <2>2
  <2>3. CASE \E r \in Reports, escalates \in BOOLEAN : Merge(r, escalates)
    <3>1. PICK r \in Reports, escalates \in BOOLEAN : Merge(r, escalates)
      BY <2>3
    <3>2. Is(r, "write") /\ ~Creates(r)
      BY <3>1 DEF Merge
    <3>3. report[r].was = standing[report[r].target]
      BY <3>2 DEF IInv, TargetsAreHeld
    <3> QED BY <2>1, <3>1, <3>3, TypesOf DEF Merge, RowTypes
  <2>4. CASE \E r \in Reports, photo \in BOOLEAN : Insert(r, photo)
    <3>1. PICK r \in Reports, photo \in BOOLEAN : Insert(r, photo)
      BY <2>4
    <3>2. r \notin Filed
      BY <3>1, NotFiled DEF Insert, Is
    <3> QED BY <2>1, <3>1, <3>2, TypesOf DEF Insert, RowTypes
  <2>5. CASE \E d \in Reports, s \in Standings \ {"OPEN", "FILED"} : Move(d, s)
    <3>1. moves' = moves + 1
      BY <2>5 DEF Move
    <3>2. moves \in Nat
      BY TypesOf, IntakeAssumption DEF RowTypes
    <3> QED BY <3>1, <3>2
  <2> QED BY <2>2, <2>3, <2>4, <2>5 DEF IntakeNext, LockCell, Search, SearchResolved, Rollback,
          Publish, Track, Dies, LockRow, LockResolved, Choose
<1> QED BY <1>1, IInvHolds, PTL DEF IntakeSpec, ReportsOnlyEscalate

-----------------------------------------------------------------------------
(***************************************************************************)
(* The lifecycle of a complaint.                                           *)
(***************************************************************************)

-----------------------------------------------------------------------------
(* What a step must know for the properties to be inductive.               *)

\* The row a pass is at and those it has left are not marked yet.  Past the
\* announcement, the row's event is in the outbox.
PassKnows ==
  /\ pass.at \notin pass.rows
  /\ pass.at = Nobody <=> pass.step = "none"
  /\ \A c \in Complaints : c \in pass.rows \/ c = pass.at => ~tracking[c].notified
  /\ pass.step \in {"charge", "mark"} =>
       [complaint |-> pass.at, to |-> "ESCALATED", by |-> "scheduler"] \in announced

\* A request about to write RESOLVED has passed the check.
RequestKnows ==
  /\ \A c \in Complaints : verified[c] => c \in everVerified
  /\ \A q \in LifecycleRequests :
       /\ request[q].pc = "write" /\ request[q].kind.to = "RESOLVED"
            => request[q].complaint \in everVerified
       /\ request[q].pc = "work" => request[q].kind.to # "RESOLVED"

\* A completion pays for one charge, be it due, begun or over.
InspectionsPaid ==
  \A c \in Complaints :
    inspectionCharges[c] + (IF c \in inspections THEN 1 ELSE 0)
                         + (IF inspection[c] = "due" THEN 1 ELSE 0) <= completions[c]

PassSafe == PassKnows /\ NotifiedIsAnnounced /\ RepeatsAreAccounted

LInv == /\ LifecycleInvariant /\ PassKnows /\ RequestKnows /\ InspectionsPaid


-----------------------------------------------------------------------------
LEMMA InitLInv == LifecycleInit => LInv
<1> SUFFICES ASSUME LifecycleInit PROVE LInv
  OBVIOUS
<1> USE DEF LifecycleInit
<1>1. LifecycleTypeOK
  BY LifecycleAssumption DEF LifecycleTypeOK, NoPass, NoRequest, Statuses
<1>2. NotifiedIsAnnounced /\ InspectionsChargedOnce /\ ResolvedWasVerified /\ BandFollowsScore
  BY DEF NotifiedIsAnnounced, InspectionsChargedOnce, ResolvedWasVerified, BandFollowsScore
<1>3. RepeatsAreAccounted
  <2> SUFFICES ASSUME NEW c \in Complaints
               PROVE charges[c] <= abandoned[c] + ChargedOnce(c)
                     /\ tier[c] <= abandoned[c] + MovedOnce(c)
    BY DEF RepeatsAreAccounted
  <2>1. charges[c] = 0 /\ abandoned[c] = 0 /\ tier[c] = 0
    OBVIOUS
  <2>2. ChargedOnce(c) = 0 /\ MovedOnce(c) = 0
    BY LifecycleAssumption DEF ChargedOnce, MovedOnce, NoPass
  <2> QED BY <2>1, <2>2
<1>4. PassKnows /\ RequestKnows /\ InspectionsPaid
  BY LifecycleAssumption DEF PassKnows, RequestKnows, InspectionsPaid, NoPass, NoRequest
<1> QED BY <1>1, <1>2, <1>3, <1>4 DEF LInv, LifecycleInvariant

-----------------------------------------------------------------------------
(* Types.                                                                  *)

LEMMA BandType ==
  ASSUME NEW n \in Int
  PROVE BandOfScore(n) \in {"Trusted", "Standard", "AtRisk", "Suspended"}
BY DEF BandOfScore

\* The types, by the groups of variables that change together.
RouteTypes ==
  /\ status \in [Complaints -> Statuses] /\ verified \in [Complaints -> BOOLEAN]
  /\ assigned \subseteq Complaints
  /\ announced \subseteq [complaint : Complaints, to : Statuses, by : {"authority", "scheduler"}]
  /\ inspection \in [Complaints -> {"none", "due", "notified", "done"}]
  /\ everVerified \subseteq Complaints /\ completions \in [Complaints -> Nat]
  /\ served \in 0..MaxRequests

RequestTypes ==
  request \in [LifecycleRequests -> {NoRequest} \cup
    [pc : {"check", "work", "write", "karma"}, complaint : Complaints,
     kind : Kinds \cup {Recurrence}]]

KarmaTypes ==
  /\ score \in -500..10000 /\ band \in {"unset", "Trusted", "Standard", "AtRisk", "Suspended"}

PassTypes ==
  /\ tier \in [Complaints -> 0..TopTier]
  /\ tracking \in [Complaints -> [overdue : BOOLEAN, notified : BOOLEAN]]
  /\ pass \in [rows : SUBSET Complaints, owned : SUBSET Complaints,
              at : Complaints \cup {Nobody},
              step : {"none", "escalate", "announce", "charge", "mark"}]
  /\ charges \in [Complaints -> Nat] /\ abandoned \in [Complaints -> Nat]

InspectionTypes ==
  /\ inspections \subseteq Complaints /\ inspectionCharges \in [Complaints -> Nat]
  /\ slips \in 0..MaxSlips

LEMMA LifecycleTypesSplit ==
  LifecycleTypeOK <=> RouteTypes /\ RequestTypes /\ KarmaTypes /\ PassTypes /\ InspectionTypes
BY DEF LifecycleTypeOK, RouteTypes, RequestTypes, KarmaTypes, PassTypes, InspectionTypes

LEMMA LifecycleTypesSplitNext ==
  RouteTypes' /\ RequestTypes' /\ KarmaTypes' /\ PassTypes' /\ InspectionTypes'
    => LifecycleTypeOK'
BY DEF LifecycleTypeOK, RouteTypes, RequestTypes, KarmaTypes, PassTypes, InspectionTypes

LEMMA RouteFrame ==
  ASSUME RouteTypes, UNCHANGED <<status, verified, assigned, announced, inspection>>,
         UNCHANGED <<everVerified, completions, served>>
  PROVE RouteTypes'
BY DEF RouteTypes

LEMMA RequestFrame == ASSUME RequestTypes, UNCHANGED request PROVE RequestTypes'
BY DEF RequestTypes

LEMMA KarmaFrame == ASSUME KarmaTypes, UNCHANGED karmaVars PROVE KarmaTypes'
BY DEF KarmaTypes, karmaVars

LEMMA PassFrame == ASSUME PassTypes, UNCHANGED passVars PROVE PassTypes'
BY DEF PassTypes, passVars

LEMMA InspectionFrame ==
  ASSUME InspectionTypes, UNCHANGED <<inspections, inspectionCharges, slips>>
  PROVE InspectionTypes'
BY DEF InspectionTypes

LEMMA DoneType ==
  ASSUME RequestTypes, NEW q \in LifecycleRequests, Done(q) PROVE RequestTypes'
BY DEF RequestTypes, Done

LEMMA GoType ==
  ASSUME RequestTypes, NEW q \in LifecycleRequests, request[q].pc # "idle",
         request' = [request EXCEPT ![q].pc = "write"]
  PROVE RequestTypes'
BY DEF RequestTypes, NoRequest

LEMMA RecurrenceType ==
  ASSUME KarmaTypes, score' = Clamp(score - 25), band' = SqlBand(score, -25)
  PROVE KarmaTypes'
<1>1. score - 25 \in Int /\ score + (-25) = score - 25
  BY DEF KarmaTypes
<1>2. score' \in -500..10000
  BY <1>1 DEF Clamp, KarmaTypes
<1>3. BandOfScore(score - 25) \in {"Trusted", "Standard", "AtRisk", "Suspended"}
  BY <1>1, BandType
<1>4. band' = BandOfScore(score - 25)
  BY <1>1 DEF SqlBand
<1> QED BY <1>2, <1>3, <1>4 DEF KarmaTypes

LEMMA BreachType ==
  ASSUME KarmaTypes, score' = Clamp(score - 20), band' = BandOfScore(Clamp(score - 20))
  PROVE KarmaTypes'
<1>1. score' \in -500..10000
  BY DEF KarmaTypes, Clamp
<1>2. score' \in Int
  BY <1>1
<1>3. BandOfScore(score') \in {"Trusted", "Standard", "AtRisk", "Suspended"}
  BY <1>2, BandType
<1> QED BY <1>1, <1>3 DEF KarmaTypes

LEMMA RequestTypeStep ==
  ASSUME LifecycleTypeOK, NEW q \in LifecycleRequests,
         \/ Check(q) \/ Work(q) \/ WriteStatus(q) \/ RequestFails(q) \/ ChargeRecurrence(q)
         \/ \E c \in Complaints, k \in Kinds : Receive(q, c, k)
         \/ \E c \in Complaints : Recur(q, c)
  PROVE LifecycleTypeOK'
<1> USE LifecycleTypesSplit
<1>1. CASE Check(q)
  <2>1. RequestTypes'
    BY <1>1, DoneType, GoType DEF Check
  <2>2. RouteTypes' /\ KarmaTypes' /\ PassTypes' /\ InspectionTypes'
    BY <1>1, RouteFrame, KarmaFrame, PassFrame, InspectionFrame DEF Check
  <2> QED BY <2>1, <2>2, LifecycleTypesSplitNext
<1>2. CASE Work(q)
  <2>1. RequestTypes'
    BY <1>2, GoType DEF Work
  <2>2. RouteTypes'
    BY <1>2 DEF Work, RouteTypes
  <2>3. KarmaTypes' /\ PassTypes' /\ InspectionTypes'
    BY <1>2, KarmaFrame, PassFrame, InspectionFrame DEF Work
  <2> QED BY <2>1, <2>2, <2>3, LifecycleTypesSplitNext
<1>3. CASE WriteStatus(q)
  <2>1. RequestTypes'
    BY <1>3, DoneType DEF WriteStatus
  <2>2. request[q].complaint \in Complaints /\ request[q].kind \in Kinds \cup {Recurrence}
    BY <1>3 DEF WriteStatus, RequestTypes, NoRequest
  <2>3. request[q].kind.to \in Statuses
    BY <2>2 DEF Kinds, Recurrence, Statuses
  <2>4. RouteTypes'
    BY <1>3, <2>2, <2>3 DEF WriteStatus, RouteTypes
  <2>5. KarmaTypes' /\ PassTypes' /\ InspectionTypes'
    BY <1>3, KarmaFrame, PassFrame, InspectionFrame DEF WriteStatus
  <2> QED BY <2>1, <2>4, <2>5, LifecycleTypesSplitNext
<1>4. CASE RequestFails(q)
  <2>1. RequestTypes'
    BY <1>4, DoneType DEF RequestFails
  <2>2. InspectionTypes'
    BY <1>4, LifecycleAssumption DEF RequestFails, Slip, InspectionTypes
  <2>3. RouteTypes' /\ KarmaTypes' /\ PassTypes'
    BY <1>4, RouteFrame, KarmaFrame, PassFrame DEF RequestFails
  <2> QED BY <2>1, <2>2, <2>3, LifecycleTypesSplitNext
<1>5. CASE ChargeRecurrence(q)
  <2>1. RequestTypes'
    BY <1>5, DoneType DEF ChargeRecurrence
  <2>2. KarmaTypes'
    BY <1>5, RecurrenceType, KarmaFrame DEF ChargeRecurrence
  <2>3. RouteTypes' /\ PassTypes' /\ InspectionTypes'
    BY <1>5, RouteFrame, PassFrame, InspectionFrame DEF ChargeRecurrence
  <2> QED BY <2>1, <2>2, <2>3, LifecycleTypesSplitNext
<1>6. ASSUME NEW c \in Complaints, NEW k \in Kinds, Receive(q, c, k) PROVE LifecycleTypeOK'
  <2>1. RequestTypes'
    BY <1>6 DEF Receive, RequestTypes
  <2>2. RouteTypes'
    BY <1>6, LifecycleAssumption DEF Receive, RouteTypes
  <2>3. KarmaTypes' /\ PassTypes' /\ InspectionTypes'
    BY <1>6, KarmaFrame, PassFrame, InspectionFrame DEF Receive
  <2> QED BY <2>1, <2>2, <2>3, LifecycleTypesSplitNext
<1>7. ASSUME NEW c \in Complaints, Recur(q, c) PROVE LifecycleTypeOK'
  <2>1. RequestTypes'
    BY <1>7 DEF Recur, RequestTypes
  <2>2. RouteTypes'
    BY <1>7, LifecycleAssumption DEF Recur, RouteTypes, Statuses
  <2>3. KarmaTypes' /\ PassTypes' /\ InspectionTypes'
    BY <1>7, KarmaFrame, PassFrame, InspectionFrame DEF Recur
  <2> QED BY <2>1, <2>2, <2>3, LifecycleTypesSplitNext
<1> QED BY <1>1, <1>2, <1>3, <1>4, <1>5, <1>6, <1>7

LEMMA PassEndsTypes == ASSUME PassTypes, PassEnds PROVE PassTypes'
BY DEF PassEnds, PassTypes, NoPass

LEMMA PassTypeStep ==
  ASSUME LifecycleTypeOK, PassKnows,
         StartPass \/ Escalate \/ Announce \/ Charge \/ MarkNotified \/ PassEnds
           \/ \E c \in Complaints : NextRow(c)
  PROVE LifecycleTypeOK'
<1> USE LifecycleTypesSplit DEF routeVars, passVars, AtStep, Go
<1>1. CASE StartPass
  <2>1. PassTypes'
    BY <1>1 DEF StartPass, Breached, PassTypes, NoPass
  <2>2. RouteTypes' /\ RequestTypes' /\ KarmaTypes' /\ InspectionTypes'
    BY <1>1, RouteFrame, RequestFrame, KarmaFrame, InspectionFrame DEF StartPass
  <2> QED BY <2>1, <2>2, LifecycleTypesSplitNext
<1>2. CASE Escalate
  <2>1. pass.at \in Complaints
    BY <1>2 DEF Escalate, PassKnows, PassTypes
  <2>2. PassTypes'
    BY <1>2, <2>1, LifecycleAssumption DEF Escalate, PassTypes
  <2>3. RouteTypes'
    BY <1>2, <2>1 DEF Escalate, RouteTypes, Statuses
  <2>4. RequestTypes' /\ KarmaTypes' /\ InspectionTypes'
    BY <1>2, RequestFrame, KarmaFrame, InspectionFrame DEF Escalate
  <2> QED BY <2>2, <2>3, <2>4, LifecycleTypesSplitNext
<1>3. CASE Announce
  <2>1. pass.at \in Complaints
    BY <1>3 DEF Announce, PassKnows, PassTypes
  <2>2. PassTypes'
    BY <1>3 DEF Announce, PassTypes
  <2>3. RouteTypes'
    BY <1>3, <2>1 DEF Announce, RouteTypes, Statuses
  <2>4. RequestTypes' /\ KarmaTypes' /\ InspectionTypes'
    BY <1>3, RequestFrame, KarmaFrame, InspectionFrame DEF Announce
  <2> QED BY <2>2, <2>3, <2>4, LifecycleTypesSplitNext
<1>4. CASE Charge
  <2>1. KarmaTypes'
    BY <1>4, BreachType, KarmaFrame DEF Charge
  <2>2. PassTypes'
    BY <1>4 DEF Charge, PassTypes
  <2>3. InspectionTypes'
    BY <1>4, LifecycleAssumption DEF Charge, Slip, InspectionTypes
  <2>4. RouteTypes' /\ RequestTypes'
    BY <1>4, RouteFrame, RequestFrame DEF Charge
  <2> QED BY <2>1, <2>2, <2>3, <2>4, LifecycleTypesSplitNext
<1>5. CASE MarkNotified
  <2>1. PassTypes'
    BY <1>5 DEF MarkNotified, PassTypes, NoPass
  <2>2. RouteTypes' /\ RequestTypes' /\ KarmaTypes' /\ InspectionTypes'
    BY <1>5, RouteFrame, RequestFrame, KarmaFrame, InspectionFrame DEF MarkNotified
  <2> QED BY <2>1, <2>2, LifecycleTypesSplitNext
<1>6. CASE PassEnds
  <2>1. PassTypes'
    BY <1>6, PassEndsTypes
  <2>2. InspectionTypes'
    BY <1>6, LifecycleAssumption DEF PassEnds, Slip, InspectionTypes
  <2>3. RouteTypes' /\ RequestTypes' /\ KarmaTypes'
    BY <1>6, RouteFrame, RequestFrame, KarmaFrame DEF PassEnds
  <2> QED BY <2>1, <2>2, <2>3, LifecycleTypesSplitNext
<1>7. ASSUME NEW c \in Complaints, NextRow(c) PROVE LifecycleTypeOK'
  <2>1. PassTypes'
    BY <1>7 DEF NextRow, PassTypes
  <2>2. RouteTypes' /\ RequestTypes' /\ KarmaTypes' /\ InspectionTypes'
    BY <1>7, RouteFrame, RequestFrame, KarmaFrame, InspectionFrame DEF NextRow
  <2> QED BY <2>1, <2>2, LifecycleTypesSplitNext
<1> QED BY <1>1, <1>2, <1>3, <1>4, <1>5, <1>6, <1>7

LEMMA OtherTypeStep ==
  ASSUME LifecycleTypeOK, NEW c \in Complaints,
         \/ Assign(c) \/ DeadlinePasses(c) \/ ChargeInspection(c)
         \/ \E repaired \in BOOLEAN : VerifyRepair(c, repaired)
         \/ \E overdue \in SUBSET Due : StartInspections(overdue)
  PROVE LifecycleTypeOK'
<1> USE LifecycleTypesSplit
<1>1. CASE Assign(c)
  <2>1. RouteTypes'
    BY <1>1, LifecycleAssumption DEF Assign, RouteTypes
  <2>2. RequestTypes' /\ KarmaTypes' /\ PassTypes' /\ InspectionTypes'
    BY <1>1, RequestFrame, KarmaFrame, PassFrame, InspectionFrame DEF Assign
  <2> QED BY <2>1, <2>2, LifecycleTypesSplitNext
<1>2. CASE DeadlinePasses(c)
  <2>1. PassTypes'
    BY <1>2 DEF DeadlinePasses, PassTypes
  <2>2. RouteTypes' /\ RequestTypes' /\ KarmaTypes' /\ InspectionTypes'
    BY <1>2, RouteFrame, RequestFrame, KarmaFrame, InspectionFrame
       DEF DeadlinePasses, routeVars
  <2> QED BY <2>1, <2>2, LifecycleTypesSplitNext
<1>3. CASE ChargeInspection(c)
  <2>1. InspectionTypes'
    BY <1>3, LifecycleAssumption DEF ChargeInspection, Slip, InspectionTypes
  <2>2. RouteTypes' /\ RequestTypes' /\ KarmaTypes' /\ PassTypes'
    BY <1>3, RouteFrame, RequestFrame, KarmaFrame, PassFrame DEF ChargeInspection, routeVars
  <2> QED BY <2>1, <2>2, LifecycleTypesSplitNext
<1>4. ASSUME NEW repaired \in BOOLEAN, VerifyRepair(c, repaired) PROVE LifecycleTypeOK'
  <2>1. RouteTypes'
    BY <1>4, LifecycleAssumption DEF VerifyRepair, RouteTypes
  <2>2. RequestTypes' /\ KarmaTypes' /\ PassTypes' /\ InspectionTypes'
    BY <1>4, RequestFrame, KarmaFrame, PassFrame, InspectionFrame DEF VerifyRepair
  <2> QED BY <2>1, <2>2, LifecycleTypesSplitNext
<1>5. ASSUME NEW overdue \in SUBSET Due, StartInspections(overdue) PROVE LifecycleTypeOK'
  <2>1. RouteTypes'
    BY <1>5 DEF StartInspections, RouteTypes
  <2>2. InspectionTypes'
    BY <1>5 DEF StartInspections, Due, InspectionTypes
  <2>3. RequestTypes' /\ KarmaTypes' /\ PassTypes'
    BY <1>5, RequestFrame, KarmaFrame, PassFrame DEF StartInspections
  <2> QED BY <2>1, <2>2, <2>3, LifecycleTypesSplitNext
<1> QED BY <1>1, <1>2, <1>3, <1>4, <1>5

-----------------------------------------------------------------------------
(* The pass over breached complaints.                                      *)

LEMMA PassFrameSafe ==
  ASSUME PassSafe, UNCHANGED passVars, announced \subseteq announced'
  PROVE PassSafe'
<1> USE DEF passVars
<1>1. PassKnows'
  BY DEF PassSafe, PassKnows
<1>2. NotifiedIsAnnounced'
  BY DEF PassSafe, NotifiedIsAnnounced
<1>3. RepeatsAreAccounted'
  BY DEF PassSafe, RepeatsAreAccounted, ChargedOnce, MovedOnce
<1> QED BY <1>1, <1>2, <1>3 DEF PassSafe

LEMMA StartPassSafe == ASSUME PassTypes, PassSafe, StartPass PROVE PassSafe'
<1> USE LifecycleAssumption DEF StartPass, routeVars
<1>1. PassKnows'
  BY DEF PassSafe, PassKnows, NoPass, Breached
<1>2. NotifiedIsAnnounced'
  BY DEF PassSafe, NotifiedIsAnnounced
<1>3. RepeatsAreAccounted'
  BY DEF PassSafe, RepeatsAreAccounted, ChargedOnce, MovedOnce, NoPass
<1> QED BY <1>1, <1>2, <1>3 DEF PassSafe

LEMMA NextRowSafe ==
  ASSUME PassTypes, PassSafe, NEW c \in Complaints, NextRow(c) PROVE PassSafe'
<1> USE LifecycleAssumption DEF NextRow, routeVars
<1>1. PassKnows'
  BY DEF PassSafe, PassKnows, PassTypes
<1>2. NotifiedIsAnnounced'
  BY DEF PassSafe, NotifiedIsAnnounced
<1>3. RepeatsAreAccounted'
  BY DEF PassSafe, PassTypes, RepeatsAreAccounted, ChargedOnce, MovedOnce
<1> QED BY <1>1, <1>2, <1>3 DEF PassSafe

LEMMA EscalateSafe == ASSUME PassTypes, PassSafe, Escalate PROVE PassSafe'
<1> USE LifecycleAssumption DEF Escalate, AtStep, Go
<1>1. PassKnows'
  BY DEF PassSafe, PassKnows, PassTypes
<1>2. NotifiedIsAnnounced'
  BY DEF PassSafe, NotifiedIsAnnounced
<1>3. RepeatsAreAccounted'
  <2> SUFFICES ASSUME NEW c \in Complaints
               PROVE (charges[c] <= abandoned[c] + ChargedOnce(c)
                       /\ tier[c] <= abandoned[c] + MovedOnce(c))'
    BY DEF RepeatsAreAccounted
  <2>1. charges[c] <= abandoned[c] + ChargedOnce(c) /\ tier[c] <= abandoned[c] + MovedOnce(c)
    BY DEF PassSafe, RepeatsAreAccounted
  <2>2. ~tracking[pass.at].notified
    BY DEF PassSafe, PassKnows, PassTypes
  <2>3. tier[c] \in Nat /\ abandoned[c] \in Nat /\ charges[c] \in Nat
    BY DEF PassTypes
  <2>4. CASE c = pass.at
    BY <2>1, <2>2, <2>3, <2>4 DEF ChargedOnce, MovedOnce, PassTypes
  <2>5. CASE c # pass.at
    BY <2>1, <2>3, <2>5 DEF ChargedOnce, MovedOnce, PassTypes
  <2> QED BY <2>4, <2>5
<1> QED BY <1>1, <1>2, <1>3 DEF PassSafe

LEMMA AnnounceSafe == ASSUME PassTypes, PassSafe, Announce PROVE PassSafe'
<1> USE LifecycleAssumption DEF Announce, AtStep, Go
<1>1. PassKnows'
  BY DEF PassSafe, PassKnows, PassTypes
<1>2. NotifiedIsAnnounced'
  BY DEF PassSafe, NotifiedIsAnnounced
<1>3. RepeatsAreAccounted'
  BY DEF PassSafe, PassTypes, RepeatsAreAccounted, ChargedOnce, MovedOnce
<1> QED BY <1>1, <1>2, <1>3 DEF PassSafe

LEMMA ChargeSafe == ASSUME PassTypes, PassSafe, Charge PROVE PassSafe'
<1> USE LifecycleAssumption DEF Charge, AtStep, Go, routeVars
<1>1. PassKnows'
  BY DEF PassSafe, PassKnows, PassTypes
<1>2. NotifiedIsAnnounced'
  BY DEF PassSafe, NotifiedIsAnnounced
<1>3. RepeatsAreAccounted'
  <2> SUFFICES ASSUME NEW c \in Complaints
               PROVE (charges[c] <= abandoned[c] + ChargedOnce(c)
                       /\ tier[c] <= abandoned[c] + MovedOnce(c))'
    BY DEF RepeatsAreAccounted
  <2>1. charges[c] <= abandoned[c] + ChargedOnce(c) /\ tier[c] <= abandoned[c] + MovedOnce(c)
    BY DEF PassSafe, RepeatsAreAccounted
  <2>2. ~tracking[pass.at].notified
    BY DEF PassSafe, PassKnows, PassTypes
  <2>3. tier[c] \in Nat /\ abandoned[c] \in Nat /\ charges[c] \in Nat
    BY DEF PassTypes
  <2>4. charges'[c] = charges[c] \/ (c = pass.at /\ charges'[c] = charges[c] + 1)
    BY DEF PassTypes
  <2>5. CASE c = pass.at
    BY <2>1, <2>2, <2>3, <2>4, <2>5 DEF ChargedOnce, MovedOnce, PassTypes
  <2>6. CASE c # pass.at
    BY <2>1, <2>3, <2>4, <2>6 DEF ChargedOnce, MovedOnce, PassTypes
  <2> QED BY <2>5, <2>6
<1> QED BY <1>1, <1>2, <1>3 DEF PassSafe

LEMMA MarkNotifiedSafe == ASSUME PassTypes, PassSafe, MarkNotified PROVE PassSafe'
<1> USE LifecycleAssumption DEF MarkNotified, AtStep, routeVars
<1>1. pass.at \in Complaints
  BY DEF PassSafe, PassKnows, PassTypes
<1>2. \A c \in Complaints : tracking'[c].notified <=> tracking[c].notified \/ c = pass.at
  BY <1>1 DEF PassTypes
<1>3. PassKnows'
  BY <1>1, <1>2 DEF PassSafe, PassKnows, PassTypes, NoPass
<1>4. NotifiedIsAnnounced'
  BY <1>1, <1>2 DEF PassSafe, PassKnows, NotifiedIsAnnounced
<1>5. RepeatsAreAccounted'
  BY <1>1, <1>2 DEF PassSafe, PassTypes, RepeatsAreAccounted, ChargedOnce, MovedOnce, NoPass
<1> QED BY <1>3, <1>4, <1>5 DEF PassSafe

LEMMA PassEndsSafe == ASSUME PassTypes, PassSafe, PassEnds PROVE PassSafe'
<1> USE LifecycleAssumption DEF PassEnds, routeVars
<1>1. PassTypes'
  BY PassEndsTypes
<1>2. PassKnows'
  BY DEF PassSafe, PassKnows, NoPass
<1>3. NotifiedIsAnnounced'
  BY DEF PassSafe, NotifiedIsAnnounced
<1>4. RepeatsAreAccounted'
  <2> SUFFICES ASSUME NEW c \in Complaints
               PROVE (charges[c] <= abandoned[c] + ChargedOnce(c)
                       /\ tier[c] <= abandoned[c] + MovedOnce(c))'
    BY DEF RepeatsAreAccounted
  <2>1. charges[c] <= abandoned[c] + ChargedOnce(c) /\ tier[c] <= abandoned[c] + MovedOnce(c)
    BY DEF PassSafe, RepeatsAreAccounted
  <2>2. tier[c] \in Nat /\ abandoned[c] \in Nat /\ charges[c] \in Nat
    BY DEF PassTypes
  <2>3. CASE c = pass.at
    <3>1. abandoned'[c] = abandoned[c] + 1 /\ charges'[c] = charges[c] /\ tier'[c] = tier[c]
      BY <2>3 DEF passVars
    <3>2. charges[c] <= abandoned[c] + 1
      BY <2>1, <2>2 DEF ChargedOnce
    <3>3. tier[c] <= abandoned[c] + 1
      BY <2>1, <2>2 DEF MovedOnce
    <3>4. (charges[c] <= abandoned[c])' /\ (tier[c] <= abandoned[c])'
      BY <3>1, <3>2, <3>3
    <3>5. abandoned'[c] \in Nat
      BY <1>1 DEF PassTypes
    <3>6. charges'[c] \in Nat /\ tier'[c] \in Nat
      BY <2>2, <3>1
    <3> QED BY <3>4, <3>5, <3>6 DEF ChargedOnce, MovedOnce
  <2>4. CASE c # pass.at
    BY <2>1, <2>2, <2>4 DEF ChargedOnce, MovedOnce, NoPass
  <2> QED BY <2>3, <2>4
<1> QED BY <1>2, <1>3, <1>4 DEF PassSafe

LEMMA DeadlineSafe ==
  ASSUME PassTypes, PassSafe, NEW c \in Complaints, DeadlinePasses(c) PROVE PassSafe'
<1> USE DEF DeadlinePasses, routeVars
<1>1. \A d \in Complaints : tracking'[d].notified = tracking[d].notified
  BY DEF PassTypes
<1>2. PassKnows'
  BY <1>1 DEF PassSafe, PassKnows
<1>3. NotifiedIsAnnounced'
  BY <1>1 DEF PassSafe, NotifiedIsAnnounced
<1>4. RepeatsAreAccounted'
  BY <1>1 DEF PassSafe, RepeatsAreAccounted, ChargedOnce, MovedOnce
<1> QED BY <1>2, <1>3, <1>4 DEF PassSafe

-----------------------------------------------------------------------------
(* The status and what it was allowed by.                                  *)

StatusSafe == RequestKnows /\ ResolvedWasVerified

LEMMA StatusFrame ==
  ASSUME StatusSafe, UNCHANGED <<status, verified, request, everVerified>>
  PROVE StatusSafe'
<1>1. RequestKnows'
  BY DEF StatusSafe, RequestKnows
<1>2. ResolvedWasVerified'
  BY DEF StatusSafe, ResolvedWasVerified
<1> QED BY <1>1, <1>2 DEF StatusSafe

\* A step of the request q that moves it on, or ends it, and leaves the rest.
LEMMA StatusRequest ==
  ASSUME RequestTypes, StatusSafe, NEW q \in LifecycleRequests,
         UNCHANGED <<status, verified, everVerified>>,
         \/ Done(q)
         \/ /\ request[q].pc # "idle" /\ request' = [request EXCEPT ![q].pc = "write"]
            /\ request[q].kind.to = "RESOLVED" => request[q].complaint \in everVerified
         \/ \E c \in Complaints, k \in Kinds, s \in {"check", "work", "write"} :
              /\ request' = [request EXCEPT ![q] = [complaint |-> c, kind |-> k, pc |-> s]]
              /\ s = "check" \/ k.to # "RESOLVED"
  PROVE StatusSafe'
<1>1. RequestKnows'
  BY DEF StatusSafe, RequestKnows, RequestTypes, Done, NoRequest
<1>2. ResolvedWasVerified'
  BY DEF StatusSafe, ResolvedWasVerified
<1> QED BY <1>1, <1>2 DEF StatusSafe

LEMMA StatusStep ==
  ASSUME RouteTypes, RequestTypes, StatusSafe, NEW q \in LifecycleRequests,
         \/ Check(q) \/ Work(q) \/ WriteStatus(q) \/ RequestFails(q) \/ ChargeRecurrence(q)
         \/ \E c \in Complaints, k \in Kinds : Receive(q, c, k)
         \/ \E c \in Complaints : Recur(q, c)
  PROVE StatusSafe'
<1>1. CASE Check(q)
  <2>1. CASE Passes(request[q].complaint)
    <3>1. request[q].complaint \in Complaints
      BY <1>1 DEF Check, RequestTypes, NoRequest
    <3>2. request[q].complaint \in everVerified
      BY <2>1, <3>1 DEF Passes, StatusSafe, RequestKnows
    <3> QED BY <1>1, <2>1, <3>2, StatusRequest DEF Check
  <2>2. CASE ~Passes(request[q].complaint)
    BY <1>1, <2>2, StatusRequest DEF Check
  <2> QED BY <2>1, <2>2
<1>2. CASE Work(q)
  <2>1. request[q].kind.to # "RESOLVED"
    BY <1>2 DEF Work, StatusSafe, RequestKnows
  <2> QED BY <1>2, <2>1, StatusRequest DEF Work
<1>3. CASE WriteStatus(q)
  <2>1. RequestKnows'
    BY <1>3 DEF WriteStatus, Done, StatusSafe, RequestKnows, RequestTypes, NoRequest
  <2>2. ResolvedWasVerified'
    BY <1>3 DEF WriteStatus, StatusSafe, RequestKnows, ResolvedWasVerified, RouteTypes
  <2> QED BY <2>1, <2>2 DEF StatusSafe
<1>4. CASE RequestFails(q)
  BY <1>4, StatusRequest DEF RequestFails
<1>5. CASE ChargeRecurrence(q)
  BY <1>5, StatusRequest DEF ChargeRecurrence
<1>6. ASSUME NEW c \in Complaints, NEW k \in Kinds, Receive(q, c, k) PROVE StatusSafe'
  <2> DEFINE s == IF ByAuthority(k) /\ k.to = "RESOLVED" THEN "check"
                  ELSE IF ByContractor(k) THEN "work" ELSE "write"
  <2>1. request' = [request EXCEPT ![q] = [complaint |-> c, kind |-> k, pc |-> s]]
    BY <1>6 DEF Receive
  <2>2. s \in {"check", "work", "write"} /\ (s = "check" \/ k.to # "RESOLVED")
    BY DEF ByAuthority, ByContractor, Kinds
  <2>3. UNCHANGED <<status, verified, everVerified>>
    BY <1>6 DEF Receive
  <2> HIDE DEF s
  <2> QED BY <2>1, <2>2, <2>3, StatusRequest
<1>7. ASSUME NEW c \in Complaints, Recur(q, c) PROVE StatusSafe'
  <2>1. RequestKnows'
    BY <1>7 DEF Recur, Recurrence, StatusSafe, RequestKnows, RequestTypes, NoRequest
  <2>2. ResolvedWasVerified'
    BY <1>7 DEF Recur, StatusSafe, ResolvedWasVerified, RouteTypes
  <2> QED BY <2>1, <2>2 DEF StatusSafe
<1> QED BY <1>1, <1>2, <1>3, <1>4, <1>5, <1>6, <1>7

LEMMA StatusOther ==
  ASSUME RouteTypes, StatusSafe, NEW c \in Complaints,
         Escalate \/ \E repaired \in BOOLEAN : VerifyRepair(c, repaired)
  PROVE StatusSafe'
<1>1. CASE Escalate
  <2>1. RequestKnows'
    BY <1>1 DEF Escalate, StatusSafe, RequestKnows
  <2>2. ResolvedWasVerified'
    BY <1>1 DEF Escalate, StatusSafe, ResolvedWasVerified, RouteTypes
  <2> QED BY <2>1, <2>2 DEF StatusSafe
<1>2. ASSUME NEW repaired \in BOOLEAN, VerifyRepair(c, repaired) PROVE StatusSafe'
  <2>1. RequestKnows'
    BY <1>2 DEF VerifyRepair, StatusSafe, RequestKnows, RouteTypes
  <2>2. ResolvedWasVerified'
    BY <1>2 DEF VerifyRepair, StatusSafe, ResolvedWasVerified
  <2> QED BY <2>1, <2>2 DEF StatusSafe
<1> QED BY <1>1, <1>2

-----------------------------------------------------------------------------
(* The pass over overdue inspections.                                      *)

LEMMA PaidFrame ==
  ASSUME RouteTypes, InspectionTypes, InspectionsPaid,
         UNCHANGED <<inspections, inspectionCharges, completions>>,
         \A c \in Complaints : inspection'[c] = "due" => inspection[c] = "due"
  PROVE InspectionsPaid'
BY DEF RouteTypes, InspectionTypes, InspectionsPaid

LEMMA PaidWork ==
  ASSUME RouteTypes, RequestTypes, InspectionTypes, InspectionsPaid,
         NEW q \in LifecycleRequests, Work(q)
  PROVE InspectionsPaid'
<1>1. request[q].complaint \in Complaints
  BY DEF Work, RequestTypes, NoRequest
<1>2. CASE request[q].kind.route = "complete"
  <2> SUFFICES ASSUME NEW c \in Complaints
               PROVE (inspectionCharges[c] + (IF c \in inspections THEN 1 ELSE 0)
                       + (IF inspection[c] = "due" THEN 1 ELSE 0) <= completions[c])'
    BY DEF InspectionsPaid
  <2>1. inspectionCharges[c] \in Nat /\ completions[c] \in Nat
    BY DEF RouteTypes, InspectionTypes
  <2>2. CASE c = request[q].complaint
    BY <1>1, <1>2, <2>1, <2>2 DEF Work, RouteTypes, InspectionsPaid
  <2>3. CASE c # request[q].complaint
    BY <1>1, <1>2, <2>1, <2>3 DEF Work, RouteTypes, InspectionsPaid
  <2> QED BY <2>2, <2>3
<1>3. CASE request[q].kind.route # "complete"
  BY <1>3, PaidFrame DEF Work
<1> QED BY <1>2, <1>3

LEMMA PaidStart ==
  ASSUME RouteTypes, InspectionTypes, InspectionsPaid,
         NEW overdue \in SUBSET Due, StartInspections(overdue)
  PROVE InspectionsPaid'
BY DEF StartInspections, Due, RouteTypes, InspectionTypes, InspectionsPaid

LEMMA PaidCharge ==
  ASSUME RouteTypes, InspectionTypes, InspectionsPaid, NEW c \in Complaints,
         ChargeInspection(c)
  PROVE InspectionsPaid'
BY DEF ChargeInspection, routeVars, RouteTypes, InspectionTypes, InspectionsPaid

LEMMA PaidOnce ==
  ASSUME RouteTypes, InspectionTypes, InspectionsPaid PROVE InspectionsChargedOnce
<1> SUFFICES ASSUME NEW c \in Complaints PROVE inspectionCharges[c] <= completions[c]
  BY DEF InspectionsChargedOnce
<1>1. inspectionCharges[c] \in Nat /\ completions[c] \in Nat
  BY DEF RouteTypes, InspectionTypes
<1>2. inspectionCharges[c] + (IF c \in inspections THEN 1 ELSE 0)
        + (IF inspection[c] = "due" THEN 1 ELSE 0) <= completions[c]
  BY DEF InspectionsPaid
<1> QED BY <1>1, <1>2

-----------------------------------------------------------------------------
(* The band.                                                               *)

LEMMA BandFrame ==
  ASSUME BandFollowsScore, UNCHANGED karmaVars PROVE BandFollowsScore'
BY DEF BandFollowsScore, karmaVars

LEMMA BandRecurrence ==
  ASSUME KarmaTypes, BandFollowsScore, NEW q \in LifecycleRequests, ChargeRecurrence(q)
  PROVE BandFollowsScore'
<1>1. CASE request[q].complaint \in assigned
  <2>1. score - 25 \in Int /\ score + (-25) = score - 25
    BY DEF KarmaTypes
  <2>2. BandOfScore(Clamp(score - 25)) = BandOfScore(score - 25)
    BY <2>1 DEF BandOfScore, Clamp
  <2> QED BY <1>1, <2>1, <2>2 DEF ChargeRecurrence, SqlBand, BandFollowsScore
<1>2. CASE request[q].complaint \notin assigned
  BY <1>2, BandFrame DEF ChargeRecurrence
<1> QED BY <1>1, <1>2

LEMMA BandCharge == ASSUME BandFollowsScore, Charge PROVE BandFollowsScore'
BY DEF Charge, BandFollowsScore, karmaVars

-----------------------------------------------------------------------------
(* The theorem.                                                            *)

LEMMA LInvSplit ==
  LInv <=> /\ LifecycleTypeOK /\ PassSafe /\ StatusSafe /\ InspectionsPaid
           /\ InspectionsChargedOnce /\ BandFollowsScore
BY DEF LInv, LifecycleInvariant, PassSafe, StatusSafe

LEMMA LInvNext ==
  ASSUME LifecycleTypeOK', PassSafe', StatusSafe', InspectionsPaid', BandFollowsScore'
  PROVE LInv'
<1>1. RouteTypes' /\ InspectionTypes'
  BY DEF LifecycleTypeOK, RouteTypes, InspectionTypes
<1>2. InspectionsChargedOnce'
  <2> SUFFICES ASSUME NEW c \in Complaints PROVE (inspectionCharges[c] <= completions[c])'
    BY DEF InspectionsChargedOnce
  <2>1. (inspectionCharges[c] \in Nat /\ completions[c] \in Nat)'
    BY <1>1 DEF RouteTypes, InspectionTypes
  <2>2. (inspectionCharges[c] + (IF c \in inspections THEN 1 ELSE 0)
          + (IF inspection[c] = "due" THEN 1 ELSE 0) <= completions[c])'
    BY DEF InspectionsPaid
  <2> QED BY <2>1, <2>2
<1> QED BY <1>2 DEF LInv, LifecycleInvariant, PassSafe, StatusSafe

\* Steps of a request.
LEMMA RequestStep ==
  ASSUME LInv, NEW q \in LifecycleRequests,
         \/ Check(q) \/ Work(q) \/ WriteStatus(q) \/ RequestFails(q) \/ ChargeRecurrence(q)
         \/ \E c \in Complaints, k \in Kinds : Receive(q, c, k)
         \/ \E c \in Complaints : Recur(q, c)
  PROVE LInv'
<1>1. /\ LifecycleTypeOK /\ PassSafe /\ StatusSafe /\ InspectionsPaid /\ BandFollowsScore
      /\ RouteTypes /\ RequestTypes /\ InspectionTypes /\ KarmaTypes /\ PassTypes
  BY LInvSplit, LifecycleTypesSplit
<1>2. LifecycleTypeOK' /\ StatusSafe'
  BY <1>1, RequestTypeStep, StatusStep
<1>3. PassSafe'
  <2>1. UNCHANGED passVars /\ announced \subseteq announced'
    BY DEF Check, Work, WriteStatus, RequestFails, ChargeRecurrence, Receive, Recur
  <2> QED BY <1>1, <2>1, PassFrameSafe
<1>4. InspectionsPaid'
  <2>1. CASE Work(q)
    BY <1>1, <2>1, PaidWork
  <2>2. CASE ~Work(q)
    <3>1. UNCHANGED <<inspections, inspectionCharges, completions>>
      BY <2>2 DEF Check, WriteStatus, RequestFails, ChargeRecurrence, Receive, Recur
    <3>2. \A c \in Complaints : inspection'[c] = "due" => inspection[c] = "due"
      BY <1>1, <2>2 DEF Check, WriteStatus, RequestFails, ChargeRecurrence, Receive, Recur,
         RouteTypes
    <3> QED BY <1>1, <3>1, <3>2, PaidFrame
  <2> QED BY <2>1, <2>2
<1>5. BandFollowsScore'
  <2>1. CASE ChargeRecurrence(q)
    BY <1>1, <2>1, BandRecurrence
  <2>2. CASE ~ChargeRecurrence(q)
    <3>1. UNCHANGED karmaVars
      BY <2>2 DEF Check, Work, WriteStatus, RequestFails, Receive, Recur
    <3> QED BY <1>1, <3>1, BandFrame
  <2> QED BY <2>1, <2>2
<1> QED BY <1>2, <1>3, <1>4, <1>5, LInvNext

\* Steps of the breach pass.
LEMMA PassStep ==
  ASSUME LInv,
         StartPass \/ Escalate \/ Announce \/ Charge \/ MarkNotified \/ PassEnds
           \/ \E c \in Complaints : NextRow(c)
  PROVE LInv'
<1>1. /\ LifecycleTypeOK /\ PassSafe /\ StatusSafe /\ InspectionsPaid /\ BandFollowsScore
      /\ RouteTypes /\ RequestTypes /\ InspectionTypes /\ KarmaTypes /\ PassTypes /\ PassKnows
  BY LInvSplit, LifecycleTypesSplit DEF PassSafe
<1>2. LifecycleTypeOK'
  BY <1>1, PassTypeStep
<1>3. PassSafe'
  BY <1>1, StartPassSafe, NextRowSafe, EscalateSafe, AnnounceSafe, ChargeSafe,
     MarkNotifiedSafe, PassEndsSafe
<1>4. StatusSafe'
  <2>1. CASE Escalate
    <3>1. pass.at \in Complaints
      BY <1>1, <2>1 DEF Escalate, AtStep, PassKnows, PassTypes
    <3> QED BY <1>1, <2>1, <3>1, StatusOther
  <2>2. CASE ~Escalate
    <3>1. UNCHANGED <<status, verified, request, everVerified>>
      BY <2>2 DEF StartPass, Announce, Charge, MarkNotified, PassEnds, NextRow, routeVars
    <3> QED BY <1>1, <3>1, StatusFrame
  <2> QED BY <2>1, <2>2
<1>5. InspectionsPaid'
  <2>1. UNCHANGED <<inspections, inspectionCharges, completions, inspection>>
    BY DEF StartPass, Escalate, Announce, Charge, MarkNotified, PassEnds, NextRow, routeVars
  <2> QED BY <1>1, <2>1, PaidFrame
<1>6. BandFollowsScore'
  <2>1. CASE Charge
    BY <1>1, <2>1, BandCharge
  <2>2. CASE ~Charge
    <3>1. UNCHANGED karmaVars
      BY <2>2 DEF StartPass, Escalate, Announce, MarkNotified, PassEnds, NextRow
    <3> QED BY <1>1, <3>1, BandFrame
  <2> QED BY <2>1, <2>2
<1> QED BY <1>2, <1>3, <1>4, <1>5, <1>6, LInvNext

\* The others.
LEMMA OtherStep ==
  ASSUME LInv, NEW c \in Complaints,
         \/ Assign(c) \/ DeadlinePasses(c) \/ ChargeInspection(c)
         \/ \E repaired \in BOOLEAN : VerifyRepair(c, repaired)
         \/ \E overdue \in SUBSET Due : StartInspections(overdue)
  PROVE LInv'
<1>1. /\ LifecycleTypeOK /\ PassSafe /\ StatusSafe /\ InspectionsPaid /\ BandFollowsScore
      /\ RouteTypes /\ RequestTypes /\ InspectionTypes /\ KarmaTypes /\ PassTypes
  BY LInvSplit, LifecycleTypesSplit
<1>2. LifecycleTypeOK'
  BY <1>1, OtherTypeStep
<1>3. PassSafe'
  <2>1. CASE DeadlinePasses(c)
    BY <1>1, <2>1, DeadlineSafe
  <2>2. CASE ~DeadlinePasses(c)
    <3>1. UNCHANGED passVars /\ announced \subseteq announced'
      BY <2>2 DEF Assign, ChargeInspection, VerifyRepair, StartInspections, routeVars
    <3> QED BY <1>1, <3>1, PassFrameSafe
  <2> QED BY <2>1, <2>2
<1>4. StatusSafe'
  <2>1. CASE \E repaired \in BOOLEAN : VerifyRepair(c, repaired)
    BY <1>1, <2>1, StatusOther
  <2>2. CASE ~\E repaired \in BOOLEAN : VerifyRepair(c, repaired)
    <3>1. UNCHANGED <<status, verified, request, everVerified>>
      BY <2>2 DEF Assign, DeadlinePasses, ChargeInspection, StartInspections, routeVars
    <3> QED BY <1>1, <3>1, StatusFrame
  <2> QED BY <2>1, <2>2
<1>5. InspectionsPaid'
  <2>1. CASE \E overdue \in SUBSET Due : StartInspections(overdue)
    BY <1>1, <2>1, PaidStart
  <2>2. CASE ChargeInspection(c)
    BY <1>1, <2>2, PaidCharge
  <2>3. CASE Assign(c) \/ DeadlinePasses(c) \/ \E repaired \in BOOLEAN : VerifyRepair(c, repaired)
    <3>1. UNCHANGED <<inspections, inspectionCharges, completions, inspection>>
      BY <2>3 DEF Assign, DeadlinePasses, VerifyRepair, routeVars
    <3> QED BY <1>1, <3>1, PaidFrame
  <2> QED BY <2>1, <2>2, <2>3
<1>6. BandFollowsScore'
  <2>1. UNCHANGED karmaVars
    BY DEF Assign, DeadlinePasses, ChargeInspection, VerifyRepair, StartInspections
  <2> QED BY <1>1, <2>1, BandFrame
<1> QED BY <1>2, <1>3, <1>4, <1>5, <1>6, LInvNext

\* A step that changes nothing.
LEMMA IdleStep == ASSUME LInv, UNCHANGED lifecycleVars PROVE LInv'
<1> USE DEF lifecycleVars, routeVars, passVars
<1>1. /\ LifecycleTypeOK /\ PassSafe /\ StatusSafe /\ InspectionsPaid /\ BandFollowsScore
      /\ RouteTypes /\ RequestTypes /\ InspectionTypes /\ KarmaTypes /\ PassTypes
  BY LInvSplit, LifecycleTypesSplit
<1>2. LifecycleTypeOK'
  BY <1>1, RouteFrame, RequestFrame, KarmaFrame, PassFrame, InspectionFrame, LifecycleTypesSplitNext
<1>3. PassSafe' /\ StatusSafe' /\ BandFollowsScore'
  BY <1>1, PassFrameSafe, StatusFrame, BandFrame
<1>4. InspectionsPaid'
  BY <1>1, PaidFrame
<1> QED BY <1>2, <1>3, <1>4, LInvNext

LEMMA StepLInv == ASSUME LInv, [LifecycleNext]_lifecycleVars PROVE LInv'
<1>1. CASE Serving
  BY <1>1, RequestStep, OtherStep DEF Serving
<1>2. CASE Passing \/ PassEnds
  BY <1>2, PassStep DEF Passing
<1>3. ASSUME NEW overdue \in SUBSET Due, StartInspections(overdue) PROVE LInv'
  <2>1. overdue # {} /\ overdue \subseteq Complaints
    BY <1>3 DEF StartInspections, Due
  <2>2. PICK c \in Complaints : c \in overdue
    BY <2>1
  <2> QED BY <1>3, <2>2, OtherStep
<1>4. CASE \E c \in Complaints : DeadlinePasses(c) \/ ChargeInspection(c)
  BY <1>4, OtherStep
<1>5. CASE UNCHANGED lifecycleVars
  BY <1>5, IdleStep
<1> QED BY <1>1, <1>2, <1>3, <1>4, <1>5 DEF LifecycleNext

\* Complaints keep what authorities, contractors, citizens and the scheduler were
\* promised: no breach is marked unannounced, repeated escalations and charges come
\* of passes that ended midway, inspections are charged once for each completion,
\* what is resolved was once verified, and the band follows the score.
THEOREM LifecycleSafety == LifecycleSpec => []LifecycleInvariant
<1>1. LifecycleInit => LInv
  BY InitLInv
<1>2. LInv /\ [LifecycleNext]_lifecycleVars => LInv'
  BY StepLInv
<1>3. LInv => LifecycleInvariant
  BY DEF LInv
<1> QED BY <1>1, <1>2, <1>3, PTL DEF LifecycleSpec

\* Of them: moving a complaint up and charging for it repeat only for passes that
\* ended within its row, however many do.
THEOREM RepeatsAccounted == LifecycleSpec => []RepeatsAreAccounted
<1>1. LifecycleInvariant => RepeatsAreAccounted
  BY DEF LifecycleInvariant
<1> QED BY <1>1, LifecycleSafety, PTL
=============================================================================
