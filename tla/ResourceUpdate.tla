--------------------------- MODULE ResourceUpdate ---------------------------
(***************************************************************************)
(* The resource pipeline of the v1 agent as it is deployed:                *)
(* internal/services/resourceupdate (SendResource, the resource cache with *)
(* its hash list, its start-up cleanup and its retry queue), fed by one    *)
(* watcher goroutine per resource kind and writing to the ROR API.         *)
(*                                                                         *)
(*   live      Kubernetes: the hash of the object with that uid, Unborn    *)
(*             before it is created, Gone for ever after it is deleted     *)
(*   feed      the events of each uid its watcher has yet to handle        *)
(*   unlisted  the uids whose event of the (re)list is still in the feed   *)
(*   ror       the ROR API: the stored hash, or NoHash                     *)
(*   hashList, workqueue, cleanupRunning      fields of ResourceCache      *)
(*   runnerQueue  the Workqueue of the copy of ResourceCache to which the  *)
(*             scheduler's job is bound;  retried: RunWorkQue was entered  *)
(*   pc, current, header  a watcher inside SendResource: where it is, the  *)
(*             update it sends, the queue as Workqueue.Add read it         *)
(*   sweep, inactive  the start-up cleanup: where it is, the uids it still *)
(*             has to delete                                               *)
(*                                                                         *)
(* History variables, read by no action:                                  *)
(*   failed    the last send for the uid returned an error                 *)
(*   unswept   the cleanup's delete of the uid returned an error           *)
(*   late      the uid was alive when the cleanup chose to delete it, and  *)
(*             nothing was sent for it since                               *)
(*   missed    its deletion fell into a gap of the watch                   *)
(*   marked    an event of it was handed on during the cleanup period      *)
(*   slipped   the cleanup collected it between the test of the period and  *)
(*             the mark of that event                                      *)
(*   overtaken  another watcher's Add was under way when its own ended     *)
(*   unconverted  the last event of it was dropped: its object could not   *)
(*             be converted                                                *)
(***************************************************************************)
EXTENDS WorkQueue, FiniteSets

CONSTANTS
  Gvrs,         \* the watched kinds: one watcher goroutine each
  Uids,
  GvrOf,        \* the kind of each uid
  Hashes,       \* the values of an object that its hash tells apart
  Convertible,  \* those that fit the model of the object's kind
  NoHash, Unborn, Gone,
  MaxChanges,   \* bound: events of the cluster and breaks of the watches
  MaxRestarts   \* bound: crashes of the agent

ASSUME ConstantsAssumption ==
  /\ GvrOf \in [Uids -> Gvrs]
  /\ Convertible \subseteq Hashes
  /\ NoHash \notin Hashes /\ Unborn \notin Hashes /\ Gone \notin Hashes
  /\ Unborn # Gone
  /\ MaxChanges \in Nat /\ MaxRestarts \in Nat

VARIABLES
  live, feed, unlisted, ror,
  hashList, workqueue, cleanupRunning, runnerQueue, retried,
  pc, current, header,
  sweep, inactive,
  changes, restarts,
  failed, unswept, late, missed, marked, slipped, overtaken, unconverted

cluster == <<live, feed, unlisted, changes>>
cache   == <<hashList, workqueue, cleanupRunning, runnerQueue, retried>>
sending == <<pc, current, header>>
sweeper == <<sweep, inactive>>
history == <<failed, unswept, late, missed, marked, slipped, overtaken, unconverted>>
vars    == <<cluster, ror, cache, sending, sweeper, restarts, history>>

Actions == {"Add", "Update", "Delete"}
Update  == [uid : Uids, action : Actions, hash : Hashes \cup {NoHash}]
NoUpdate == [uid |-> NoUid, action |-> "none", hash |-> NoHash]

\* What ROR should hold for a uid, l being the state of the cluster.
Desired(u) == IF live[u] \in Hashes THEN live[u] ELSE NoHash

\* Mutant: the objects of a list are handed over as modified ones.
ListingAsUpdates(u) ==
  IF live[u] \in Hashes
  THEN << [uid |-> u, action |-> "Update", hash |-> live[u]] >>
  ELSE << >>

\* A (re)list hands an ADD for every object that exists.
Listing(u) ==
  IF live[u] \in Hashes
  THEN << [uid |-> u, action |-> "Add", hash |-> live[u]] >>
  ELSE << >>

\* The hash list the API returns for this cluster, nothing marked active.
GetHashList(stored) == [u \in Uids |-> [hash |-> stored[u], active |-> FALSE]]

\* MustInit: any cluster, and whatever an earlier run of the agent has left
\* in ROR.
Init ==
  /\ live \in [Uids -> Hashes \cup {Unborn, Gone}]
  /\ ror \in [Uids -> Convertible \cup {NoHash}]
  /\ \A u \in Uids : live[u] = Unborn => ror[u] = NoHash
  /\ feed = [u \in Uids |-> Listing(u)]
  /\ unlisted = {u \in Uids : live[u] \in Hashes}
  /\ hashList = GetHashList(ror)
  /\ workqueue = << >> /\ runnerQueue = << >> /\ retried = FALSE
  /\ cleanupRunning = TRUE /\ sweep = "scheduled" /\ inactive = {}
  /\ pc = [g \in Gvrs |-> "idle"]
  /\ current = [g \in Gvrs |-> NoUpdate]
  /\ header = [g \in Gvrs |-> << >>]
  /\ changes = 0 /\ restarts = 0
  /\ failed = {} /\ unswept = {} /\ late = {} /\ missed = {}
  /\ marked = {} /\ slipped = {} /\ overtaken = {} /\ unconverted = {}
-----------------------------------------------------------------------------
(* Kubernetes and the watch *)

\* An object is created, or modified (the new state may have the old hash).
ClusterChange(u, h) ==
  /\ changes < MaxChanges
  /\ live[u] # Gone
  /\ live' = [live EXCEPT ![u] = h]
  /\ feed' = [feed EXCEPT ![u] = Append(@,
       [uid    |-> u,
        action |-> IF live[u] = Unborn THEN "Add" ELSE "Update",
        hash   |-> h])]
  /\ changes' = changes + 1
  /\ UNCHANGED <<unlisted, ror, cache, sending, sweeper, restarts, history>>

ClusterDelete(u) ==
  /\ changes < MaxChanges
  /\ live[u] \in Hashes
  /\ live' = [live EXCEPT ![u] = Gone]
  /\ feed' = [feed EXCEPT ![u] = Append(@,
       [uid |-> u, action |-> "Delete", hash |-> live[u]])]
  /\ changes' = changes + 1
  /\ UNCHANGED <<unlisted, ror, cache, sending, sweeper, restarts, history>>

\* The uids whose deletion is still in the feed.
DeletionPending == {u \in Uids : \E i \in DOMAIN feed[u] : feed[u][i].action = "Delete"}

\* An ERROR event, or an error in the middle of the list: the watcher of g
\* lists again; of what it had yet to read, deletions are lost.
Relist(g) ==
  /\ changes < MaxChanges
  /\ pc[g] = "idle"
  /\ LET mine == {u \in Uids : GvrOf[u] = g}
     IN  /\ feed' = [u \in Uids |-> IF u \in mine THEN Listing(u) ELSE feed[u]]
         /\ unlisted' = (unlisted \ mine) \cup {u \in mine : live[u] \in Hashes}
         /\ missed' = missed \cup (mine \cap DeletionPending)
  /\ changes' = changes + 1
  /\ UNCHANGED <<live, ror, cache, sending, sweeper, restarts, failed, unswept, late,
                 marked, slipped, overtaken, unconverted>>
-----------------------------------------------------------------------------
(* SendResource, in the watcher goroutine of g *)

\* Mutant: a uid is marked active only once the cleanup period is over.
MarkedLate(u) ==
  IF ~cleanupRunning /\ hashList[u].hash # NoHash
  THEN [hashList EXCEPT ![u].active = TRUE]
  ELSE hashList

\* The hash list with u marked active, if it holds u.
Marked(u) ==
  IF hashList[u].hash # NoHash
  THEN [hashList EXCEPT ![u].active = TRUE]
  ELSE hashList

\* The watcher of g hands over the next event of u; list events come first.
TakeEvent(g, u) ==
  /\ pc[g] = "idle"
  /\ GvrOf[u] = g
  /\ feed[u] # << >>
  /\ u \in unlisted \/ \A v \in unlisted : GvrOf[v] # g
  /\ feed' = [feed EXCEPT ![u] = Tail(@)]
  /\ unlisted' = unlisted \ {u}

\* The object's kind has a model, and the object fits it.
Converts(update) == update.hash \in Convertible

\* An object that does not fit the model of its kind: the event is dropped,
\* a deletion as well, and the uid is not marked.
SendResourceFails(g, u) ==
  /\ TakeEvent(g, u)
  /\ ~Converts(Head(feed[u]))
  /\ unconverted' = unconverted \cup {u}
  /\ UNCHANGED <<live, changes, ror, cache, sending, sweeper, restarts, failed, unswept,
                 late, missed, marked, slipped, overtaken>>

\* A deletion is sent unseen; anything else first tests if the cleanup period
\* is on, and is to mark the uid active if it is.
SendResource(g, u) ==
  /\ TakeEvent(g, u)
  /\ Converts(Head(feed[u]))
  /\ current' = [current EXCEPT ![g] = Head(feed[u])]
  /\ unconverted' = unconverted \ {u}
  /\ \/ /\ Head(feed[u]).action = "Delete"
        /\ pc' = [pc EXCEPT ![g] = "send"]
        /\ UNCHANGED marked
     \/ /\ Head(feed[u]).action # "Delete"
        /\ pc' = [pc EXCEPT ![g] = IF cleanupRunning THEN "mark" ELSE "check"]
        /\ marked' = IF cleanupRunning THEN marked \cup {u} ELSE marked
  /\ UNCHANGED <<live, changes, ror, cache, header, sweeper, restarts, failed, unswept,
                 late, missed, slipped, overtaken>>

\* The period may have ended, and the cleanup have collected, since the test.
MarkActive(g) ==
  /\ pc[g] = "mark"
  /\ hashList' = Marked(current[g].uid)
  /\ pc' = [pc EXCEPT ![g] = "check"]
  /\ UNCHANGED <<cluster, ror, workqueue, cleanupRunning, runnerQueue, retried, current,
                 header, sweeper, restarts, history>>

\* Mutant: any entry of the hash list means there is nothing to send.
CheckUpdateKnownOnly(u, h) == hashList[u].hash = NoHash

CheckUpdateNeeded(u, h) == hashList[u].hash # h

Check(g) ==
  /\ pc[g] = "check"
  /\ IF CheckUpdateNeeded(current[g].uid, current[g].hash)
     THEN /\ pc' = [pc EXCEPT ![g] = "send"]
          /\ UNCHANGED current
     ELSE /\ pc' = [pc EXCEPT ![g] = "idle"]
          /\ current' = [current EXCEPT ![g] = NoUpdate]
  /\ UNCHANGED <<cluster, ror, cache, header, sweeper, restarts, history>>

\* The ways a call of the API can end: done, refused, or done while the
\* answer is lost (the caller sees an error).
Outcomes == {"ok", "refused", "unanswered"}

\* Mutant: the cases of the switch are swapped, a deletion updates.
StoredDeleteUpdates(update) == IF update.action = "Add" THEN NoHash ELSE update.hash

\* Mutant: the uid is stored in the place of the hash.
StoredUid(update) == update.uid

Stored(update) == IF update.action = "Delete" THEN NoHash ELSE update.hash

\* sendResourceUpdateToRor
Send(g, outcome) ==
  LET update == current[g]
      u      == update.uid
  IN
  /\ pc[g] = "send"
  /\ ror' = IF outcome = "refused" THEN ror ELSE [ror EXCEPT ![u] = Stored(update)]
  /\ IF outcome = "ok"
     THEN /\ failed' = failed \ {u}
          /\ late' = IF u \in inactive THEN late ELSE late \ {u}
          /\ pc' = [pc EXCEPT ![g] = IF update.action = "Delete" THEN "idle" ELSE "hash"]
          /\ current' = IF update.action = "Delete"
                        THEN [current EXCEPT ![g] = NoUpdate] ELSE current
     ELSE /\ failed' = failed \cup {u}
          /\ pc' = [pc EXCEPT ![g] = "add"]
          /\ UNCHANGED <<late, current>>
  /\ UNCHANGED <<cluster, cache, header, sweeper, restarts, unswept, missed, marked,
                 slipped, overtaken, unconverted>>

UpdateHash(g) ==
  LET u == current[g].uid
  IN
  /\ pc[g] = "hash"
  /\ hashList' = [hashList EXCEPT ![u] =
       [hash |-> current[g].hash, active |-> @.active \/ @.hash = NoHash]]
  /\ pc' = [pc EXCEPT ![g] = "idle"]
  /\ current' = [current EXCEPT ![g] = NoUpdate]
  /\ UNCHANGED <<cluster, ror, workqueue, cleanupRunning, runnerQueue, retried,
                 header, sweeper, restarts, history>>

\* Workqueue.Add without a lock: the slice is read (for the position and, if
\* there is none, once more for the append: one read here) ...
AddBegin(g) ==
  /\ pc[g] = "add"
  /\ header' = [header EXCEPT ![g] = workqueue]
  /\ pc' = [pc EXCEPT ![g] = "write"]
  /\ UNCHANGED <<cluster, ror, cache, current, sweeper, restarts, history>>

\* The process starts anew: MustInit with the cluster and ROR as they are.
Boot ==
  /\ feed' = [u \in Uids |-> Listing(u)]
  /\ unlisted' = {u \in Uids : live[u] \in Hashes}
  /\ hashList' = GetHashList(ror)
  /\ workqueue' = << >> /\ runnerQueue' = << >> /\ retried' = FALSE
  /\ cleanupRunning' = TRUE /\ sweep' = "scheduled" /\ inactive' = {}
  /\ pc' = [g \in Gvrs |-> "idle"]
  /\ current' = [g \in Gvrs |-> NoUpdate]
  /\ header' = [g \in Gvrs |-> << >>]
  /\ failed' = {} /\ unswept' = {} /\ late' = {} /\ missed' = {}
  /\ marked' = {} /\ slipped' = {} /\ overtaken' = {} /\ unconverted' = {}
  /\ UNCHANGED <<live, ror, changes>>

\* ... and written back.  An append publishes the slice that was read and
\* the new entry: what others appended in between is gone.  A replacement
\* goes to the slice of now; if that has become too short the index
\* panics, which ends the process, and it is started anew.  The slices that
\* other watchers have read may be of the array that is written to.
AddEnd(g) ==
  LET update == current[g]
      id     == GetByUid(header[g], update.uid)
      place  == IF id > 0 THEN id + 1 ELSE Len(header[g]) + 1
      entry  == NewEntry(header[g], update)
      others == {w \in Gvrs \ {g} : pc[w] = "write"}
  IN
  /\ pc[g] = "write"
  /\ UNCHANGED restarts
  /\ IF id > 0 /\ place \notin DOMAIN workqueue
     THEN Boot
     ELSE /\ workqueue' = IF id > 0 THEN ReplaceAt(workqueue, place, entry)
                          ELSE Add(header[g], update)
          /\ \E same \in SUBSET others :
               header' = [w \in Gvrs |->
                 IF w = g THEN << >>
                 ELSE IF w \in same THEN Written(header[w], place, entry)
                 ELSE header[w]]
          /\ pc' = [pc EXCEPT ![g] = "idle"]
          /\ current' = [current EXCEPT ![g] = NoUpdate]
          /\ overtaken' = IF others # {} THEN overtaken \cup {update.uid}
                          ELSE overtaken \ {update.uid}
          /\ UNCHANGED <<cluster, ror, hashList, cleanupRunning, runnerQueue, retried,
                         sweeper, failed, unswept, late, missed, marked, slipped,
                         unconverted>>
-----------------------------------------------------------------------------
(* The scheduler's jobs, and the process as a whole *)

\* runWorkqueScheduler, every ten seconds.  Its receiver is a copy of
\* ResourceCache made when the job was added, so it tests runnerQueue.
RunWorkqueScheduler ==
  /\ retried' = (retried \/ NeedToRun(runnerQueue))
  /\ UNCHANGED <<cluster, ror, hashList, workqueue, cleanupRunning, runnerQueue,
                 sending, sweeper, restarts, history>>

\* finnishCleanup, once, a minute after the start: the period ends ...
FinnishCleanup ==
  /\ sweep = "scheduled"
  /\ cleanupRunning
  /\ cleanupRunning' = FALSE
  /\ sweep' = "collect"
  /\ UNCHANGED <<cluster, ror, hashList, workqueue, runnerQueue, retried, sending,
                 inactive, restarts, history>>

\* ... what was not marked until now is collected ...
GetInactiveUid ==
  LET found == {u \in Uids : hashList[u].hash # NoHash /\ ~hashList[u].active}
  IN
  /\ sweep = "collect"
  /\ sweep' = IF found = {} THEN "done" ELSE "delete"
  /\ inactive' = found
  /\ late' = late \cup {u \in found : live[u] \in Hashes}
  /\ slipped' = {u \in found : \E g \in Gvrs : pc[g] = "mark" /\ current[g].uid = u}
  /\ UNCHANGED <<cluster, ror, cache, sending, restarts, failed, unswept, missed, marked,
                 overtaken, unconverted>>

\* Mutant: a delete that fails starts the sweep again.
DeleteInactiveRestarting(u, outcome) ==
  /\ sweep = "delete"
  /\ u \in inactive
  /\ ror' = IF outcome = "refused" THEN ror ELSE [ror EXCEPT ![u] = NoHash]
  /\ inactive' = inactive \ {u}
  /\ sweep' = IF outcome # "ok" THEN "collect" ELSE IF inactive = {u} THEN "done" ELSE "delete"
  /\ UNCHANGED <<cluster, cache, sending, restarts, history>>

\* ... and deleted from ROR one by one, errors ignored.
DeleteInactive(u, outcome) ==
  /\ sweep = "delete"
  /\ u \in inactive
  /\ ror' = IF outcome = "refused" THEN ror ELSE [ror EXCEPT ![u] = NoHash]
  /\ inactive' = inactive \ {u}
  /\ sweep' = IF inactive = {u} THEN "done" ELSE "delete"
  /\ unswept' = IF outcome = "ok" THEN unswept ELSE unswept \cup {u}
  /\ UNCHANGED <<cluster, cache, sending, restarts, failed, late, missed, marked,
                 slipped, overtaken, unconverted>>

\* The process dies between two steps and is started anew.
Restart ==
  /\ restarts < MaxRestarts
  /\ restarts' = restarts + 1
  /\ Boot
-----------------------------------------------------------------------------
Environment ==
  \/ \E u \in Uids : ClusterDelete(u) \/ \E h \in Hashes : ClusterChange(u, h)
  \/ \E g \in Gvrs : Relist(g)
  \/ Restart

Watcher(g) ==
  \/ \E u \in Uids : SendResource(g, u) \/ SendResourceFails(g, u)
  \/ MarkActive(g)
  \/ Check(g)
  \/ \E outcome \in Outcomes : Send(g, outcome)
  \/ UpdateHash(g)
  \/ AddBegin(g)
  \/ AddEnd(g)

Cleanup ==
  \/ FinnishCleanup
  \/ GetInactiveUid
  \/ \E u \in Uids, outcome \in Outcomes : DeleteInactive(u, outcome)

Next ==
  \/ Environment
  \/ \E g \in Gvrs : Watcher(g)
  \/ Cleanup
  \/ RunWorkqueScheduler

Spec == Init /\ [][Next]_vars

\* Goroutines that can run do run; the scheduler keeps its appointments.
Fairness ==
  /\ \A g \in Gvrs : WF_vars(Watcher(g))
  /\ WF_vars(Cleanup)
  /\ WF_vars(RunWorkqueScheduler)

FairSpec == Spec /\ Fairness
-----------------------------------------------------------------------------
(* Properties *)

TypeOK ==
  /\ live \in [Uids -> Hashes \cup {Unborn, Gone}]
  /\ feed \in [Uids -> Seq(Update)]
  /\ unlisted \in SUBSET Uids
  /\ ror \in [Uids -> Hashes \cup {NoHash}]
  /\ hashList \in [Uids -> [hash : Hashes \cup {NoHash}, active : BOOLEAN]]
  /\ workqueue \in Seq(EntryOf(Update))
  /\ runnerQueue = << >>
  /\ cleanupRunning \in BOOLEAN /\ retried \in BOOLEAN
  /\ pc \in [Gvrs -> {"idle", "mark", "check", "send", "hash", "add", "write"}]
  /\ current \in [Gvrs -> Update \cup {NoUpdate}]
  /\ header \in [Gvrs -> Seq(EntryOf(Update))]
  /\ sweep \in {"scheduled", "collect", "delete", "done"}
  /\ inactive \in SUBSET Uids
  /\ changes \in 0 .. MaxChanges /\ restarts \in 0 .. MaxRestarts
  /\ failed \in SUBSET Uids /\ unswept \in SUBSET Uids /\ late \in SUBSET Uids
  /\ missed \in SUBSET Uids /\ marked \in SUBSET Uids /\ slipped \in SUBSET Uids
  /\ overtaken \in SUBSET Uids /\ unconverted \in SUBSET Uids

Busy(g, u) == pc[g] # "idle" /\ current[g].uid = u

\* The agent has nothing to do for u.
Settled(u) ==
  /\ feed[u] = << >>
  /\ \A g \in Gvrs : ~Busy(g, u)
  /\ sweep = "done"

\* When the agent has nothing left to do for u, ROR holds what the cluster
\* holds -- unless the last send for u failed, the cleanup's delete failed, the
\* cleanup deleted u while it was alive, the watch lost its deletion, or its
\* last event could not be converted.
\* (SendResource, finnishCleanup, MustInit: right after a restart none of
\* the five holds, so a restart repairs every divergence but the last.)
Explained(u) == u \in failed \cup unswept \cup late \cup missed \cup unconverted
QuiescentAgreement ==
  \A u \in Uids : Settled(u) => ror[u] = Desired(u) \/ Explained(u)

\* The cleanup deletes no uid of which an event was handed on in its period,
\* whatever the watchers do while it collects and deletes -- unless it
\* collected right between that event's test of the period and its mark.
\* (SendResource, MarkActive, UpdateHash and GetInactiveUid)
MarkedNotSwept == marked \cap inactive \subseteq slipped

\* Once the deletion of an object is with the agent and no event of it is
\* left, it stays that way and nothing brings the object back to ROR: no late
\* event, relist, cleanup or restart.  (SendResource, noCacheInitialList)
Buried(u) ==
  /\ live[u] = Gone
  /\ feed[u] = << >>
  /\ \A g \in Gvrs : Busy(g, u) => current[g].action = "Delete"
NoResurrection ==
  [][\A u \in Uids : Buried(u) => Buried(u)' /\ ror'[u] \in {ror[u], NoHash}]_vars

\* Whatever happens, the agent comes back to rest: every event is handled
\* and the cleanup ends.  (SendResource and finnishCleanup)
EventuallySettled == \A u \in Uids : []<>Settled(u)

\* The pipeline gets its events from what a Feed promises, which is what the
\* loop of DynamicController keeps; a restart is a new listing.
\* (MustInit, SendResource, Run of the dynamic controller)
F == INSTANCE Feed
ImplementsFeed == F!Spec

\* resourcecache.go:112: "RunWorkQue Will run from the scheduler if the
\* resource-que is non zero length."
QueueIsRun == NeedToRun(workqueue) ~> retried \/ ~NeedToRun(workqueue)

\* workqueue_test.go:205, "Test Add existing uid": an update whose uid is in
\* the queue replaces the entry.
OneEntryPerUid ==
  \A i, j \in DOMAIN workqueue :
    workqueue[i].update.uid = workqueue[j].update.uid => i = j

\* resourceupdate.go:29 and 38: "error sending resource update to ror, added
\* to retryque": when SendResource is done with an update that failed, the
\* queue has an entry for it, however the adds of the watchers overlapped --
\* unless another add was under way when its own ended.  That add publishes
\* the slice it read before; any other keeps the entry.
Queued(u) == HoldsUid(workqueue, u)
FailedIsQueued ==
  \A u \in Uids :
    u \in failed /\ (\A g \in Gvrs : ~Busy(g, u)) => Queued(u) \/ u \in overtaken
=============================================================================
