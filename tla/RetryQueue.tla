----------------------------- MODULE RetryQueue -----------------------------
(***************************************************************************)
(* RunWorkQue of internal/services/resourceupdate/resourcecache.go: the    *)
(* loop that sends the entries of the retry queue again, with watchers     *)
(* that put failed updates in the queue while it runs.                     *)
(*                                                                         *)
(* In the deployed agent the loop is never entered (ResourceUpdate shows   *)
(* why); this module is about the method itself, on the queue of its       *)
(* receiver.  Nothing is locked: Add and DeleteByUid first read the slice  *)
(* and then store one, and between the two any goroutine may do the same.  *)
(* Each reads it twice, for a position and for the entries, which is one   *)
(* read here: whoever stores a slice between the two is between the read   *)
(* and the store.  The scheduler starts a run although the last one still  *)
(* goes on.                                                                *)
(*                                                                         *)
(* A loop ranges over the slice it finds at the start: until a DeleteByUid *)
(* makes a new array, that slice shares its array with the queue, and an   *)
(* in-place Add shows in both.                                             *)
(*                                                                         *)
(* Updates of a uid carry a number, later ones a higher one.               *)
(***************************************************************************)
EXTENDS WorkQueue

CONSTANTS
  Uids,         \* each with a watcher of its own
  Runs,         \* bound: the runs of the loop that go on at the same time
  MaxUpdates,   \* bound: updates put in the queue by watchers
  MaxFailures,  \* bound: sends that fail
  MaxOverlaps   \* bound: runs that start while another goes on

ASSUME BoundsAssumption ==
  /\ MaxUpdates \in Nat /\ MaxFailures \in Nat /\ MaxOverlaps \in Nat
  /\ NoUid \notin Uids /\ Runs \cap Uids = {}

VARIABLES
  queue,        \* rc.Workqueue
  snapshot,     \* of a run: the slice it ranges over
  shared,       \* the runs whose snapshot has one array with queue
  next,         \* of a run: the position in snapshot, from 1
  pc,           \* of a run
  current,      \* the update that a run works on, or a watcher adds
  header,       \* the slice that Add or DeleteByUid has read
  hashList,     \* the number of the update whose hash was stored last, or 0
  updates, failures, overlaps,
  overwrote,    \* history: updates that replaced an entry a run still holds
  disturbed     \* history: since a run last started with nothing under way,
                \* runs overlapped, or a slice was stored while another
                \* goroutine was between reading and storing one

runs == <<snapshot, shared, next, pc>>
vars == <<queue, runs, current, header, hashList, updates, failures, overlaps,
          overwrote, disturbed>>

Update == [uid : Uids, n : Nat]
NoUpdate == [uid |-> NoUid, n |-> 0]

\* The goroutines: a run of the loop, or the watcher of a uid.
Threads == Uids \cup Runs

Active == {r \in Runs : pc[r] # "idle"}

\* Those that have read a slice and are about to store one.
Inside == {u \in Uids : current[u] # NoUpdate} \cup {r \in Runs : pc[r] \in {"delete", "add"}}

Init ==
  /\ queue = << >>
  /\ snapshot = [r \in Runs |-> << >>] /\ shared = {}
  /\ next = [r \in Runs |-> 1] /\ pc = [r \in Runs |-> "idle"]
  /\ current = [t \in Threads |-> NoUpdate] /\ header = [t \in Threads |-> << >>]
  /\ hashList = [u \in Uids |-> 0]
  /\ updates = 0 /\ failures = 0 /\ overlaps = 0
  /\ overwrote = {} /\ disturbed = FALSE

\* A goroutine's store is seen by those that have read before it.
Disturbs(t) == disturbed' = (disturbed \/ Inside # {t})

\* The second half of Add, in goroutine t; the runs in `ends` are over.  A
\* replacement goes to the slice of now, at the position that was found before.
\* An append publishes the slice that was read and the new entry, which goes
\* to its array if there is room, or else to a new one.
\*
\* What is written to an array is seen through every slice of it.  The loops
\* that share the queue's array are known if t has read the queue of now; which
\* other slices are of the array that is written to is left open.
Put(t, update, ends) ==
  LET h     == header[t]
      id    == GetByUid(h, update.uid)
      place == IF id > 0 THEN id + 1 ELSE Len(h) + 1
      entry == NewEntry(h, update)
      loops == Active \ ends
  IN
  /\ id > 0 => place \in DOMAIN queue
  /\ queue' = IF id > 0 THEN ReplaceAt(queue, place, entry) ELSE Add(h, update)
  /\ overwrote' = IF id > 0 /\ ~(loops \subseteq shared)
                  THEN overwrote \cup {update} ELSE overwrote
  /\ shared' \in IF id > 0 THEN {shared \ ends}
                 ELSE IF h = queue THEN {shared \ ends, {}}
                 ELSE SUBSET loops
  /\ snapshot' = [r \in Runs |->
       IF r \in ends THEN << >>
       ELSE IF r \in shared' THEN Written(snapshot[r], place, entry)
       ELSE snapshot[r]]
  /\ \E others \in SUBSET (Inside \ {t}) :
       header' = [s \in Threads |->
         IF s = t THEN << >>
         ELSE IF s \in others THEN Written(header[s], place, entry)
         ELSE header[s]]

\* The position found before is beyond the slice of now: the index panics,
\* the process ends and starts anew.
Panics(t, update) ==
  LET id == GetByUid(header[t], update.uid)
  IN
  /\ id > 0 /\ id + 1 \notin DOMAIN queue
  /\ queue' = << >>
  /\ snapshot' = [r \in Runs |-> << >>] /\ shared' = {}
  /\ next' = [r \in Runs |-> 1] /\ pc' = [r \in Runs |-> "idle"]
  /\ current' = [s \in Threads |-> NoUpdate] /\ header' = [s \in Threads |-> << >>]
  /\ disturbed' = TRUE
  /\ UNCHANGED <<hashList, overwrote>>
-----------------------------------------------------------------------------
(* A watcher *)

\* A watcher fails to send an update of u and adds it: the slice is read ...
AddBegin(u) ==
  /\ updates < MaxUpdates
  /\ current[u] = NoUpdate
  /\ updates' = updates + 1
  /\ current' = [current EXCEPT ![u] = [uid |-> u, n |-> updates + 1]]
  /\ header' = [header EXCEPT ![u] = queue]
  /\ UNCHANGED <<queue, runs, hashList, failures, overlaps, overwrote, disturbed>>

\* ... and stored.
AddEnd(u) ==
  /\ current[u] # NoUpdate
  /\ \/ /\ Put(u, current[u], {})
        /\ Disturbs(u)
        /\ current' = [current EXCEPT ![u] = NoUpdate]
        /\ UNCHANGED <<next, pc, hashList>>
     \/ Panics(u, current[u])
  /\ UNCHANGED <<updates, failures, overlaps>>
-----------------------------------------------------------------------------
(* A run of the loop *)

\* runWorkqueScheduler: if the queue is not empty the loop starts.
RunWorkqueScheduler(r) ==
  /\ pc[r] = "idle"
  /\ IF NeedToRun(queue)
     THEN /\ snapshot' = [snapshot EXCEPT ![r] = queue]
          /\ shared' = shared \cup {r}
          /\ current' = [current EXCEPT ![r] = queue[1].update]
          /\ pc' = [pc EXCEPT ![r] = "send"]
          /\ \/ /\ Active = {}
                /\ disturbed' = (disturbed /\ Inside # {})
                /\ overwrote' = {}
                /\ UNCHANGED overlaps
             \/ /\ Active # {} /\ overlaps < MaxOverlaps
                /\ overlaps' = overlaps + 1
                /\ disturbed' = TRUE
                /\ UNCHANGED overwrote
          /\ UNCHANGED <<queue, next, header, hashList, updates, failures>>
     ELSE UNCHANGED vars

\* The send of the current update, and the first half of what follows: Add
\* and DeleteByUid both begin with reading the slice.
Resend(r, ok) ==
  /\ pc[r] = "send"
  /\ ok \/ failures < MaxFailures
  /\ pc' = [pc EXCEPT ![r] = IF ok THEN "delete" ELSE "add"]
  /\ header' = [header EXCEPT ![r] = queue]
  /\ failures' = IF ok THEN failures ELSE failures + 1
  /\ UNCHANGED <<queue, snapshot, shared, next, current, hashList, updates, overlaps,
                 overwrote, disturbed>>

\* A send that fails puts its update back and ends the run.
Requeue(r) ==
  /\ pc[r] = "add"
  /\ \/ /\ Put(r, current[r], {r})
        /\ Disturbs(r)
        /\ pc' = [pc EXCEPT ![r] = "idle"]
        /\ next' = [next EXCEPT ![r] = 1]
        /\ current' = [current EXCEPT ![r] = NoUpdate]
        /\ UNCHANGED hashList
     \/ Panics(r, current[r])
  /\ UNCHANGED <<updates, failures, overlaps>>

\* Mutant: the entry at the loop's own position is deleted.
RemovedAtPosition(r) ==
  IF next[r] \in DOMAIN header[r] THEN RemoveAt(header[r], next[r]) ELSE header[r]

\* Mutant: nothing is deleted.
RemovedNothing(r) == header[r]

\* The slice that DeleteByUid makes of the one it has read.
Removed(r) == DeleteByUid(header[r], current[r].uid)

\* A send that succeeds takes the entry out; the loop goes on with the slice
\* it started from.
Delete(r) ==
  /\ pc[r] = "delete"
  /\ queue' = Removed(r)
  /\ shared' = {}
  /\ hashList' = [hashList EXCEPT ![current[r].uid] = current[r].n]
  /\ header' = [header EXCEPT ![r] = << >>]
  /\ Disturbs(r)
  /\ IF next[r] < Len(snapshot[r])
     THEN /\ next' = [next EXCEPT ![r] = @ + 1]
          /\ current' = [current EXCEPT ![r] = snapshot[r][next[r] + 1].update]
          /\ pc' = [pc EXCEPT ![r] = "send"]
          /\ UNCHANGED snapshot
     ELSE /\ next' = [next EXCEPT ![r] = 1]
          /\ current' = [current EXCEPT ![r] = NoUpdate]
          /\ pc' = [pc EXCEPT ![r] = "idle"]
          /\ snapshot' = [snapshot EXCEPT ![r] = << >>]
  /\ UNCHANGED <<updates, failures, overlaps, overwrote>>
-----------------------------------------------------------------------------
Runner(r) ==
  \/ RunWorkqueScheduler(r)
  \/ Resend(r, TRUE) \/ Resend(r, FALSE)
  \/ Requeue(r) \/ Delete(r)

Next ==
  \/ \E r \in Runs : Runner(r)
  \/ \E u \in Uids : AddBegin(u) \/ AddEnd(u)

Spec == Init /\ [][Next]_vars

\* The scheduler ticks for ever, and an Add that has begun ends.
FairSpec ==
  /\ Spec
  /\ \A r \in Runs : WF_vars(Runner(r))
  /\ \A u \in Uids : WF_vars(AddEnd(u))
-----------------------------------------------------------------------------
(* Properties *)

TypeOK ==
  /\ queue \in Seq(EntryOf(Update))
  /\ snapshot \in [Runs -> Seq(EntryOf(Update))]
  /\ shared \in SUBSET Runs
  /\ next \in [Runs -> Nat \ {0}]
  /\ pc \in [Runs -> {"idle", "send", "delete", "add"}]
  /\ current \in [Threads -> Update \cup {NoUpdate}]
  /\ header \in [Threads -> Seq(EntryOf(Update))]
  /\ hashList \in [Uids -> Nat]
  /\ updates \in 0 .. MaxUpdates /\ failures \in 0 .. MaxFailures
  /\ overlaps \in 0 .. MaxOverlaps
  /\ overwrote \in SUBSET Update
  /\ disturbed \in BOOLEAN

\* While a run goes on, the queue starts with the uids it has yet to send, in
\* that order, whatever watchers add meanwhile -- as long as no other run is
\* started and no two goroutines are in Add or DeleteByUid at once.  So
\* DeleteByUid finds the uid at the head: it never takes its way of removing
\* the first entry for a uid that is not there.
\* (RunWorkQue, Add, DeleteByUid)
QueueFollowsLoop ==
  \A r \in Active : ~disturbed =>
    /\ next[r] \in 1 .. Len(snapshot[r])
    /\ current[r].uid = snapshot[r][next[r]].update.uid
    /\ Len(queue) >= Len(snapshot[r]) - next[r] + 1
    /\ \A i \in next[r] .. Len(snapshot[r]) :
         queue[i - next[r] + 1].update.uid = snapshot[r][i].update.uid

Held(q) == {q[i].update : i \in DOMAIN q}

\* What a run takes out of the queue is the update it has just sent -- or one
\* that has replaced, in place, an entry of which the run held a copy, and is
\* lost.  Beyond that an update is dropped only if runs have overlapped or two
\* goroutines were in Add or DeleteByUid at once.
\* (RunWorkQue, Add, DeleteByUid)
DropsOnlyOverwrites ==
  [][\A r \in Runs : pc[r] = "delete" /\ pc'[r] # "delete" /\ ~disturbed' =>
       Held(queue) \ Held(queue') \subseteq {current[r]} \cup overwrote]_vars

\* Once watchers stop failing and the API answers, the queue runs empty,
\* duplicates, overlapping runs and entries brought back by a late store
\* included.  (RunWorkQue, Add, DeleteByUid)
Drains == <>[](queue = << >>)
=============================================================================
