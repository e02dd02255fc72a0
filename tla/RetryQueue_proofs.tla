-------------------------- MODULE RetryQueue_proofs --------------------------
(***************************************************************************)
(* RetryQueue for every set of uids, any number of runs of the loop and    *)
(* every bound.                                                            *)
(*                                                                         *)
(* Base holds whatever overlaps.  As long as no two runs and no two stores *)
(* have overlapped, Calm holds as well: there is one run, whoever is about *)
(* to store a slice has read the queue of now, and a loop whose slice      *)
(* shares its array with the queue is at its first entry.  With that,      *)
(* QueueFollowsLoop is inductive: DeleteByUid takes the head.  What that   *)
(* head holds follows from SentInv: where the loop is to come by, the      *)
(* queue holds what the loop will send, or what was put there after the    *)
(* loop took its copy.                                                     *)
(***************************************************************************)
EXTENDS RetryQueue, WorkQueue_proofs

Base ==
  /\ TypeOK
  /\ shared \subseteq Active
  /\ \A r \in Runs : pc[r] = "idle" => next[r] = 1
  /\ \A r \in Active : next[r] \in 1 .. Len(snapshot[r]) /\ current[r] \in Update

Calm ==
  ~disturbed =>
    /\ \A r, s \in Active : r = s
    /\ \A t \in Inside : header[t] = queue
    /\ \A r \in shared : next[r] = 1

IInv == Base /\ Calm /\ QueueFollowsLoop

SentInv ==
  \A r \in Active : ~disturbed =>
    /\ current[r] = snapshot[r][next[r]].update
    /\ \A i \in next[r] .. Len(snapshot[r]) :
         queue[i - next[r] + 1].update \in {snapshot[r][i].update} \cup overwrote
    /\ r \in shared => queue[1].update = current[r]

LEMMA EntryFields ==
  ASSUME NEW wq \in Seq(EntryOf(Update)), NEW i \in 1 .. Len(wq)
  PROVE  wq[i].update \in Update /\ wq[i].update.uid \in Uids
<1>1. wq[i] \in EntryOf(Update)
  BY ElementOfSeq
<1> QED
  BY <1>1 DEF EntryOf, Update

\* NoUpdate is not an update of any uid, and no run is a uid.
LEMMA Apart ==
  /\ NoUpdate \notin Update
  /\ \A update \in Update : update # NoUpdate /\ update.uid \in Uids /\ update.uid # NoUid
  /\ \A r \in Runs : r \notin Uids /\ r \in Threads
  /\ \A u \in Uids : u \notin Runs /\ u \in Threads
  BY BoundsAssumption DEF BoundsAssumption, NoUpdate, Update, Threads

LEMMA Types ==
  ASSUME TypeOK
  PROVE  /\ queue \in Seq(EntryOf(Update)) /\ Len(queue) \in Nat
         /\ DOMAIN queue = 1 .. Len(queue)
         /\ \A r \in Runs : /\ snapshot[r] \in Seq(EntryOf(Update))
                            /\ Len(snapshot[r]) \in Nat
                            /\ next[r] \in Nat \ {0}
         /\ \A t \in Threads : header[t] \in Seq(EntryOf(Update))
<1>1. /\ queue \in Seq(EntryOf(Update))
      /\ \A r \in Runs : snapshot[r] \in Seq(EntryOf(Update)) /\ next[r] \in Nat \ {0}
      /\ \A t \in Threads : header[t] \in Seq(EntryOf(Update))
  BY DEF TypeOK
<1>2. \A r \in Runs : Len(snapshot[r]) \in Nat
  BY <1>1, LenProperties
<1>3. Len(queue) \in Nat /\ DOMAIN queue = 1 .. Len(queue)
  BY <1>1, LenProperties
<1> QED
  BY <1>1, <1>2, <1>3
-----------------------------------------------------------------------------
(* Base: whatever overlaps *)

\* A store keeps the types, and the length of every slice a loop ranges over.
LEMMA PutBase ==
  ASSUME Base, NEW t \in Threads, NEW update \in Update, NEW ends \in SUBSET Runs,
         Put(t, update, ends)
  PROVE  /\ queue' \in Seq(EntryOf(Update))
         /\ overwrote' \in SUBSET Update
         /\ shared' \subseteq Active \ ends
         /\ snapshot' \in [Runs -> Seq(EntryOf(Update))]
         /\ \A r \in Runs \ ends : Len(snapshot'[r]) = Len(snapshot[r])
         /\ header' \in [Threads -> Seq(EntryOf(Update))]
<1> DEFINE h     == header[t]
           id    == GetByUid(h, update.uid)
           place == IF id > 0 THEN id + 1 ELSE Len(h) + 1
           entry == NewEntry(h, update)
<1>1. /\ queue \in Seq(EntryOf(Update)) /\ h \in Seq(EntryOf(Update))
      /\ DOMAIN queue = 1 .. Len(queue)
      /\ \A r \in Runs : snapshot[r] \in Seq(EntryOf(Update))
      /\ \A s \in Threads : header[s] \in Seq(EntryOf(Update))
  BY Types DEF Base
<1>2. entry \in EntryOf(Update) /\ place \in Nat /\ << >> \in Seq(EntryOf(Update))
  BY <1>1, NewEntryType, GetByUidRange, LenProperties, EmptySeq
<1>3. queue' \in Seq(EntryOf(Update))
  <2>1. CASE id > 0
    <3>1. id + 1 \in 1 .. Len(queue) /\ queue' = [queue EXCEPT ![id + 1] = entry]
      BY <1>1, <2>1 DEF Put, ReplaceAt
    <3> HIDE DEF id, entry
    <3> QED
      BY <1>1, <1>2, <3>1, ExceptSeq
  <2>2. CASE ~(id > 0)
    BY <1>1, <2>2, AddType DEF Put
  <2> QED
    BY <2>1, <2>2
<1>4. overwrote' \in SUBSET Update
  BY DEF Put, Base, TypeOK
<1>5. shared' \subseteq Active \ ends
  BY DEF Put, Base
<1>6. /\ snapshot' = [r \in Runs |->
           IF r \in ends THEN << >>
           ELSE IF r \in shared' THEN Written(snapshot[r], place, entry)
           ELSE snapshot[r]]
  BY DEF Put
<1>7. PICK others \in SUBSET (Inside \ {t}) :
         header' = [s \in Threads |->
           IF s = t THEN << >>
           ELSE IF s \in others THEN Written(header[s], place, entry)
           ELSE header[s]]
  BY DEF Put
<1> HIDE DEF place, entry
<1>8. \A r \in Runs :
        /\ snapshot'[r] \in Seq(EntryOf(Update))
        /\ r \notin ends => Len(snapshot'[r]) = Len(snapshot[r])
  <2> SUFFICES ASSUME NEW r \in Runs
               PROVE  /\ snapshot'[r] \in Seq(EntryOf(Update))
                      /\ r \notin ends => Len(snapshot'[r]) = Len(snapshot[r])
    OBVIOUS
  <2>0. snapshot[r] \in Seq(EntryOf(Update))
    BY <1>1
  <2>1. Written(snapshot[r], place, entry) \in Seq(EntryOf(Update))
    BY <1>2, <2>0, WrittenAt
  <2>2. Len(Written(snapshot[r], place, entry)) = Len(snapshot[r])
    BY <1>2, <2>0, WrittenAt
  <2> QED
    BY <1>1, <1>2, <1>6, <2>1, <2>2
<1>9. \A s \in Threads : header'[s] \in Seq(EntryOf(Update))
  <2> SUFFICES ASSUME NEW s \in Threads PROVE header'[s] \in Seq(EntryOf(Update))
    OBVIOUS
  <2>1. Written(header[s], place, entry) \in Seq(EntryOf(Update))
    BY <1>1, <1>2, WrittenAt
  <2> QED
    BY <1>1, <1>2, <1>7, <2>1
<1> QED
  BY <1>3, <1>4, <1>5, <1>6, <1>7, <1>8, <1>9

LEMMA PanicsBase ==
  ASSUME Base, NEW t \in Threads, NEW update, Panics(t, update),
         UNCHANGED <<updates, failures, overlaps>>
  PROVE  Base' /\ disturbed'
<1>1. /\ queue' = << >> /\ shared' = {}
      /\ snapshot' = [r \in Runs |-> << >>]
      /\ next' = [r \in Runs |-> 1] /\ pc' = [r \in Runs |-> "idle"]
      /\ current' = [s \in Threads |-> NoUpdate] /\ header' = [s \in Threads |-> << >>]
      /\ disturbed' = TRUE
      /\ UNCHANGED <<hashList, overwrote>>
  BY DEF Panics
<1>2. << >> \in Seq(EntryOf(Update))
  BY EmptySeq
<1>3. TypeOK'
  <2>1. queue' \in Seq(EntryOf(Update)) /\ snapshot' \in [Runs -> Seq(EntryOf(Update))]
    BY <1>1, <1>2
  <2>2. header' \in [Threads -> Seq(EntryOf(Update))]
    BY <1>1, <1>2
  <2>3. /\ shared' \in SUBSET Runs /\ next' \in [Runs -> Nat \ {0}]
        /\ pc' \in [Runs -> {"idle", "send", "delete", "add"}]
        /\ current' \in [Threads -> Update \cup {NoUpdate}]
        /\ disturbed' \in BOOLEAN
    BY <1>1
  <2>4. /\ hashList' \in [Uids -> Nat] /\ overwrote' \in SUBSET Update
        /\ updates' \in 0 .. MaxUpdates /\ failures' \in 0 .. MaxFailures
        /\ overlaps' \in 0 .. MaxOverlaps
    BY <1>1 DEF Base, TypeOK
  <2> QED
    BY <2>1, <2>2, <2>3, <2>4 DEF TypeOK
<1>4. Active' = {}
  BY <1>1 DEF Active
<1> QED
  BY <1>1, <1>3, <1>4 DEF Base

LEMMA InitBase == Init => Base /\ Calm /\ QueueFollowsLoop /\ SentInv
<1> SUFFICES ASSUME Init PROVE Base /\ Calm /\ QueueFollowsLoop /\ SentInv
  OBVIOUS
<1>1. << >> \in Seq(EntryOf(Update))
  BY EmptySeq
<1>2. TypeOK
  <2>1. queue \in Seq(EntryOf(Update)) /\ snapshot \in [Runs -> Seq(EntryOf(Update))]
    BY <1>1 DEF Init
  <2>2. header \in [Threads -> Seq(EntryOf(Update))]
    BY <1>1 DEF Init
  <2>3. /\ shared \in SUBSET Runs /\ disturbed \in BOOLEAN
        /\ pc \in [Runs -> {"idle", "send", "delete", "add"}]
    BY DEF Init
  <2>6. next \in [Runs -> Nat \ {0}]
    BY DEF Init
  <2>7. current \in [Threads -> Update \cup {NoUpdate}]
    BY DEF Init
  <2>4. hashList \in [Uids -> Nat] /\ overwrote \in SUBSET Update
    BY DEF Init
  <2>5. /\ updates \in 0 .. MaxUpdates /\ failures \in 0 .. MaxFailures
        /\ overlaps \in 0 .. MaxOverlaps
    BY BoundsAssumption DEF Init, BoundsAssumption
  <2> QED
    BY <2>1, <2>2, <2>3, <2>4, <2>5, <2>6, <2>7 DEF TypeOK
<1>3. Active = {}
  BY DEF Init, Active
<1>4. Inside = {}
  BY Apart DEF Init, Inside
<1>5. shared = {} /\ \A r \in Runs : next[r] = 1
  BY DEF Init
<1> QED
  BY <1>2, <1>3, <1>4, <1>5 DEF Base, Calm, QueueFollowsLoop, SentInv

LEMMA AddBeginBase ==
  ASSUME Base, NEW u \in Uids, AddBegin(u)
  PROVE  Base'
<1>1. /\ current' = [current EXCEPT ![u] = [uid |-> u, n |-> updates + 1]]
      /\ header' = [header EXCEPT ![u] = queue]
      /\ updates' = updates + 1 /\ updates < MaxUpdates
      /\ UNCHANGED <<queue, snapshot, shared, next, pc, hashList, failures, overlaps,
                     overwrote, disturbed>>
  BY DEF AddBegin, runs
<1>2. updates \in Nat /\ updates + 1 \in 0 .. MaxUpdates
  BY <1>1, BoundsAssumption DEF Base, TypeOK, BoundsAssumption
<1>3. [uid |-> u, n |-> updates + 1] \in Update
  BY <1>2 DEF Update
<1>4. TypeOK'
  <2>1. current' \in [Threads -> Update \cup {NoUpdate}]
    BY <1>1, <1>3 DEF Base, TypeOK
  <2>2. header' \in [Threads -> Seq(EntryOf(Update))]
    BY <1>1 DEF Base, TypeOK
  <2> QED
    BY <1>1, <1>2, <2>1, <2>2 DEF Base, TypeOK
<1>5. Active' = Active /\ \A r \in Runs : current'[r] = current[r]
  BY <1>1, Apart DEF Active, Base, TypeOK
<1> QED
  BY <1>1, <1>4, <1>5 DEF Base, Active

LEMMA AddEndBase ==
  ASSUME Base, NEW u \in Uids, AddEnd(u)
  PROVE  Base'
<1>1. current[u] \in Update /\ u \in Threads
  BY Apart DEF AddEnd, Base, TypeOK
<1>2. CASE Panics(u, current[u])
  BY <1>1, <1>2, PanicsBase DEF AddEnd
<1>3. CASE ~Panics(u, current[u])
  <2>1. /\ Put(u, current[u], {})
        /\ Disturbs(u)
        /\ current' = [current EXCEPT ![u] = NoUpdate]
        /\ UNCHANGED <<next, pc, hashList, updates, failures, overlaps>>
    BY <1>3 DEF AddEnd
  <2>2. /\ queue' \in Seq(EntryOf(Update))
        /\ overwrote' \in SUBSET Update
        /\ shared' \subseteq Active
        /\ snapshot' \in [Runs -> Seq(EntryOf(Update))]
        /\ \A r \in Runs : Len(snapshot'[r]) = Len(snapshot[r])
        /\ header' \in [Threads -> Seq(EntryOf(Update))]
    BY <1>1, <2>1, PutBase
  <2>3. disturbed' \in BOOLEAN
    BY <2>1 DEF Disturbs, Base, TypeOK
  <2>4. Active' = Active /\ \A r \in Runs : current'[r] = current[r]
    BY <2>1, Apart DEF Active, Base, TypeOK
  <2>5. TypeOK'
    BY <2>1, <2>2, <2>3 DEF Base, TypeOK, Active
  <2> QED
    BY <2>1, <2>2, <2>4, <2>5 DEF Base, Active
<1> QED
  BY <1>2, <1>3

LEMMA SchedulerBase ==
  ASSUME Base, NEW r \in Runs, RunWorkqueScheduler(r), NeedToRun(queue)
  PROVE  Base'
<1>1. queue \in Seq(EntryOf(Update)) /\ Len(queue) \in Nat /\ Len(queue) > 0
  BY Types DEF Base, NeedToRun
<1>2. queue[1].update \in Update
  BY <1>1, EntryFields
<1>3. /\ pc[r] = "idle" /\ pc' = [pc EXCEPT ![r] = "send"]
      /\ snapshot' = [snapshot EXCEPT ![r] = queue]
      /\ shared' = shared \cup {r}
      /\ current' = [current EXCEPT ![r] = queue[1].update]
      /\ UNCHANGED <<queue, next, header, hashList, updates, failures>>
  BY DEF RunWorkqueScheduler
<1>4. /\ disturbed' \in BOOLEAN /\ overwrote' \in SUBSET Update
      /\ overlaps' \in 0 .. MaxOverlaps
  <2>1. disturbed' \in BOOLEAN
    BY DEF RunWorkqueScheduler
  <2>2. overwrote' \in SUBSET Update
    BY DEF RunWorkqueScheduler, Base, TypeOK
  <2>3. overlaps' = overlaps \/ (overlaps < MaxOverlaps /\ overlaps' = overlaps + 1)
    BY DEF RunWorkqueScheduler
  <2> QED
    BY <2>1, <2>2, <2>3, BoundsAssumption DEF Base, TypeOK, BoundsAssumption
<1>5. TypeOK'
  BY <1>1, <1>2, <1>3, <1>4 DEF Base, TypeOK
<1>6. Active' = Active \cup {r}
  BY <1>3 DEF Active, Base, TypeOK
<1>7. next'[r] = 1 /\ snapshot'[r] = queue /\ current'[r] = queue[1].update
  BY <1>3, Apart DEF Base, TypeOK
<1>8. \A s \in Active' : next'[s] \in 1 .. Len(snapshot'[s]) /\ current'[s] \in Update
  <2> TAKE s \in Active'
  <2>1. CASE s = r
    BY <1>1, <1>2, <1>7, <2>1
  <2>2. CASE s # r
    <3>1. s \in Active /\ s \in Runs
      BY <1>6, <2>2 DEF Active
    <3> QED
      BY <1>3, <2>2, <3>1, Apart DEF Base, TypeOK
  <2> QED
    BY <2>1, <2>2
<1> QED
  BY <1>3, <1>5, <1>6, <1>8 DEF Base, TypeOK

LEMMA ResendBase ==
  ASSUME Base, NEW r \in Runs, NEW ok \in BOOLEAN, Resend(r, ok)
  PROVE  Base' /\ Active' = Active
<1>1. /\ pc[r] = "send"
      /\ pc' = [pc EXCEPT ![r] = IF ok THEN "delete" ELSE "add"]
      /\ header' = [header EXCEPT ![r] = queue]
      /\ UNCHANGED <<queue, snapshot, shared, next, current, hashList, updates, overlaps,
                     overwrote, disturbed>>
  BY DEF Resend
<1>2. failures' \in 0 .. MaxFailures
  BY BoundsAssumption DEF Resend, Base, TypeOK, BoundsAssumption
<1>3. /\ pc' \in [Runs -> {"idle", "send", "delete", "add"}]
      /\ header' \in [Threads -> Seq(EntryOf(Update))]
  BY <1>1 DEF Base, TypeOK
<1>4. Active' = Active
  BY <1>1 DEF Active, Base, TypeOK
<1>5. TypeOK'
  BY <1>1, <1>2, <1>3 DEF Base, TypeOK
<1>6. \A s \in Runs : pc'[s] = "idle" => pc[s] = "idle"
  BY <1>1 DEF Base, TypeOK
<1> QED
  BY <1>1, <1>4, <1>5, <1>6 DEF Base

LEMMA RequeueBase ==
  ASSUME Base, NEW r \in Runs, Requeue(r)
  PROVE  /\ Base'
         /\ disturbed' \/ Active' = Active \ {r}
<1>1. r \in Active /\ current[r] \in Update /\ r \in Threads
  BY Apart DEF Requeue, Base, Active
<1>2. CASE Panics(r, current[r])
  BY <1>1, <1>2, PanicsBase DEF Requeue
<1>3. CASE ~Panics(r, current[r])
  <2>1. /\ Put(r, current[r], {r})
        /\ Disturbs(r)
        /\ pc' = [pc EXCEPT ![r] = "idle"]
        /\ next' = [next EXCEPT ![r] = 1]
        /\ current' = [current EXCEPT ![r] = NoUpdate]
        /\ UNCHANGED <<hashList, updates, failures, overlaps>>
    BY <1>3 DEF Requeue
  <2>2. /\ queue' \in Seq(EntryOf(Update))
        /\ overwrote' \in SUBSET Update
        /\ shared' \subseteq Active \ {r}
        /\ snapshot' \in [Runs -> Seq(EntryOf(Update))]
        /\ \A s \in Runs \ {r} : Len(snapshot'[s]) = Len(snapshot[s])
        /\ header' \in [Threads -> Seq(EntryOf(Update))]
    BY <1>1, <2>1, PutBase
  <2>3. disturbed' \in BOOLEAN
    BY <2>1 DEF Disturbs, Base, TypeOK
  <2>4. /\ Active' = Active \ {r}
        /\ \A s \in Runs \ {r} : current'[s] = current[s] /\ next'[s] = next[s]
    BY <2>1 DEF Active, Base, TypeOK, Threads
  <2>5. TypeOK'
    <3>1. pc' \in [Runs -> {"idle", "send", "delete", "add"}]
      BY <2>1 DEF Base, TypeOK
    <3>2. next' \in [Runs -> Nat \ {0}]
      BY <2>1 DEF Base, TypeOK
    <3>3. current' \in [Threads -> Update \cup {NoUpdate}]
      BY <2>1 DEF Base, TypeOK
    <3> QED
      BY <2>1, <2>2, <2>3, <3>1, <3>2, <3>3 DEF Base, TypeOK, Active
  <2>6. \A s \in Runs : pc'[s] = "idle" => next'[s] = 1
    BY <2>1 DEF Base, TypeOK
  <2>7. \A s \in Active' : next'[s] \in 1 .. Len(snapshot'[s]) /\ current'[s] \in Update
    BY <2>2, <2>4 DEF Base, Active
  <2> QED
    BY <2>2, <2>4, <2>5, <2>6, <2>7 DEF Base
<1> QED
  BY <1>2, <1>3

LEMMA DeleteBase ==
  ASSUME Base, NEW r \in Runs, Delete(r)
  PROVE  Base'
<1>1. /\ r \in Active /\ current[r] \in Update /\ current[r].uid \in Uids
      /\ current[r].uid # NoUid /\ r \in Threads
      /\ next[r] \in 1 .. Len(snapshot[r])
  BY Apart DEF Delete, Base, Active
<1>2. /\ header[r] \in Seq(EntryOf(Update)) /\ snapshot[r] \in Seq(EntryOf(Update))
      /\ Len(snapshot[r]) \in Nat /\ next[r] \in Nat
      /\ << >> \in Seq(EntryOf(Update))
  BY <1>1, Types, EmptySeq DEF Base, Delete
<1>3. queue' \in Seq(EntryOf(Update))
  <2>1. queue' = DeleteByUid(header[r], current[r].uid)
    BY DEF Delete, Removed
  <2>2. CASE header[r] = << >>
    BY <1>2, <2>1, <2>2 DEF DeleteByUid
  <2>3. CASE header[r] # << >>
    BY <1>1, <1>2, <2>1, <2>3, DeleteByUidTakesOne
  <2> QED
    BY <2>2, <2>3
<1>4. /\ shared' = {} /\ disturbed' = (disturbed \/ Inside # {r})
      /\ hashList' = [hashList EXCEPT ![current[r].uid] = current[r].n]
      /\ header' = [header EXCEPT ![r] = << >>]
      /\ UNCHANGED <<updates, failures, overlaps, overwrote>>
  BY DEF Delete, Disturbs
<1>5. /\ hashList' \in [Uids -> Nat] /\ disturbed' \in BOOLEAN
      /\ header' \in [Threads -> Seq(EntryOf(Update))]
  BY <1>1, <1>2, <1>4 DEF Base, TypeOK, Update
<1>6. CASE next[r] < Len(snapshot[r])
  <2>1. /\ next' = [next EXCEPT ![r] = next[r] + 1]
        /\ current' = [current EXCEPT ![r] = snapshot[r][next[r] + 1].update]
        /\ pc' = [pc EXCEPT ![r] = "send"]
        /\ snapshot' = snapshot
    BY <1>6 DEF Delete
  <2>2. next[r] + 1 \in 1 .. Len(snapshot[r]) /\ next[r] + 1 \in Nat \ {0}
    BY <1>1, <1>2, <1>6
  <2>3. snapshot[r][next[r] + 1].update \in Update
    BY <1>2, <2>2, EntryFields
  <2>4. TypeOK'
    <3>1. /\ pc' \in [Runs -> {"idle", "send", "delete", "add"}]
          /\ next' \in [Runs -> Nat \ {0}]
          /\ current' \in [Threads -> Update \cup {NoUpdate}]
      BY <2>1, <2>2, <2>3 DEF Base, TypeOK
    <3> QED
      BY <1>3, <1>4, <1>5, <2>1, <3>1 DEF Base, TypeOK
  <2>5. Active' = Active
    BY <1>1, <2>1 DEF Active, Base, TypeOK
  <2>6. \A s \in Runs : pc'[s] = "idle" => next'[s] = 1
    BY <1>1, <2>1 DEF Base, TypeOK
  <2>7. \A s \in Active : next'[s] \in 1 .. Len(snapshot'[s]) /\ current'[s] \in Update
    BY <2>1, <2>2, <2>3, Apart DEF Base, TypeOK, Active
  <2> QED
    BY <1>4, <2>4, <2>5, <2>6, <2>7 DEF Base
<1>7. CASE ~(next[r] < Len(snapshot[r]))
  <2>1. /\ next' = [next EXCEPT ![r] = 1]
        /\ current' = [current EXCEPT ![r] = NoUpdate]
        /\ pc' = [pc EXCEPT ![r] = "idle"]
        /\ snapshot' = [snapshot EXCEPT ![r] = << >>]
    BY <1>7 DEF Delete
  <2>2. TypeOK'
    <3>1. pc' \in [Runs -> {"idle", "send", "delete", "add"}]
      BY <2>1 DEF Base, TypeOK
    <3>2. next' \in [Runs -> Nat \ {0}]
      BY <2>1 DEF Base, TypeOK
    <3>3. current' \in [Threads -> Update \cup {NoUpdate}]
      BY <2>1 DEF Base, TypeOK
    <3>4. snapshot' \in [Runs -> Seq(EntryOf(Update))]
      BY <1>2, <2>1 DEF Base, TypeOK
    <3> QED
      BY <1>3, <1>4, <1>5, <3>1, <3>2, <3>3, <3>4 DEF Base, TypeOK
  <2>3. Active' = Active \ {r}
    BY <2>1 DEF Active, Base, TypeOK
  <2>4. \A s \in Runs : pc'[s] = "idle" => next'[s] = 1
    BY <2>1 DEF Base, TypeOK
  <2>5. \A s \in Active' : next'[s] \in 1 .. Len(snapshot'[s]) /\ current'[s] \in Update
    BY <2>1, <2>3 DEF Base, TypeOK, Active, Threads
  <2> QED
    BY <1>4, <2>2, <2>3, <2>4, <2>5 DEF Base
<1> QED
  BY <1>6, <1>7
-----------------------------------------------------------------------------
(* Calm: while nothing overlaps *)

Steady == Calm /\ QueueFollowsLoop /\ SentInv

LEMMA Vacuous == ASSUME disturbed' PROVE Steady'
  BY DEF Steady, Calm, QueueFollowsLoop, SentInv

\* What Steady says of a run that goes on, in the terms of the queue.
LEMMA LoopView ==
  ASSUME Base, Steady, ~disturbed, NEW r \in Active
  PROVE  /\ r \in Runs /\ Active = {r}
         /\ queue \in Seq(EntryOf(Update)) /\ Len(queue) \in Nat /\ Len(queue) >= 1
         /\ DOMAIN queue = 1 .. Len(queue)
         /\ snapshot[r] \in Seq(EntryOf(Update)) /\ Len(snapshot[r]) \in Nat
         /\ next[r] \in 1 .. Len(snapshot[r]) /\ next[r] \in Nat
         /\ current[r] = snapshot[r][next[r]].update
         /\ current[r] \in Update /\ current[r].uid \in Uids /\ current[r].uid # NoUid
         /\ Len(queue) >= Len(snapshot[r]) - next[r] + 1
         /\ queue[1].update.uid = current[r].uid
         /\ queue[1].update \in {current[r]} \cup overwrote
         /\ \A i \in next[r] .. Len(snapshot[r]) :
              /\ i - next[r] + 1 \in 1 .. Len(queue)
              /\ queue[i - next[r] + 1].update.uid = snapshot[r][i].update.uid
              /\ queue[i - next[r] + 1].update \in {snapshot[r][i].update} \cup overwrote
<1>1. r \in Runs /\ Active = {r}
  BY DEF Active, Steady, Calm
<1>2. /\ queue \in Seq(EntryOf(Update)) /\ Len(queue) \in Nat
      /\ DOMAIN queue = 1 .. Len(queue)
      /\ snapshot[r] \in Seq(EntryOf(Update)) /\ Len(snapshot[r]) \in Nat
  BY <1>1, Types DEF Base
<1>3. next[r] \in 1 .. Len(snapshot[r]) /\ next[r] \in Nat /\ current[r] \in Update
  BY <1>1, Types DEF Base
<1>4. current[r].uid \in Uids /\ current[r].uid # NoUid
  BY <1>3, Apart
<1>5. /\ Len(queue) >= Len(snapshot[r]) - next[r] + 1
      /\ \A i \in next[r] .. Len(snapshot[r]) :
           queue[i - next[r] + 1].update.uid = snapshot[r][i].update.uid
      /\ current[r].uid = snapshot[r][next[r]].update.uid
  BY DEF Steady, QueueFollowsLoop
<1>6. /\ current[r] = snapshot[r][next[r]].update
      /\ \A i \in next[r] .. Len(snapshot[r]) :
           queue[i - next[r] + 1].update \in {snapshot[r][i].update} \cup overwrote
  BY DEF Steady, SentInv
<1>7. \A i \in next[r] .. Len(snapshot[r]) : i - next[r] + 1 \in 1 .. Len(queue)
  BY <1>2, <1>3, <1>5
<1>8. next[r] \in next[r] .. Len(snapshot[r]) /\ next[r] - next[r] + 1 = 1
  BY <1>2, <1>3
<1>9. /\ queue[1].update.uid = current[r].uid
      /\ queue[1].update \in {current[r]} \cup overwrote
      /\ Len(queue) >= 1
  <2>1. queue[next[r] - next[r] + 1] = queue[1]
    BY <1>8
  <2>2. 1 \in 1 .. Len(queue)
    BY <1>7, <1>8
  <2>3. queue[1].update.uid = snapshot[r][next[r]].update.uid
    BY <1>5, <1>8, <2>1
  <2>4. queue[1].update \in {snapshot[r][next[r]].update} \cup overwrote
    BY <1>6, <1>8, <2>1
  <2> QED
    BY <1>2, <1>5, <1>6, <2>2, <2>3, <2>4
<1> QED
  BY <1>1, <1>2, <1>3, <1>4, <1>5, <1>6, <1>7, <1>9

LEMMA AddBeginSteady ==
  ASSUME Base, Steady, NEW u \in Uids, AddBegin(u)
  PROVE  Steady'
<1>1. /\ current' = [current EXCEPT ![u] = [uid |-> u, n |-> updates + 1]]
      /\ header' = [header EXCEPT ![u] = queue]
      /\ UNCHANGED <<queue, snapshot, shared, next, pc, overwrote, disturbed>>
  BY DEF AddBegin, runs
<1>2. /\ Active' = Active
      /\ \A r \in Runs : current'[r] = current[r] /\ header'[r] = header[r]
  BY <1>1, Apart DEF Active, Base, TypeOK
<1>3. ASSUME NEW t \in Inside'
      PROVE  header'[t] = queue \/ (t \in Inside /\ header'[t] = header[t])
  <2>1. t \in Threads
    BY DEF Inside, Threads
  <2>2. CASE t = u
    BY <1>1, <2>1, <2>2 DEF Base, TypeOK
  <2>3. CASE t # u
    <3>1. header'[t] = header[t] /\ current'[t] = current[t]
      BY <1>1, <2>1, <2>3 DEF Base, TypeOK
    <3>2. t \in Inside
      BY <1>1, <3>1 DEF Inside
    <3> QED
      BY <3>1, <3>2
  <2> QED
    BY <2>2, <2>3
<1>4. Calm'
  BY <1>1, <1>2, <1>3 DEF Steady, Calm
<1>5. QueueFollowsLoop'
  BY <1>1, <1>2 DEF Steady, QueueFollowsLoop, Active
<1>6. SentInv'
  BY <1>1, <1>2 DEF Steady, SentInv, Active
<1> QED
  BY <1>4, <1>5, <1>6 DEF Steady

LEMMA AddEndSteady ==
  ASSUME Base, Steady, NEW u \in Uids, AddEnd(u)
  PROVE  Steady'
<1>1. CASE disturbed'
  BY <1>1, Vacuous
<1>2. CASE ~disturbed'
  <2> DEFINE update == current[u]
             id     == GetByUid(queue, update.uid)
             place  == IF id > 0 THEN id + 1 ELSE Len(queue) + 1
             entry  == NewEntry(queue, update)
  <2>1. /\ Put(u, update, {}) /\ Disturbs(u)
        /\ current' = [current EXCEPT ![u] = NoUpdate]
        /\ UNCHANGED <<next, pc>>
    BY <1>2 DEF AddEnd, Panics
  <2>2. ~disturbed /\ Inside = {u}
    BY <1>2, <2>1 DEF Disturbs
  <2>3. header[u] = queue
    BY <2>2 DEF Steady, Calm
  <2>4. update \in Update /\ queue \in Seq(EntryOf(Update)) /\ Len(queue) \in Nat
    BY Apart, Types DEF AddEnd, Base, TypeOK
  <2>5. /\ Active' = Active
        /\ \A r \in Runs : current'[r] = current[r]
    BY <2>1, Apart DEF Active, Base, TypeOK
  <2>6. Inside' = {}
    BY <2>1, <2>2, Apart DEF Inside, Base, TypeOK
  <2>7. entry \in EntryOf(Update) /\ entry.update = update
    BY <2>4, NewEntryType
  <2>8. /\ id \in Nat /\ place \in Nat
        /\ id > 0 => place \in 2 .. Len(queue) /\ queue[place].update.uid = update.uid
        /\ ~(id > 0) => place = Len(queue) + 1
        /\ id > 0 => Add(queue, update) = ReplaceAt(queue, place, entry)
        /\ id > 0 => Add(queue, update)[place] = entry
        /\ \A i \in 1 .. Len(queue) : i # place => Add(queue, update)[i] = queue[i]
    BY <2>4, AddPlace
  <2>9. /\ queue' = Add(queue, update)
        /\ shared' \subseteq shared
        /\ id > 0 => shared' = shared
        /\ overwrote' = IF id > 0 /\ ~(Active \subseteq shared)
                        THEN overwrote \cup {update} ELSE overwrote
        /\ \A r \in Runs : r \in shared' => snapshot'[r] = Written(snapshot[r], place, entry)
        /\ \A r \in Runs : r \notin shared' => snapshot'[r] = snapshot[r]
    <3>1. /\ queue' = IF id > 0 THEN ReplaceAt(queue, place, entry) ELSE Add(queue, update)
          /\ overwrote' = IF id > 0 /\ ~((Active \ {}) \subseteq shared)
                          THEN overwrote \cup {update} ELSE overwrote
          /\ shared' \in IF id > 0 THEN {shared \ {}}
                         ELSE IF queue = queue THEN {shared \ {}, {}}
                         ELSE SUBSET (Active \ {})
          /\ snapshot' = [r \in Runs |->
               IF r \in {} THEN << >>
               ELSE IF r \in shared' THEN Written(snapshot[r], place, entry)
               ELSE snapshot[r]]
      BY <2>1, <2>3 DEF Put
    <3> HIDE DEF id, place, entry, update
    <3>2. queue' = Add(queue, update)
      BY <2>8, <3>1
    <3> QED
      BY <3>1, <3>2
  <2>10. /\ Len(queue') \in Nat /\ Len(queue') >= Len(queue)
         /\ \A i \in 1 .. Len(queue) : queue'[i].update.uid = queue[i].update.uid
    BY <2>4, <2>9, AddPositions
  <2> HIDE DEF id, place, entry, update
  <2>11. Calm'
    BY <2>1, <2>2, <2>5, <2>6, <2>9 DEF Steady, Calm
  <2>12. ASSUME NEW r \in Active
         PROVE  /\ next[r] \in 1 .. Len(snapshot'[r])
                /\ Len(snapshot'[r]) = Len(snapshot[r])
                /\ current[r].uid = snapshot'[r][next[r]].update.uid
                /\ current[r] = snapshot'[r][next[r]].update
                /\ Len(queue') >= Len(snapshot[r]) - next[r] + 1
                /\ \A i \in next[r] .. Len(snapshot[r]) :
                     /\ queue'[i - next[r] + 1].update.uid = snapshot'[r][i].update.uid
                     /\ queue'[i - next[r] + 1].update
                          \in {snapshot'[r][i].update} \cup overwrote'
                /\ r \in shared' => queue'[1].update = current[r]
    <3>1. /\ r \in Runs /\ Len(queue) >= 1
          /\ Active = {r}
          /\ snapshot[r] \in Seq(EntryOf(Update)) /\ Len(snapshot[r]) \in Nat
          /\ next[r] \in 1 .. Len(snapshot[r]) /\ next[r] \in Nat
          /\ current[r] = snapshot[r][next[r]].update
          /\ Len(queue) >= Len(snapshot[r]) - next[r] + 1
      BY <2>2, <2>12, LoopView
    <3>2. \A i \in next[r] .. Len(snapshot[r]) :
            /\ i - next[r] + 1 \in 1 .. Len(queue)
            /\ queue[i - next[r] + 1].update.uid = snapshot[r][i].update.uid
            /\ queue[i - next[r] + 1].update \in {snapshot[r][i].update} \cup overwrote
      BY <2>2, <2>12, LoopView
    <3>3. DOMAIN snapshot[r] = 1 .. Len(snapshot[r])
      BY <3>1, LenProperties
    <3>4. CASE r \in shared'
      <4>1. next[r] = 1 /\ queue[1].update = current[r]
        BY <2>2, <2>9, <2>12, <3>4 DEF Steady, Calm, SentInv
      <4>2. snapshot'[r] = Written(snapshot[r], place, entry)
        BY <2>9, <3>1, <3>4
      <4>3. Len(snapshot'[r]) = Len(snapshot[r])
        BY <2>7, <2>8, <3>1, <4>2, WrittenAt
      <4>4. \A i \in 1 .. Len(snapshot[r]) : i # place => snapshot'[r][i] = snapshot[r][i]
        <5>1. \A i \in DOMAIN snapshot[r] : i # place =>
                Written(snapshot[r], place, entry)[i] = snapshot[r][i]
          BY <2>7, <2>8, <3>1, WrittenAt
        <5> QED
          BY <3>3, <4>2, <5>1
      <4>5. place \in 1 .. Len(snapshot[r]) => snapshot'[r][place] = entry
        <5>1. place \in DOMAIN snapshot[r] => Written(snapshot[r], place, entry)[place] = entry
          BY <2>7, <2>8, <3>1, WrittenAt
        <5> QED
          BY <3>3, <4>2, <5>1
      <4>6. place # 1
        BY <2>4, <2>8, <3>1
      <4>7. queue'[1] = queue[1] /\ snapshot'[r][1] = snapshot[r][1]
        BY <2>4, <2>8, <2>9, <3>1, <4>1, <4>4, <4>6
      <4>8. ASSUME NEW i \in 1 .. Len(snapshot[r])
            PROVE  /\ queue'[i].update.uid = snapshot'[r][i].update.uid
                   /\ queue'[i].update \in {snapshot'[r][i].update} \cup overwrote'
        <5>1. /\ i - 1 + 1 = i /\ i \in 1 .. Len(queue)
              /\ queue[i].update.uid = snapshot[r][i].update.uid
              /\ queue[i].update \in {snapshot[r][i].update} \cup overwrote
          BY <3>1, <3>2, <4>1
        <5>2. CASE i # place
          <6>1. queue'[i] = queue[i] /\ snapshot'[r][i] = snapshot[r][i]
            BY <2>8, <2>9, <4>4, <5>1, <5>2
          <6>2. overwrote \subseteq overwrote'
            BY <2>9
          <6> QED
            BY <5>1, <6>1, <6>2
        <5>3. CASE i = place
          <6>1. id > 0
            BY <2>4, <2>8, <5>1, <5>3
          <6>2. queue'[i] = entry /\ snapshot'[r][i] = entry
            BY <2>8, <2>9, <4>5, <5>3, <6>1
          <6> QED
            BY <6>2
        <5> QED
          BY <5>2, <5>3
      <4>9. \A i \in next[r] .. Len(snapshot[r]) : i - next[r] + 1 = i
        BY <3>1, <4>1
      <4> QED
        BY <2>10, <3>1, <4>1, <4>3, <4>7, <4>8, <4>9
    <3>5. CASE r \notin shared'
      <4>1. snapshot'[r] = snapshot[r]
        BY <2>9, <3>1, <3>5
      <4>2. /\ overwrote \subseteq overwrote'
            /\ id > 0 => update \in overwrote'
        BY <2>9, <3>1, <3>5
      <4>3. ASSUME NEW i \in next[r] .. Len(snapshot[r])
            PROVE  /\ queue'[i - next[r] + 1].update.uid = snapshot[r][i].update.uid
                   /\ queue'[i - next[r] + 1].update
                        \in {snapshot[r][i].update} \cup overwrote'
        <5> DEFINE k == i - next[r] + 1
        <5>1. /\ k \in 1 .. Len(queue)
              /\ queue[k].update.uid = snapshot[r][i].update.uid
              /\ queue[k].update \in {snapshot[r][i].update} \cup overwrote
          BY <3>2
        <5> HIDE DEF k
        <5>2. queue'[k].update.uid = snapshot[r][i].update.uid
          BY <2>10, <5>1
        <5>3. CASE k # place
          BY <2>8, <2>9, <4>2, <5>1, <5>2, <5>3 DEF k
        <5>4. CASE k = place
          <6>1. id > 0
            BY <2>4, <2>8, <5>1, <5>4
          <6>2. queue'[k].update = update
            BY <2>7, <2>8, <2>9, <5>4, <6>1
          <6> QED
            BY <4>2, <5>2, <6>1, <6>2 DEF k
        <5> QED
          BY <5>3, <5>4
      <4>4. Len(queue') >= Len(snapshot[r]) - next[r] + 1
        BY <2>4, <2>10, <3>1
      <4> QED
        BY <3>1, <3>5, <4>1, <4>3, <4>4
    <3> QED
      BY <3>4, <3>5
  <2>13. \A r \in Active : r \in Runs
    BY DEF Active
  <2>14. QueueFollowsLoop'
    BY <2>1, <2>5, <2>12, <2>13 DEF QueueFollowsLoop
  <2>15. SentInv'
    BY <2>1, <2>5, <2>12, <2>13 DEF SentInv
  <2> QED
    BY <2>11, <2>14, <2>15 DEF Steady
<1> QED
  BY <1>1, <1>2

LEMMA SchedulerSteady ==
  ASSUME Base, Steady, NEW r \in Runs, RunWorkqueScheduler(r), NeedToRun(queue)
  PROVE  Steady'
<1>1. CASE disturbed'
  BY <1>1, Vacuous
<1>2. CASE ~disturbed'
  <2>1. /\ pc[r] = "idle" /\ Active = {}
        /\ disturbed' = (disturbed /\ Inside # {})
        /\ overwrote' = {}
        /\ snapshot' = [snapshot EXCEPT ![r] = queue]
        /\ shared' = shared \cup {r}
        /\ current' = [current EXCEPT ![r] = queue[1].update]
        /\ pc' = [pc EXCEPT ![r] = "send"]
        /\ UNCHANGED <<queue, next, header>>
    BY <1>2 DEF RunWorkqueScheduler
  <2>2. queue \in Seq(EntryOf(Update)) /\ Len(queue) \in Nat /\ Len(queue) > 0
    BY Types DEF Base, NeedToRun
  <2>3. /\ Active' = {r}
        /\ next'[r] = 1 /\ snapshot'[r] = queue /\ current'[r] = queue[1].update
    BY <2>1, Apart DEF Active, Base, TypeOK
  <2>4. Inside' = Inside
    BY <2>1, Apart DEF Inside, Base, TypeOK
  <2>5. shared' = {r}
    BY <2>1 DEF Base
  <2>6. \A t \in Inside : header[t] = queue
    BY <1>2, <2>1 DEF Steady, Calm
  <2>7. Calm'
    BY <2>1, <2>3, <2>4, <2>5, <2>6 DEF Calm
  <2>8. \A i \in 1 .. Len(queue) : i - 1 + 1 = i
    BY <2>2
  <2>9. 1 \in 1 .. Len(queue) /\ Len(queue) >= Len(queue) - 1 + 1
    BY <2>2
  <2>10. QueueFollowsLoop'
    BY <2>1, <2>3, <2>8, <2>9 DEF QueueFollowsLoop
  <2>11. SentInv'
    BY <2>1, <2>3, <2>8, <2>9 DEF SentInv
  <2> QED
    BY <2>7, <2>10, <2>11 DEF Steady
<1> QED
  BY <1>1, <1>2

LEMMA ResendSteady ==
  ASSUME Base, Steady, NEW r \in Runs, NEW ok \in BOOLEAN, Resend(r, ok)
  PROVE  Steady'
<1>1. /\ pc[r] = "send"
      /\ pc' = [pc EXCEPT ![r] = IF ok THEN "delete" ELSE "add"]
      /\ header' = [header EXCEPT ![r] = queue]
      /\ UNCHANGED <<queue, snapshot, shared, next, current, overwrote, disturbed>>
  BY DEF Resend
<1>2. Active' = Active
  BY ResendBase
<1>3. ASSUME NEW t \in Inside'
      PROVE  header'[t] = queue \/ (t \in Inside /\ header'[t] = header[t])
  <2>1. t \in Threads
    BY DEF Inside, Threads
  <2>2. CASE t = r
    BY <1>1, <2>1, <2>2 DEF Base, TypeOK
  <2>3. CASE t # r
    <3>1. header'[t] = header[t]
      BY <1>1, <2>1, <2>3 DEF Base, TypeOK
    <3>2. t \in Inside
      BY <1>1, <2>3 DEF Inside, Base, TypeOK
    <3> QED
      BY <3>1, <3>2
  <2> QED
    BY <2>2, <2>3
<1>4. Calm'
  BY <1>1, <1>2, <1>3 DEF Steady, Calm
<1>5. QueueFollowsLoop'
  BY <1>1, <1>2 DEF Steady, QueueFollowsLoop
<1>6. SentInv'
  BY <1>1, <1>2 DEF Steady, SentInv
<1> QED
  BY <1>4, <1>5, <1>6 DEF Steady

\* A send that fails ends the only run there is.
LEMMA RequeueSteady ==
  ASSUME Base, Steady, NEW r \in Runs, Requeue(r)
  PROVE  Steady'
<1>1. CASE disturbed'
  BY <1>1, Vacuous
<1>2. CASE ~disturbed'
  <2>1. /\ pc[r] = "add" /\ Put(r, current[r], {r}) /\ Disturbs(r)
        /\ pc' = [pc EXCEPT ![r] = "idle"]
        /\ current' = [current EXCEPT ![r] = NoUpdate]
    BY <1>2 DEF Requeue, Panics
  <2>2. ~disturbed /\ Inside = {r}
    BY <1>2, <2>1 DEF Disturbs
  <2>3. Active = {r}
    BY <2>1, <2>2 DEF Steady, Calm, Active
  <2>4. Active' = {}
    BY <1>2, <2>3, RequeueBase
  <2>5. Inside' = {}
    BY <2>1, <2>2, Apart DEF Inside, Base, TypeOK
  <2>6. shared' = {}
    BY <2>4, RequeueBase DEF Base
  <2> QED
    BY <2>4, <2>5, <2>6 DEF Steady, Calm, QueueFollowsLoop, SentInv
<1> QED
  BY <1>1, <1>2

\* The heart of it: DeleteByUid takes the head.
LEMMA DeleteTakesHead ==
  ASSUME Base, Steady, NEW r \in Runs, Delete(r), ~disturbed'
  PROVE  /\ ~disturbed /\ Inside = {r}
         /\ r \in Active
         /\ queue' = Tail(queue)
         /\ queue' \in Seq(EntryOf(Update)) /\ Len(queue') \in Nat
         /\ Len(queue') = Len(queue) - 1
         /\ \A i \in 1 .. Len(queue') : queue'[i] = queue[i + 1]
<1>1. ~disturbed /\ Inside = {r} /\ r \in Active
  BY DEF Delete, Disturbs, Active
<1>2. header[r] = queue
  BY <1>1 DEF Steady, Calm
<1>3. /\ queue \in Seq(EntryOf(Update)) /\ Len(queue) \in Nat /\ Len(queue) >= 1
      /\ queue[1].update.uid = current[r].uid /\ current[r].uid # NoUid
  BY <1>1, LoopView
<1>4. queue # << >>
  BY <1>3
<1>5. queue' = Tail(queue)
  BY <1>2, <1>3, <1>4, DeleteByUidOfFirst DEF Delete, Removed
<1>6. /\ queue' \in Seq(EntryOf(Update))
      /\ Len(queue') = Len(queue) - 1
      /\ \A i \in 1 .. Len(queue') : queue'[i] = queue[i + 1]
  BY <1>3, <1>4, <1>5, HeadTailProperties
<1> QED
  BY <1>1, <1>3, <1>5, <1>6

LEMMA DeleteSteady ==
  ASSUME Base, Steady, NEW r \in Runs, Delete(r)
  PROVE  Steady'
<1>1. CASE disturbed'
  BY <1>1, Vacuous
<1>2. CASE ~disturbed'
  <2>1. /\ ~disturbed /\ Inside = {r} /\ r \in Active
        /\ Len(queue') \in Nat /\ Len(queue') = Len(queue) - 1
        /\ \A i \in 1 .. Len(queue') : queue'[i] = queue[i + 1]
    BY <1>2, DeleteTakesHead
  <2>2. /\ Active = {r} /\ Len(queue) \in Nat
        /\ Len(snapshot[r]) \in Nat /\ next[r] \in Nat
        /\ next[r] \in 1 .. Len(snapshot[r])
        /\ Len(queue) >= Len(snapshot[r]) - next[r] + 1
        /\ \A i \in next[r] .. Len(snapshot[r]) :
             /\ queue[i - next[r] + 1].update.uid = snapshot[r][i].update.uid
             /\ queue[i - next[r] + 1].update \in {snapshot[r][i].update} \cup overwrote
    BY <2>1, LoopView
  <2>3. shared' = {} /\ overwrote' = overwrote
    BY DEF Delete
  <2>4. CASE next[r] < Len(snapshot[r])
    <3>1. /\ next' = [next EXCEPT ![r] = next[r] + 1]
          /\ current' = [current EXCEPT ![r] = snapshot[r][next[r] + 1].update]
          /\ pc' = [pc EXCEPT ![r] = "send"]
          /\ snapshot' = snapshot
      BY <2>4 DEF Delete
    <3>2. Active' = {r}
      BY <2>1, <2>2, <3>1 DEF Active, Base, TypeOK
    <3>3. Inside' = {}
      BY <2>1, <3>1, Apart DEF Inside, Base, TypeOK
    <3>4. next'[r] = next[r] + 1 /\ current'[r] = snapshot[r][next[r] + 1].update
      BY <3>1, Apart DEF Base, TypeOK
    <3>5. /\ next[r] + 1 \in 1 .. Len(snapshot[r])
          /\ Len(queue') >= Len(snapshot[r]) - (next[r] + 1) + 1
      BY <2>1, <2>2, <2>4
    <3>6. ASSUME NEW i \in (next[r] + 1) .. Len(snapshot[r])
          PROVE  queue'[i - (next[r] + 1) + 1] = queue[i - next[r] + 1]
                 /\ i \in next[r] .. Len(snapshot[r])
      <4>1. i - (next[r] + 1) + 1 \in 1 .. Len(queue') /\ i \in next[r] .. Len(snapshot[r])
        BY <2>1, <2>2
      <4>2. (i - (next[r] + 1) + 1) + 1 = i - next[r] + 1
        BY <2>2, <4>1
      <4> QED
        BY <2>1, <4>1, <4>2
    <3>7. Calm'
      BY <2>3, <3>2, <3>3 DEF Calm
    <3>a. ASSUME NEW i \in (next[r] + 1) .. Len(snapshot[r])
          PROVE  /\ queue'[i - (next[r] + 1) + 1].update.uid = snapshot[r][i].update.uid
                 /\ queue'[i - (next[r] + 1) + 1].update
                      \in {snapshot[r][i].update} \cup overwrote
      BY <2>2, <3>6
    <3>8. QueueFollowsLoop'
      <4> SUFFICES /\ next'[r] \in 1 .. Len(snapshot'[r])
                   /\ current'[r].uid = snapshot'[r][next'[r]].update.uid
                   /\ Len(queue') >= Len(snapshot'[r]) - next'[r] + 1
                   /\ \A i \in next'[r] .. Len(snapshot'[r]) :
                        queue'[i - next'[r] + 1].update.uid = snapshot'[r][i].update.uid
        BY <3>2 DEF QueueFollowsLoop
      <4> QED
        BY <3>1, <3>4, <3>5, <3>a
    <3>9. SentInv'
      <4> SUFFICES /\ current'[r] = snapshot'[r][next'[r]].update
                   /\ \A i \in next'[r] .. Len(snapshot'[r]) :
                        queue'[i - next'[r] + 1].update
                          \in {snapshot'[r][i].update} \cup overwrote'
        BY <2>3, <3>2 DEF SentInv
      <4> QED
        BY <2>3, <3>1, <3>4, <3>a
    <3> QED
      BY <3>7, <3>8, <3>9 DEF Steady
  <2>5. CASE ~(next[r] < Len(snapshot[r]))
    <3>1. /\ pc' = [pc EXCEPT ![r] = "idle"]
          /\ current' = [current EXCEPT ![r] = NoUpdate]
      BY <2>5 DEF Delete
    <3>2. Active' = {}
      BY <2>2, <3>1 DEF Active, Base, TypeOK
    <3>3. Inside' = {}
      BY <2>1, <3>1, Apart DEF Inside, Base, TypeOK
    <3> QED
      BY <2>3, <3>2, <3>3 DEF Steady, Calm, QueueFollowsLoop, SentInv
  <2> QED
    BY <2>4, <2>5
<1> QED
  BY <1>1, <1>2

LEMMA UnchangedStep ==
  ASSUME Base, Steady, UNCHANGED vars
  PROVE  Base' /\ Steady'
<1>1. UNCHANGED <<queue, snapshot, shared, next, pc, current, header, hashList, updates,
                  failures, overlaps, overwrote, disturbed>>
  BY DEF vars, runs
<1>2. Active' = Active /\ Inside' = Inside
  BY <1>1 DEF Active, Inside
<1> QED
  BY <1>1, <1>2 DEF Base, TypeOK, Steady, Calm, QueueFollowsLoop, SentInv

LEMMA NextStep ==
  ASSUME Base, Steady, [Next]_vars
  PROVE  Base' /\ Steady'
<1>1. ASSUME NEW r \in Runs, RunWorkqueScheduler(r) PROVE Base' /\ Steady'
  <2>1. CASE NeedToRun(queue)
    BY <1>1, <2>1, SchedulerBase, SchedulerSteady
  <2>2. CASE ~NeedToRun(queue)
    BY <1>1, <2>2, UnchangedStep DEF RunWorkqueScheduler
  <2> QED
    BY <2>1, <2>2
<1>2. ASSUME NEW r \in Runs, NEW ok \in BOOLEAN, Resend(r, ok) PROVE Base' /\ Steady'
  BY <1>2, ResendBase, ResendSteady
<1>3. ASSUME NEW r \in Runs, Requeue(r) PROVE Base' /\ Steady'
  BY <1>3, RequeueBase, RequeueSteady
<1>4. ASSUME NEW r \in Runs, Delete(r) PROVE Base' /\ Steady'
  BY <1>4, DeleteBase, DeleteSteady
<1>5. ASSUME NEW u \in Uids, AddBegin(u) PROVE Base' /\ Steady'
  BY <1>5, AddBeginBase, AddBeginSteady
<1>6. ASSUME NEW u \in Uids, AddEnd(u) PROVE Base' /\ Steady'
  BY <1>6, AddEndBase, AddEndSteady
<1>7. CASE UNCHANGED vars
  BY <1>7, UnchangedStep
<1> QED
  BY <1>1, <1>2, <1>3, <1>4, <1>5, <1>6, <1>7 DEF Next, Runner
-----------------------------------------------------------------------------
\* Every reachable state satisfies the inductive invariant.
THEOREM Invariance == Spec => [](IInv /\ SentInv)
<1>1. Init => Base /\ Steady
  BY InitBase DEF Steady
<1>2. Base /\ Steady /\ [Next]_vars => (Base /\ Steady)'
  BY NextStep
<1>3. Base /\ Steady => IInv /\ SentInv
  BY DEF Steady, IInv
<1> QED
  BY <1>1, <1>2, <1>3, PTL DEF Spec

\* The queue, the slices that are read and the loops keep their types,
\* whatever overlaps.  (RunWorkQue, Add, DeleteByUid)
THEOREM TypeCorrect == Spec => []TypeOK
<1>1. IInv => TypeOK
  BY DEF IInv, Base
<1> QED
  BY <1>1, Invariance, PTL

\* As long as runs and stores do not overlap, the loop finds the entries it
\* has yet to send at the head of the queue, in its order, whatever watchers
\* add between its steps.  (RunWorkQue, Add, DeleteByUid)
THEOREM LoopOwnsHead == Spec => []QueueFollowsLoop
<1>1. IInv => QueueFollowsLoop
  BY DEF IInv
<1> QED
  BY <1>1, Invariance, PTL

LEMMA DropStep ==
  ASSUME IInv, SentInv, [Next]_vars, NEW r \in Runs,
         pc[r] = "delete", pc'[r] # "delete", ~disturbed'
  PROVE  Held(queue) \ Held(queue') \subseteq {current[r]} \cup overwrote
<1> USE DEF IInv
<1>1. Base /\ Steady
  BY DEF Steady
<1>2. Delete(r)
  <2>1. pc # pc'
    OBVIOUS
  <2>2. ASSUME NEW s \in Runs, RunWorkqueScheduler(s) PROVE FALSE
    BY <2>2, <2>1, <1>1 DEF RunWorkqueScheduler, vars, runs, Base, TypeOK
  <2>3. ASSUME NEW s \in Runs, NEW ok \in BOOLEAN, Resend(s, ok) PROVE FALSE
    BY <2>3, <1>1 DEF Resend, Base, TypeOK
  <2>4. ASSUME NEW s \in Runs, Requeue(s) PROVE FALSE
    BY <2>4, <1>1 DEF Requeue, Panics, Base, TypeOK
  <2>5. ASSUME NEW u \in Uids, AddBegin(u) \/ AddEnd(u) PROVE FALSE
    BY <2>5, <2>1 DEF AddBegin, AddEnd, Panics, runs
  <2>6. ASSUME NEW s \in Runs, Delete(s) PROVE s = r
    BY <2>6, <1>1 DEF Delete, Base, TypeOK
  <2>7. ~UNCHANGED vars
    BY <2>1 DEF vars, runs
  <2> QED
    BY <2>2, <2>3, <2>4, <2>5, <2>6, <2>7 DEF Next, Runner
<1>3. /\ ~disturbed /\ r \in Active
      /\ queue' \in Seq(EntryOf(Update)) /\ Len(queue') \in Nat
      /\ Len(queue') = Len(queue) - 1
      /\ \A i \in 1 .. Len(queue') : queue'[i] = queue[i + 1]
  BY <1>1, <1>2, DeleteTakesHead
<1>4. /\ Len(queue) \in Nat /\ DOMAIN queue = 1 .. Len(queue)
      /\ queue[1].update \in {current[r]} \cup overwrote
  BY <1>1, <1>3, LoopView
<1>5. DOMAIN queue' = 1 .. Len(queue')
  BY <1>3, LenProperties
<1>6. ASSUME NEW e \in Held(queue), e \notin Held(queue')
      PROVE  e \in {current[r]} \cup overwrote
  <2>1. PICK i \in 1 .. Len(queue) : e = queue[i].update
    BY <1>4 DEF Held
  <2>2. CASE i = 1
    BY <1>4, <2>1, <2>2
  <2>3. CASE i # 1
    <3>1. i - 1 \in 1 .. Len(queue') /\ (i - 1) + 1 = i
      BY <1>3, <1>4, <2>1, <2>3
    <3>2. queue'[i - 1] = queue[i]
      BY <1>3, <3>1
    <3>3. e \in Held(queue')
      BY <1>5, <2>1, <3>1, <3>2 DEF Held
    <3> QED
      BY <1>6, <3>3
  <2> QED
    BY <2>2, <2>3
<1> QED
  BY <1>6

\* What a run takes out is the update it has just sent or one that replaced an
\* entry of which the run held a copy, as long as neither runs nor stores have
\* overlapped: there is no other way to lose an update.
\* (RunWorkQue, Add, DeleteByUid)
THEOREM DropsOnlyTheOverwritten == Spec => DropsOnlyOverwrites
<1>1. IInv /\ SentInv /\ [Next]_vars =>
        [\A r \in Runs : pc[r] = "delete" /\ pc'[r] # "delete" /\ ~disturbed' =>
           Held(queue) \ Held(queue') \subseteq {current[r]} \cup overwrote]_vars
  BY DropStep
<1> QED
  BY <1>1, Invariance, PTL DEF Spec, DropsOnlyOverwrites
=============================================================================
