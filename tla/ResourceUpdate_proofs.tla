----------------------- MODULE ResourceUpdate_proofs -----------------------
(***************************************************************************)
(* Proofs about ResourceUpdate, for every set of kinds and of resources,   *)
(* every number of changes and of restarts.                                *)
(*                                                                         *)
(* QuiescentAgreement is not inductive: it says nothing while an event of  *)
(* the uid is on its way.  IInv follows an event through the agent.        *)
(***************************************************************************)
EXTENDS ResourceUpdate, WorkQueue_proofs

\* The update brings ROR to the state the object is in.
Agrees(u, update) ==
  \/ live[u] \in Hashes /\ update.action # "Delete" /\ update.hash = live[u]
  \/ live[u] = Gone /\ update.action = "Delete"

\* The events of u are about u, a deletion is the last of them, and the last
\* of them says how u is now.
FeedInv ==
  \A u \in Uids :
    /\ \A i \in DOMAIN feed[u] :
         /\ feed[u][i].uid = u
         /\ feed[u][i].action # "Delete" => feed[u][i].hash \in Hashes
         /\ i < Len(feed[u]) => feed[u][i].action # "Delete"
    /\ feed[u] # << >> => Agrees(u, feed[u][Len(feed[u])])

\* The same of the update a watcher has in hand, which is of its own kind.
CurrentInv ==
  \A g \in Gvrs : pc[g] # "idle" =>
    LET u == current[g].uid IN
    /\ current[g] \in Update
    /\ GvrOf[u] = g
    /\ current[g].action # "Delete" => current[g].hash \in Hashes
    /\ current[g].action = "Delete" => feed[u] = << >>
    /\ feed[u] = << >> => Agrees(u, current[g])
    /\ pc[g] \in {"mark", "check", "hash"} => current[g].action # "Delete"
    /\ pc[g] \in {"add", "write"} => u \in failed
    /\ pc[g] = "hash" =>
         ror[u] = current[g].hash \/ u \in late \/ live[u] = Gone

\* What is not there yet is nowhere.
UnbornInv ==
  \A u \in Uids : live[u] = Unborn =>
    /\ ror[u] = NoHash
    /\ hashList[u].hash = NoHash
    /\ feed[u] = << >>
    /\ \A g \in Gvrs : ~Busy(g, u)

\* A watcher has found the period on and is about to mark u.
Marking(u) == \E g \in Gvrs : pc[g] = "mark" /\ current[g].uid = u

\* The cleanup: what it is about to delete was alive when it chose it, or is
\* gone; and what was to be marked is, or will be with the watcher's next step.
SweepInv ==
  /\ cleanupRunning <=> sweep = "scheduled"
  /\ sweep # "delete" => inactive = {}
  /\ \A u \in inactive : u \in late \/ live[u] = Gone
  /\ marked \cap inactive \subseteq slipped
  /\ \A u \in marked : hashList[u].hash = NoHash \/ hashList[u].active \/ Marking(u)

\* The hash list is right about ROR, but for what went wrong or is under way.
HashInv ==
  \A u \in Uids :
    hashList[u].hash # NoHash /\ live[u] # Gone =>
      \/ ror[u] = hashList[u].hash
      \/ u \in failed \cup late
      \/ \E g \in Gvrs : pc[g] = "hash" /\ current[g].uid = u

Resting(u) == feed[u] = << >> /\ \A g \in Gvrs : ~Busy(g, u)

\* An object at rest is in ROR as it is in the cluster ...
LiveInv ==
  \A u \in Uids : Resting(u) /\ live[u] \in Hashes =>
    ror[u] = live[u] \/ u \in failed \cup late \cup unconverted

\* ... and a deleted one is not, or the cleanup has yet to come for it.
GoneInv ==
  \A u \in Uids : Resting(u) /\ live[u] = Gone =>
    \/ ror[u] = NoHash
    \/ Explained(u)
    \/ u \in inactive
    \/ /\ sweep \in {"scheduled", "collect"}
       /\ hashList[u].hash # NoHash
       /\ ~hashList[u].active

IInv ==
  /\ TypeOK /\ FeedInv /\ CurrentInv /\ UnbornInv /\ SweepInv
  /\ HashInv /\ LiveInv /\ GoneInv
-----------------------------------------------------------------------------
(* Type correctness *)

LEMMA ListingType ==
  ASSUME NEW u \in Uids
  PROVE  Listing(u) \in Seq(Update)
<1>1. CASE live[u] \in Hashes
  <2> DEFINE e == [uid |-> u, action |-> "Add", hash |-> live[u]]
  <2>1. e \in Update
    BY <1>1 DEF Update, Actions
  <2>2. Listing(u) = << e >>
    BY <1>1 DEF Listing
  <2> HIDE DEF e
  <2> QED
    BY <2>1, <2>2
<1>2. CASE live[u] \notin Hashes
  BY <1>2 DEF Listing
<1> QED
  BY <1>1, <1>2

\* The history variables that IInv mentions.
causes == <<failed, unswept, late, missed, marked, slipped, unconverted>>

LEMMA InitType == ASSUME ConstantsAssumption, Init PROVE TypeOK
<1>1. feed \in [Uids -> Seq(Update)]
  BY ListingType DEF Init
<1>2. hashList \in [Uids -> [hash : Hashes \cup {NoHash}, active : BOOLEAN]]
  BY DEF Init, GetHashList
<1>3. workqueue \in Seq(EntryOf(Update)) /\ header \in [Gvrs -> Seq(EntryOf(Update))]
  BY DEF Init
<1>4. /\ pc \in [Gvrs -> {"idle", "mark", "check", "send", "hash", "add", "write"}]
      /\ current \in [Gvrs -> Update \cup {NoUpdate}]
      /\ changes \in 0 .. MaxChanges /\ restarts \in 0 .. MaxRestarts
  BY DEF Init, ConstantsAssumption
<1> QED
  BY <1>1, <1>2, <1>3, <1>4 DEF Init, TypeOK

LEMMA BootType == ASSUME TypeOK, Boot, restarts' \in 0 .. MaxRestarts PROVE TypeOK'
<1>1. feed' \in [Uids -> Seq(Update)]
  BY ListingType DEF Boot
<1>2. hashList' \in [Uids -> [hash : Hashes \cup {NoHash}, active : BOOLEAN]]
  BY DEF Boot, GetHashList, TypeOK
<1>3. workqueue' \in Seq(EntryOf(Update)) /\ header' \in [Gvrs -> Seq(EntryOf(Update))]
  BY DEF Boot
<1>4. /\ pc' \in [Gvrs -> {"idle", "mark", "check", "send", "hash", "add", "write"}]
      /\ current' \in [Gvrs -> Update \cup {NoUpdate}]
  BY DEF Boot
<1> QED
  BY <1>1, <1>2, <1>3, <1>4 DEF Boot, TypeOK

\* A watcher that is not idle has an update of its own in hand.
HasCurrent == \A g \in Gvrs : pc[g] # "idle" => current[g] \in Update

LEMMA EnvironmentType ==
  ASSUME ConstantsAssumption, TypeOK, Environment
  PROVE  TypeOK'
<1>1. ASSUME NEW u \in Uids, NEW h \in Hashes, ClusterChange(u, h) PROVE TypeOK'
  <2> DEFINE e == [uid    |-> u,
                   action |-> IF live[u] = Unborn THEN "Add" ELSE "Update",
                   hash   |-> h]
  <2>1. e \in Update
    BY DEF Update, Actions
  <2> HIDE DEF e
  <2>2. Append(feed[u], e) \in Seq(Update)
    BY <2>1, AppendProperties DEF TypeOK
  <2>3. feed' = [feed EXCEPT ![u] = Append(feed[u], e)]
    BY <1>1 DEF ClusterChange, e
  <2>4. feed' \in [Uids -> Seq(Update)]
    BY <2>2, <2>3 DEF TypeOK
  <2>5. changes' \in 0 .. MaxChanges
    BY <1>1 DEF ClusterChange, TypeOK, ConstantsAssumption
  <2> QED
    BY <1>1, <2>4, <2>5 DEF ClusterChange, TypeOK, cache, sending, sweeper, history
<1>2. ASSUME NEW u \in Uids, ClusterDelete(u) PROVE TypeOK'
  <2> DEFINE e == [uid |-> u, action |-> "Delete", hash |-> live[u]]
  <2>1. e \in Update
    BY <1>2 DEF ClusterDelete, Update, Actions
  <2> HIDE DEF e
  <2>2. Append(feed[u], e) \in Seq(Update)
    BY <2>1, AppendProperties DEF TypeOK
  <2>3. feed' = [feed EXCEPT ![u] = Append(feed[u], e)]
    BY <1>2 DEF ClusterDelete, e
  <2>4. feed' \in [Uids -> Seq(Update)]
    BY <2>2, <2>3 DEF TypeOK
  <2>5. changes' \in 0 .. MaxChanges
    BY <1>2 DEF ClusterDelete, TypeOK, ConstantsAssumption
  <2> QED
    BY <1>2, <2>4, <2>5 DEF ClusterDelete, TypeOK, cache, sending, sweeper, history
<1>3. ASSUME NEW g \in Gvrs, Relist(g) PROVE TypeOK'
  <2>1. feed' \in [Uids -> Seq(Update)]
    BY <1>3, ListingType DEF Relist, TypeOK
  <2>2. changes' \in 0 .. MaxChanges
    BY <1>3 DEF Relist, TypeOK, ConstantsAssumption
  <2> QED
    BY <1>3, <2>1, <2>2
    DEF Relist, TypeOK, cache, sending, sweeper, DeletionPending
<1>4. ASSUME Restart PROVE TypeOK'
  BY <1>4, BootType DEF Restart, TypeOK, ConstantsAssumption
<1> QED
  BY <1>1, <1>2, <1>3, <1>4 DEF Environment

LEMMA WatcherType ==
  ASSUME TypeOK, HasCurrent, NEW g \in Gvrs, Watcher(g)
  PROVE  TypeOK'
<1>1. ASSUME NEW u \in Uids, SendResource(g, u) PROVE TypeOK'
  <2>1. Head(feed[u]) \in Update /\ Tail(feed[u]) \in Seq(Update)
    BY <1>1, HeadTailProperties DEF SendResource, TakeEvent, TypeOK
  <2>2. feed' \in [Uids -> Seq(Update)] /\ current' \in [Gvrs -> Update \cup {NoUpdate}]
    BY <1>1, <2>1 DEF SendResource, TakeEvent, TypeOK
  <2>4. /\ marked' \in SUBSET Uids
        /\ pc' \in [Gvrs -> {"idle", "mark", "check", "send", "hash", "add", "write"}]
    BY <1>1 DEF SendResource, TakeEvent, TypeOK
  <2> QED
    BY <1>1, <2>2, <2>4 DEF SendResource, TakeEvent, TypeOK, cache, sweeper
<1>2. ASSUME Check(g) PROVE TypeOK'
  BY <1>2 DEF Check, TypeOK, cluster, cache, sweeper, history
<1>3. ASSUME NEW outcome \in Outcomes, Send(g, outcome) PROVE TypeOK'
  <2>1. current[g].uid \in Uids /\ Stored(current[g]) \in Hashes \cup {NoHash}
    BY <1>3 DEF Send, HasCurrent, Stored, Update
  <2>2. ror' \in [Uids -> Hashes \cup {NoHash}]
    BY <1>3, <2>1 DEF Send, TypeOK
  <2>3. /\ pc' \in [Gvrs -> {"idle", "mark", "check", "send", "hash", "add", "write"}]
        /\ current' \in [Gvrs -> Update \cup {NoUpdate}]
        /\ failed' \in SUBSET Uids /\ late' \in SUBSET Uids
    BY <1>3, <2>1 DEF Send, TypeOK
  <2> QED
    BY <1>3, <2>2, <2>3 DEF Send, TypeOK, cluster, cache, sweeper
<1>4. ASSUME UpdateHash(g) PROVE TypeOK'
  <2>1. current[g].uid \in Uids /\ current[g].hash \in Hashes \cup {NoHash}
    BY <1>4 DEF UpdateHash, HasCurrent, Update
  <2>2. hashList' \in [Uids -> [hash : Hashes \cup {NoHash}, active : BOOLEAN]]
    BY <1>4, <2>1 DEF UpdateHash, TypeOK
  <2>3. /\ pc' \in [Gvrs -> {"idle", "mark", "check", "send", "hash", "add", "write"}]
        /\ current' \in [Gvrs -> Update \cup {NoUpdate}]
    BY <1>4 DEF UpdateHash, TypeOK
  <2> QED
    BY <1>4, <2>2, <2>3 DEF UpdateHash, TypeOK, cluster, sweeper, history
<1>5. ASSUME AddBegin(g) PROVE TypeOK'
  BY <1>5 DEF AddBegin, TypeOK, cluster, cache, sweeper, history
<1>6. ASSUME AddEnd(g) PROVE TypeOK'
  <2> DEFINE id == GetByUid(header[g], current[g].uid)
  <2>1. current[g] \in Update /\ header[g] \in Seq(EntryOf(Update))
    BY <1>6 DEF AddEnd, HasCurrent, TypeOK
  <2>2. CASE id > 0 /\ id + 1 \notin DOMAIN workqueue
    BY <1>6, <2>2, BootType DEF AddEnd, TypeOK
  <2>3. CASE ~(id > 0 /\ id + 1 \notin DOMAIN workqueue)
    <3>1. workqueue' \in Seq(EntryOf(Update))
      <4>1. CASE id > 0
        <5>1. id + 1 \in 1 .. Len(workqueue)
          BY <2>3, <4>1 DEF TypeOK
        <5>2. NewEntry(header[g], current[g]) \in EntryOf(Update)
          BY <2>1, NewEntryType
        <5>3. workqueue' = [workqueue EXCEPT ![id + 1] = NewEntry(header[g], current[g])]
          BY <1>6, <2>3, <4>1 DEF AddEnd, ReplaceAt
        <5> HIDE DEF id
        <5> QED
          BY <5>1, <5>2, <5>3, ExceptSeq DEF TypeOK
      <4>2. CASE ~(id > 0)
        BY <1>6, <2>1, <4>2, AddType DEF AddEnd
      <4> QED
        BY <4>1, <4>2
    <3>2. /\ pc' \in [Gvrs -> {"idle", "mark", "check", "send", "hash", "add", "write"}]
          /\ current' \in [Gvrs -> Update \cup {NoUpdate}]
          /\ header' \in [Gvrs -> Seq(EntryOf(Update))]
      <4>1. << >> \in Seq(EntryOf(Update))
        OBVIOUS
      <4>2. /\ pc' = [pc EXCEPT ![g] = "idle"]
            /\ current' = [current EXCEPT ![g] = NoUpdate]
        BY <1>6, <2>3 DEF AddEnd
      <4>3. PICK same \in SUBSET Gvrs :
              header' = [w \in Gvrs |->
                IF w = g THEN << >>
                ELSE IF w \in same
                THEN Written(header[w], IF id > 0 THEN id + 1 ELSE Len(header[g]) + 1,
                             NewEntry(header[g], current[g]))
                ELSE header[w]]
        BY <1>6, <2>3 DEF AddEnd
      <4>4. NewEntry(header[g], current[g]) \in EntryOf(Update)
        BY <2>1, NewEntryType
      <4>5. (IF id > 0 THEN id + 1 ELSE Len(header[g]) + 1) \in Nat
        BY <2>1, GetByUidRange, LenProperties
      <4>6. \A w \in Gvrs : header[w] \in Seq(EntryOf(Update))
        BY DEF TypeOK
      <4> HIDE DEF id
      <4>7. \A w \in Gvrs : header'[w] \in Seq(EntryOf(Update))
        BY <4>1, <4>3, <4>4, <4>5, <4>6, WrittenAt
      <4> QED
        BY <4>2, <4>3, <4>7 DEF TypeOK
    <3>3. UNCHANGED <<cluster, ror, hashList, cleanupRunning, runnerQueue, retried,
                      sweeper, causes, restarts>>
      BY <1>6, <2>3 DEF AddEnd, causes
    <3>4. overtaken' \in SUBSET Uids
      <4>1. current[g].uid \in Uids
        BY <2>1 DEF Update
      <4>2. \/ overtaken' = overtaken \cup {current[g].uid}
            \/ overtaken' = overtaken \ {current[g].uid}
        BY <1>6, <2>3 DEF AddEnd
      <4> QED
        BY <4>1, <4>2 DEF TypeOK
    <3> QED
      BY <3>1, <3>2, <3>3, <3>4 DEF TypeOK, cluster, sweeper, causes
  <2> QED
    BY <2>2, <2>3
<1>7. ASSUME NEW u \in Uids, SendResourceFails(g, u) PROVE TypeOK'
  <2>1. Tail(feed[u]) \in Seq(Update)
    BY <1>7, HeadTailProperties DEF SendResourceFails, TakeEvent, TypeOK
  <2>2. feed' \in [Uids -> Seq(Update)] /\ unlisted' \in SUBSET Uids
    BY <1>7, <2>1 DEF SendResourceFails, TakeEvent, TypeOK
  <2> QED
    BY <1>7, <2>2 DEF SendResourceFails, TypeOK, cache, sending, sweeper
<1>8. ASSUME MarkActive(g) PROVE TypeOK'
  <2>1. Marked(current[g].uid) \in [Uids -> [hash : Hashes \cup {NoHash}, active : BOOLEAN]]
    BY DEF Marked, TypeOK
  <2>2. pc' \in [Gvrs -> {"idle", "mark", "check", "send", "hash", "add", "write"}]
    BY <1>8 DEF MarkActive, TypeOK
  <2> QED
    BY <1>8, <2>1, <2>2 DEF MarkActive, TypeOK, cluster, sweeper, history
<1> QED
  BY <1>1, <1>2, <1>3, <1>4, <1>5, <1>6, <1>7, <1>8 DEF Watcher

LEMMA CleanupType ==
  ASSUME TypeOK, Cleanup
  PROVE  TypeOK'
<1>1. ASSUME FinnishCleanup PROVE TypeOK'
  BY <1>1 DEF FinnishCleanup, TypeOK, cluster, sending, history
<1>2. ASSUME GetInactiveUid PROVE TypeOK'
  BY <1>2 DEF GetInactiveUid, TypeOK, cluster, cache, sending
<1>3. ASSUME NEW u \in Uids, NEW outcome \in Outcomes, DeleteInactive(u, outcome)
      PROVE TypeOK'
  BY <1>3 DEF DeleteInactive, TypeOK, cluster, cache, sending
<1> QED
  BY <1>1, <1>2, <1>3 DEF Cleanup
-----------------------------------------------------------------------------
(* The inductive invariant: the cluster and the watch *)

Parts ==
  /\ FeedInv /\ CurrentInv /\ UnbornInv /\ SweepInv
  /\ HashInv /\ LiveInv /\ GoneInv

\* Appending an event to a feed that holds no deletion.
LEMMA AppendToFeed ==
  ASSUME TypeOK, NEW u \in Uids, NEW e \in Update
  PROVE  /\ Append(feed[u], e) # << >>
         /\ Len(Append(feed[u], e)) = Len(feed[u]) + 1
         /\ DOMAIN Append(feed[u], e) = 1 .. (Len(feed[u]) + 1)
         /\ \A i \in 1 .. Len(feed[u]) : Append(feed[u], e)[i] = feed[u][i]
         /\ Append(feed[u], e)[Len(feed[u]) + 1] = e
<1>1. feed[u] \in Seq(Update)
  BY DEF TypeOK
<1> QED
  BY <1>1, AppendProperties, LenProperties

LEMMA FeedDomain ==
  ASSUME TypeOK, NEW u \in Uids
  PROVE  /\ Len(feed[u]) \in Nat
         /\ DOMAIN feed[u] = 1 .. Len(feed[u])
         /\ feed[u] # << >> => Len(feed[u]) \in DOMAIN feed[u]
<1>1. feed[u] \in Seq(Update)
  BY DEF TypeOK
<1> QED
  BY <1>1, LenProperties, EmptySeq

\* An object that is not gone has no deletion on its way.
LEMMA NoDeletionYet ==
  ASSUME TypeOK, FeedInv, CurrentInv, NEW u \in Uids, live[u] # Gone,
         ConstantsAssumption
  PROVE  /\ \A i \in DOMAIN feed[u] : feed[u][i].action # "Delete"
         /\ \A g \in Gvrs : Busy(g, u) => current[g].action # "Delete"
<1>1. \A i \in DOMAIN feed[u] : feed[u][i].action # "Delete"
  <2> TAKE i \in DOMAIN feed[u]
  <2>1. CASE i < Len(feed[u])
    BY <2>1 DEF FeedInv
  <2>2. CASE i = Len(feed[u])
    <3>1. feed[u] # << >>
      BY FeedDomain
    <3> QED
      BY <2>2, <3>1 DEF FeedInv, Agrees
  <2> QED
    BY <2>1, <2>2, FeedDomain
<1>2. ASSUME NEW g \in Gvrs, Busy(g, u), current[g].action = "Delete" PROVE FALSE
  <2>1. pc[g] # "idle" /\ current[g].uid = u
    BY <1>2 DEF Busy
  <2>2. feed[u] = << >> /\ Agrees(u, current[g])
    BY <1>2, <2>1 DEF CurrentInv
  <2> QED
    BY <1>2, <2>2 DEF Agrees
<1> QED
  BY <1>1, <1>2

\* What only changes one object and appends one event that agrees.
LEMMA ClusterStep ==
  ASSUME ConstantsAssumption, IInv, NEW u \in Uids, NEW e \in Update,
         live[u] # Gone,
         live' \in [Uids -> Hashes \cup {Unborn, Gone}],
         live'[u] # Unborn,
         \A v \in Uids \ {u} : live'[v] = live[v],
         feed' = [feed EXCEPT ![u] = Append(feed[u], e)],
         e.uid = u,
         e.action # "Delete" => e.hash \in Hashes,
         Agrees(u, e)',
         UNCHANGED <<ror, cache, sending, sweeper, history>>
  PROVE  Parts'
<1> USE DEF IInv
<1>0. /\ \A v \in Uids \ {u} : feed'[v] = feed[v]
      /\ feed'[u] = Append(feed[u], e)
      /\ feed'[u] # << >>
  BY AppendToFeed DEF TypeOK
<1>1. \A v \in Uids \ {u} : \A m : Agrees(v, m) => Agrees(v, m)'
  BY DEF Agrees
<1>2. FeedInv'
  <2> SUFFICES ASSUME NEW v \in Uids
               PROVE  /\ \A i \in DOMAIN feed'[v] :
                           /\ feed'[v][i].uid = v
                           /\ feed'[v][i].action # "Delete" => feed'[v][i].hash \in Hashes
                           /\ i < Len(feed'[v]) => feed'[v][i].action # "Delete"
                      /\ feed'[v] # << >> => Agrees(v, feed[v][Len(feed[v])])'
    BY DEF FeedInv
  <2>1. CASE v # u
    BY <2>1, <1>0, <1>1 DEF FeedInv, Agrees
  <2>2. CASE v = u
    <3>1. \A i \in DOMAIN feed[u] : /\ feed[u][i].uid = u
                                   /\ feed[u][i].action # "Delete"
                                   /\ feed[u][i].hash \in Hashes
      BY NoDeletionYet DEF FeedInv
    <3>2. /\ Len(feed'[u]) = Len(feed[u]) + 1
          /\ DOMAIN feed'[u] = 1 .. (Len(feed[u]) + 1)
          /\ \A i \in 1 .. Len(feed[u]) : feed'[u][i] = feed[u][i]
          /\ feed'[u][Len(feed[u]) + 1] = e
      BY <1>0, AppendToFeed
    <3>3. Len(feed[u]) \in Nat /\ DOMAIN feed[u] = 1 .. Len(feed[u])
      BY FeedDomain
    <3>4. \A i \in DOMAIN feed'[u] : i \in DOMAIN feed[u] \/ i = Len(feed[u]) + 1
      BY <3>2, <3>3
    <3>5. Agrees(u, feed[u][Len(feed[u])])'
      BY <3>2 DEF Agrees
    <3> QED
      BY <2>2, <3>1, <3>2, <3>3, <3>4, <3>5
  <2> QED
    BY <2>1, <2>2
<1>3. pc' = pc /\ current' = current /\ ror' = ror /\ late' = late /\ failed' = failed
  BY DEF sending, history
<1>4. CurrentInv'
  <2> SUFFICES ASSUME NEW g \in Gvrs, pc[g] # "idle"
               PROVE  LET v == current[g].uid IN
                      /\ current[g] \in Update
                      /\ GvrOf[v] = g
                      /\ current[g].action # "Delete" => current[g].hash \in Hashes
                      /\ current[g].action = "Delete" => feed'[v] = << >>
                      /\ feed'[v] = << >> => Agrees(v, current[g])'
                      /\ pc[g] \in {"mark", "check", "hash"} => current[g].action # "Delete"
                      /\ pc[g] \in {"add", "write"} => v \in failed
                      /\ pc[g] = "hash" =>
                           ror[v] = current[g].hash \/ v \in late \/ live'[v] = Gone
    BY <1>3 DEF CurrentInv
  <2> DEFINE v == current[g].uid
  <2>0. current[g] \in Update /\ v \in Uids
    BY DEF CurrentInv, Update
  <2>1. CASE v # u
    BY <2>0, <2>1, <1>0, <1>1, <1>3 DEF CurrentInv, Agrees
  <2>2. CASE v = u
    <3>1. current[g].action # "Delete"
      BY <2>2, NoDeletionYet DEF Busy
    <3> QED
      BY <2>2, <3>1, <1>0 DEF CurrentInv
  <2> QED
    BY <2>1, <2>2
<1>5. UnbornInv'
  BY <1>0, <1>3 DEF UnbornInv, Busy, cache
<1>6. SweepInv'
  BY DEF SweepInv, Marking, TypeOK, cache, sending, sweeper, history
<1>7. HashInv'
  BY <1>3 DEF HashInv, cache
<1>8. LiveInv'
  BY <1>0, <1>3 DEF LiveInv, Resting, Busy, history
<1>9. GoneInv'
  BY <1>0, <1>3 DEF GoneInv, Resting, Busy, Explained, cache, sweeper, history
<1> QED
  BY <1>2, <1>4, <1>5, <1>6, <1>7, <1>8, <1>9 DEF Parts

LEMMA ClusterChangeInv ==
  ASSUME ConstantsAssumption, IInv,
         NEW u \in Uids, NEW h \in Hashes, ClusterChange(u, h)
  PROVE  Parts'
<1>0. PICK e \in Update : e = [uid    |-> u,
                            action |-> IF live[u] = Unborn THEN "Add" ELSE "Update",
                            hash   |-> h]
  <2>1. (IF live[u] = Unborn THEN "Add" ELSE "Update") \in Actions
    BY DEF Actions
  <2> QED
    BY <2>1 DEF Update
<1>1. e.uid = u /\ e.hash = h /\ e.action # "Delete"
  BY <1>0
<1>2. feed' = [feed EXCEPT ![u] = Append(feed[u], e)]
  BY <1>0 DEF ClusterChange
<1>3. /\ live[u] # Gone
      /\ live' = [live EXCEPT ![u] = h]
      /\ UNCHANGED <<ror, cache, sending, sweeper, history>>
  BY DEF ClusterChange
<1>4. /\ live' \in [Uids -> Hashes \cup {Unborn, Gone}]
      /\ live'[u] = h /\ h # Unborn
      /\ \A v \in Uids \ {u} : live'[v] = live[v]
  BY <1>3 DEF IInv, TypeOK, ConstantsAssumption
<1>5. Agrees(u, e)'
  BY <1>1, <1>4 DEF Agrees
<1> QED
  BY <1>1, <1>2, <1>3, <1>4, <1>5, ClusterStep

LEMMA ClusterDeleteInv ==
  ASSUME ConstantsAssumption, IInv, NEW u \in Uids, ClusterDelete(u)
  PROVE  Parts'
<1>0. PICK e \in Update : e = [uid |-> u, action |-> "Delete", hash |-> live[u]]
  BY DEF ClusterDelete, Update, Actions
<1>1. e.uid = u /\ e.action = "Delete"
  BY <1>0
<1>2. feed' = [feed EXCEPT ![u] = Append(feed[u], e)]
  BY <1>0 DEF ClusterDelete
<1>3. /\ live[u] \in Hashes
      /\ live' = [live EXCEPT ![u] = Gone]
      /\ UNCHANGED <<ror, cache, sending, sweeper, history>>
  BY DEF ClusterDelete
<1>4. /\ live' \in [Uids -> Hashes \cup {Unborn, Gone}]
      /\ live'[u] = Gone /\ live[u] # Gone /\ Unborn # Gone
      /\ \A v \in Uids \ {u} : live'[v] = live[v]
  BY <1>3 DEF IInv, TypeOK, ConstantsAssumption
<1>5. Agrees(u, e)'
  BY <1>1, <1>4 DEF Agrees
<1> QED
  BY <1>1, <1>2, <1>3, <1>4, <1>5, ClusterStep

\* A listing holds no deletion and agrees with the cluster.
LEMMA ListingAgrees ==
  ASSUME NEW u \in Uids
  PROVE  /\ \A i \in DOMAIN Listing(u) :
              /\ Listing(u)[i].uid = u
              /\ Listing(u)[i].action # "Delete"
              /\ Listing(u)[i].hash \in Hashes
         /\ Listing(u) # << >> => Agrees(u, Listing(u)[Len(Listing(u))])
         /\ live[u] \in Hashes => Listing(u) # << >>
         /\ live[u] \notin Hashes => Listing(u) = << >>
<1>1. CASE live[u] \in Hashes
  <2>1. /\ DOMAIN Listing(u) = {1}
        /\ Len(Listing(u)) = 1
        /\ Listing(u)[1] = [uid |-> u, action |-> "Add", hash |-> live[u]]
        /\ Listing(u) # << >>
    BY <1>1 DEF Listing
  <2> QED
    BY <1>1, <2>1 DEF Agrees
<1>2. CASE live[u] \notin Hashes
  BY <1>2 DEF Listing
<1> QED
  BY <1>1, <1>2

LEMMA RelistInv ==
  ASSUME ConstantsAssumption, IInv, NEW g \in Gvrs, Relist(g)
  PROVE  Parts'
<1> USE DEF IInv
<1>1. /\ pc[g] = "idle"
      /\ \A u \in Uids : GvrOf[u] = g => feed'[u] = Listing(u)
      /\ \A u \in Uids : GvrOf[u] # g => feed'[u] = feed[u]
      /\ missed' = missed \cup {u \in Uids : GvrOf[u] = g /\ u \in DeletionPending}
      /\ live' = live /\ ror' = ror /\ pc' = pc /\ current' = current
      /\ hashList' = hashList /\ cleanupRunning' = cleanupRunning
      /\ sweep' = sweep /\ inactive' = inactive
      /\ failed' = failed /\ unswept' = unswept /\ late' = late /\ marked' = marked
      /\ slipped' = slipped /\ unconverted' = unconverted
  BY DEF Relist, TypeOK, cache, sending, sweeper, DeletionPending
<1>2. FeedInv'
  <2> SUFFICES ASSUME NEW u \in Uids
               PROVE  /\ \A i \in DOMAIN feed'[u] :
                           /\ feed'[u][i].uid = u
                           /\ feed'[u][i].action # "Delete" => feed'[u][i].hash \in Hashes
                           /\ i < Len(feed'[u]) => feed'[u][i].action # "Delete"
                      /\ feed'[u] # << >> => Agrees(u, feed'[u][Len(feed'[u])])
    BY <1>1 DEF FeedInv, Agrees
  <2>1. CASE GvrOf[u] = g
    BY <1>1, <2>1, ListingAgrees
  <2>2. CASE GvrOf[u] # g
    BY <1>1, <2>2 DEF FeedInv
  <2> QED
    BY <2>1, <2>2
<1>3. \A w \in Gvrs : pc[w] # "idle" =>
        feed'[current[w].uid] = feed[current[w].uid] /\ current[w].uid \in Uids
  BY <1>1 DEF CurrentInv, Update
<1>4. CurrentInv'
  BY <1>1, <1>3 DEF CurrentInv, Agrees
<1>5. UnbornInv'
  BY <1>1, ListingAgrees DEF UnbornInv, Busy, ConstantsAssumption
<1>6. SweepInv'
  BY <1>1 DEF SweepInv, Marking
<1>7. HashInv'
  BY <1>1 DEF HashInv
<1>8. LiveInv'
  BY <1>1, ListingAgrees DEF LiveInv, Resting, Busy
<1>9. GoneInv'
  <2> SUFFICES ASSUME NEW u \in Uids, Resting(u)', live[u] = Gone
               PROVE  \/ ror[u] = NoHash
                      \/ u \in failed \cup unswept \cup late \cup missed' \cup unconverted
                      \/ u \in inactive
                      \/ /\ sweep \in {"scheduled", "collect"}
                         /\ hashList[u].hash # NoHash
                         /\ ~hashList[u].active
    BY <1>1 DEF GoneInv, Explained
  <2>1. \A w \in Gvrs : ~Busy(w, u)
    BY <1>1 DEF Resting, Busy
  <2>2. CASE feed[u] = << >>
    BY <1>1, <2>1, <2>2 DEF GoneInv, Resting, Explained
  <2>3. CASE feed[u] # << >>
    <3>1. GvrOf[u] = g
      BY <1>1, <2>3 DEF Resting
    <3>2. u \in DeletionPending
      BY <2>3, FeedDomain DEF FeedInv, Agrees, DeletionPending, ConstantsAssumption
    <3> QED
      BY <1>1, <3>1, <3>2
  <2> QED
    BY <2>2, <2>3
<1> QED
  BY <1>2, <1>4, <1>5, <1>6, <1>7, <1>8, <1>9 DEF Parts

\* After a start the invariant holds whatever is in the cluster and in ROR.
LEMMA BootInv ==
  ASSUME ConstantsAssumption, IInv, Boot
  PROVE  Parts'
<1> USE DEF IInv
<1>1. /\ \A u \in Uids : feed'[u] = Listing(u)
      /\ live' = live /\ ror' = ror
      /\ \A u \in Uids : hashList'[u].hash = ror[u] /\ hashList'[u].active = FALSE
      /\ \A g \in Gvrs : pc'[g] = "idle"
      /\ cleanupRunning' = TRUE /\ sweep' = "scheduled" /\ inactive' = {}
      /\ marked' = {}
  BY DEF Boot, GetHashList
<1>2. FeedInv'
  BY <1>1, ListingAgrees DEF FeedInv, Agrees
<1>3. CurrentInv'
  BY <1>1 DEF CurrentInv
<1>4. UnbornInv'
  BY <1>1, ListingAgrees DEF UnbornInv, Busy, ConstantsAssumption
<1>5. SweepInv'
  BY <1>1 DEF SweepInv
<1>6. HashInv'
  BY <1>1 DEF HashInv
<1>7. LiveInv'
  BY <1>1, ListingAgrees DEF LiveInv, Resting
<1>8. GoneInv'
  BY <1>1 DEF GoneInv
<1> QED
  BY <1>2, <1>3, <1>4, <1>5, <1>6, <1>7, <1>8 DEF Parts
-----------------------------------------------------------------------------
(* The inductive invariant: SendResource *)

\* A uid is in the hands of no watcher but that of its kind.
LEMMA Owner ==
  ASSUME CurrentInv, NEW g \in Gvrs, NEW u \in Uids, Busy(g, u)
  PROVE  g = GvrOf[u]
BY DEF CurrentInv, Busy

\* What the watcher of u hands over, and what is left.
LEMMA TakeEventInv ==
  ASSUME ConstantsAssumption, IInv, NEW g \in Gvrs, NEW u \in Uids, TakeEvent(g, u),
         live' = live
  PROVE  /\ Head(feed[u]) \in Update
         /\ Head(feed[u]).uid = u
         /\ Head(feed[u]).action # "Delete" => Head(feed[u]).hash \in Hashes
         /\ Head(feed[u]).action = "Delete" => feed'[u] = << >>
         /\ feed'[u] = << >> => Agrees(u, Head(feed[u]))
         /\ \A v \in Uids \ {u} : feed'[v] = feed[v]
         /\ FeedInv'
<1> USE DEF IInv
<1> DEFINE m == Head(feed[u])
<1>1. feed[u] # << >> /\ feed' = [feed EXCEPT ![u] = Tail(feed[u])]
  BY DEF TakeEvent
<1>2. /\ feed[u] \in Seq(Update)
      /\ m = feed[u][1] /\ m \in Update
      /\ Len(feed[u]) \in Nat \ {0} /\ DOMAIN feed[u] = 1 .. Len(feed[u])
      /\ Tail(feed[u]) \in Seq(Update)
      /\ Len(Tail(feed[u])) = Len(feed[u]) - 1
      /\ DOMAIN Tail(feed[u]) = 1 .. (Len(feed[u]) - 1)
      /\ \A i \in 1 .. (Len(feed[u]) - 1) : Tail(feed[u])[i] = feed[u][i + 1]
  <2>1. feed[u] \in Seq(Update)
    BY DEF TypeOK
  <2> QED
    BY <1>1, <2>1, HeadTailProperties, LenProperties, EmptySeq
<1>3. /\ m.uid = u
      /\ m.action # "Delete" => m.hash \in Hashes
      /\ m.action = "Delete" => Len(feed[u]) = 1
      /\ Len(feed[u]) = 1 => Agrees(u, m)
  <2>1. 1 \in DOMAIN feed[u] /\ m = feed[u][1]
    BY <1>2
  <2>2. /\ feed[u][1].uid = u
        /\ feed[u][1].action # "Delete" => feed[u][1].hash \in Hashes
        /\ 1 < Len(feed[u]) => feed[u][1].action # "Delete"
        /\ Agrees(u, feed[u][Len(feed[u])])
    BY <1>1, <2>1 DEF FeedInv
  <2>3. Len(feed[u]) = 1 => Agrees(u, feed[u][1])
    BY <2>2
  <2>4. ~(1 < Len(feed[u])) => Len(feed[u]) = 1
    <3> DEFINE n == Len(feed[u])
    <3>1. n \in Nat \ {0}
      BY <1>2
    <3> HIDE DEF n
    <3>2. ~(1 < n) => n = 1
      BY <3>1
    <3> QED
      BY <3>2 DEF n
  <2>5. m = feed[u][1]
    BY <2>1
  <2> HIDE DEF m
  <2> QED
    BY <2>2, <2>3, <2>4, <2>5 DEF Agrees
<1>4. Tail(feed[u]) = << >> <=> Len(feed[u]) = 1
  <2>1. Tail(feed[u]) # << >> => Len(Tail(feed[u])) \in Nat \ {0}
    BY <1>2, EmptySeq
  <2>2. Tail(feed[u]) = << >> => Len(Tail(feed[u])) = 0
    BY EmptySeq
  <2> QED
    BY <1>2, <2>1, <2>2
<1>5. feed'[u] = Tail(feed[u]) /\ \A v \in Uids \ {u} : feed'[v] = feed[v]
  BY <1>1 DEF TypeOK
<1>6. FeedInv'
  <2> SUFFICES ASSUME NEW v \in Uids
               PROVE  /\ \A i \in DOMAIN feed'[v] :
                           /\ feed'[v][i].uid = v
                           /\ feed'[v][i].action # "Delete" => feed'[v][i].hash \in Hashes
                           /\ i < Len(feed'[v]) => feed'[v][i].action # "Delete"
                      /\ feed'[v] # << >> => Agrees(v, feed'[v][Len(feed'[v])])
    BY DEF FeedInv, Agrees
  <2>1. CASE v # u
    BY <1>5, <2>1 DEF FeedInv
  <2>2. CASE v = u
    <3>1. \A i \in 1 .. (Len(feed[u]) - 1) : /\ i + 1 \in DOMAIN feed[u]
                                            /\ Tail(feed[u])[i] = feed[u][i + 1]
      BY <1>2
    <3>2. \A i \in DOMAIN Tail(feed[u]) :
            /\ Tail(feed[u])[i].uid = u
            /\ Tail(feed[u])[i].action # "Delete" => Tail(feed[u])[i].hash \in Hashes
            /\ i < Len(Tail(feed[u])) => Tail(feed[u])[i].action # "Delete"
      BY <1>2, <3>1 DEF FeedInv
    <3>3. Tail(feed[u]) # << >> => Tail(feed[u])[Len(Tail(feed[u]))] = feed[u][Len(feed[u])]
      BY <1>2, <1>4
    <3> QED
      BY <1>1, <1>5, <2>2, <3>2, <3>3 DEF FeedInv
  <2> QED
    BY <2>1, <2>2
<1>7. feed'[u] = << >> <=> Len(feed[u]) = 1
  BY <1>4, <1>5
<1> HIDE DEF m
<1>8. m = Head(feed[u])
  BY DEF m
<1> QED
  BY <1>2, <1>3, <1>5, <1>6, <1>7, <1>8

LEMMA SendResourceInv ==
  ASSUME ConstantsAssumption, IInv, NEW g \in Gvrs, NEW u \in Uids, SendResource(g, u)
  PROVE  Parts'
<1> USE DEF IInv
<1> DEFINE m == Head(feed[u])
<1>1. /\ pc[g] = "idle" /\ GvrOf[u] = g /\ feed[u] # << >>
      /\ current' = [current EXCEPT ![g] = m]
      /\ feed' = [feed EXCEPT ![u] = Tail(feed[u])]
      /\ live' = live /\ ror' = ror
      /\ cleanupRunning' = cleanupRunning /\ sweep' = sweep /\ inactive' = inactive
      /\ failed' = failed /\ unswept' = unswept /\ late' = late /\ missed' = missed
      /\ unconverted' = unconverted \ {u}
      /\ hashList' = hashList /\ slipped' = slipped
      /\ \/ /\ pc' = [pc EXCEPT ![g] = IF m.action = "Delete" THEN "send" ELSE "check"]
            /\ marked' = marked
         \/ /\ cleanupRunning /\ m.action # "Delete"
            /\ pc' = [pc EXCEPT ![g] = "mark"]
            /\ marked' = marked \cup {u}
  BY DEF SendResource, TakeEvent, cache, sweeper
<1>2. /\ m \in Update /\ m.uid = u
      /\ m.action # "Delete" => m.hash \in Hashes
      /\ m.action = "Delete" => feed'[u] = << >>
      /\ feed'[u] = << >> => Agrees(u, m)
      /\ \A v \in Uids \ {u} : feed'[v] = feed[v]
      /\ FeedInv'
  BY <1>1, TakeEventInv DEF SendResource
<1> HIDE DEF m
<1>7. /\ current'[g] = m
      /\ \/ pc'[g] = IF m.action = "Delete" THEN "send" ELSE "check"
         \/ pc'[g] = "mark" /\ m.action # "Delete"
      /\ \A w \in Gvrs \ {g} : current'[w] = current[w] /\ pc'[w] = pc[w]
  BY <1>1 DEF TypeOK
<1>8. \A w \in Gvrs \ {g} : pc[w] # "idle" =>
        current[w].uid \in Uids /\ feed'[current[w].uid] = feed[current[w].uid]
  BY <1>1, <1>2 DEF CurrentInv, Update
<1>9. CurrentInv'
  <2> SUFFICES ASSUME NEW w \in Gvrs, pc'[w] # "idle"
               PROVE  LET v == current'[w].uid IN
                      /\ current'[w] \in Update
                      /\ GvrOf[v] = w
                      /\ current'[w].action # "Delete" => current'[w].hash \in Hashes
                      /\ current'[w].action = "Delete" => feed'[v] = << >>
                      /\ feed'[v] = << >> => Agrees(v, current'[w])
                      /\ pc'[w] \in {"mark", "check", "hash"} => current'[w].action # "Delete"
                      /\ pc'[w] \in {"add", "write"} => v \in failed
                      /\ pc'[w] = "hash" =>
                           ror[v] = current'[w].hash \/ v \in late \/ live[v] = Gone
    BY <1>1 DEF CurrentInv, Agrees
  <2>1. CASE w = g
    <3>1. GvrOf[u] = g
      BY <1>1
    <3>2. /\ pc'[g] \in {"send", "mark", "check"}
          /\ pc'[g] \in {"mark", "check"} => m.action # "Delete"
      BY <1>7
    <3> QED
      BY <1>2, <1>7, <2>1, <3>1, <3>2
  <2>2. CASE w # g
    BY <1>7, <1>8, <2>2 DEF CurrentInv
  <2> QED
    BY <2>1, <2>2
<1>11. \A v \in Uids : Busy(g, v)' <=> v = u
  BY <1>2, <1>7 DEF Busy
<1>12. \A w \in Gvrs \ {g} : \A v \in Uids : Busy(w, v)' <=> Busy(w, v)
  BY <1>7 DEF Busy
<1>13. UnbornInv'
  BY <1>1, <1>2, <1>11, <1>12 DEF UnbornInv, Busy
<1>14. SweepInv'
  <2>1. \A v \in Uids : Marking(v) => Marking(v)'
    <3>1. \A w \in Gvrs : pc[w] = "mark" => pc'[w] = "mark" /\ current'[w] = current[w]
      BY <1>1, <1>7
    <3> QED
      BY <3>1 DEF Marking
  <2>2. marked' = marked \/ (cleanupRunning /\ marked' = marked \cup {u} /\ Marking(u)')
    <3>1. CASE cleanupRunning /\ pc' = [pc EXCEPT ![g] = "mark"] /\ marked' = marked \cup {u}
      <4>1. pc'[g] = "mark"
        BY <3>1 DEF TypeOK
      <4>2. current'[g].uid = u
        BY <1>2, <1>7
      <4> QED
        BY <3>1, <4>1, <4>2 DEF Marking
    <3> QED
      BY <1>1, <3>1
  <2>3. \A v \in marked' : hashList'[v].hash = NoHash \/ hashList'[v].active \/ Marking(v)'
    BY <1>1, <2>1, <2>2 DEF SweepInv, TypeOK
  <2>4. cleanupRunning => inactive = {}
    BY DEF SweepInv
  <2> QED
    BY <1>1, <2>2, <2>3, <2>4 DEF SweepInv
<1>15. \A w \in Gvrs : pc[w] = "hash" => pc'[w] = "hash" /\ current'[w] = current[w]
  BY <1>1, <1>7
<1>16. HashInv'
  BY <1>1, <1>15 DEF HashInv
<1>17. \A v \in Uids : Resting(v)' => v # u /\ Resting(v)
  BY <1>1, <1>2, <1>11, <1>12 DEF Resting, Busy
<1>18. LiveInv'
  BY <1>1, <1>17 DEF LiveInv
<1>19. GoneInv'
  BY <1>1, <1>17 DEF GoneInv, Explained
<1> QED
  BY <1>2, <1>9, <1>13, <1>14, <1>16, <1>18, <1>19 DEF Parts

LEMMA SendResourceFailsInv ==
  ASSUME ConstantsAssumption, IInv, NEW g \in Gvrs, NEW u \in Uids, SendResourceFails(g, u)
  PROVE  Parts'
<1> USE DEF IInv
<1>1. /\ pc[g] = "idle" /\ GvrOf[u] = g /\ feed[u] # << >>
      /\ live' = live /\ ror' = ror /\ pc' = pc /\ current' = current /\ hashList' = hashList
      /\ cleanupRunning' = cleanupRunning /\ sweep' = sweep /\ inactive' = inactive
      /\ failed' = failed /\ unswept' = unswept /\ late' = late /\ missed' = missed
      /\ marked' = marked /\ slipped' = slipped /\ unconverted' = unconverted \cup {u}
  BY DEF SendResourceFails, TakeEvent, cache, sending, sweeper
<1>2. FeedInv' /\ \A v \in Uids \ {u} : feed'[v] = feed[v]
  BY <1>1, TakeEventInv DEF SendResourceFails
<1>3. \A w \in Gvrs : pc[w] # "idle" =>
        current[w].uid \in Uids \ {u} /\ feed'[current[w].uid] = feed[current[w].uid]
  BY <1>1, <1>2 DEF CurrentInv, Update
<1>4. CurrentInv'
  BY <1>1, <1>3 DEF CurrentInv, Agrees
<1>5. UnbornInv'
  BY <1>1, <1>2 DEF UnbornInv, Busy
<1>6. SweepInv' /\ HashInv'
  BY <1>1 DEF SweepInv, Marking, HashInv
<1>7. \A v \in Uids \ {u} : Resting(v)' => Resting(v)
  BY <1>1, <1>2 DEF Resting, Busy
<1>8. LiveInv'
  BY <1>1, <1>7 DEF LiveInv
<1>9. GoneInv'
  BY <1>1, <1>7 DEF GoneInv, Explained
<1> QED
  BY <1>2, <1>4, <1>5, <1>6, <1>8, <1>9 DEF Parts

\* A step of the watcher g on the update it has in hand, u being its uid:
\* what it leaves of the other watchers and of the other uids.
Private(g, u) ==
  /\ live' = live /\ feed' = feed
  /\ \A w \in Gvrs \ {g} : pc'[w] = pc[w] /\ current'[w] = current[w]
  /\ \A v \in Uids \ {u} :
       /\ ror'[v] = ror[v]
       /\ hashList'[v] = hashList[v]
       /\ v \in failed' <=> v \in failed
       /\ v \in late' <=> v \in late
  /\ unswept' = unswept /\ missed' = missed /\ marked' = marked /\ slipped' = slipped
  /\ unconverted' = unconverted
  /\ cleanupRunning' = cleanupRunning /\ sweep' = sweep /\ inactive' = inactive

\* Such a step keeps the invariant if it keeps what the invariant says of g
\* and of u.
LEMMA PrivateStep ==
  ASSUME ConstantsAssumption, IInv, NEW g \in Gvrs, NEW u \in Uids,
         pc[g] # "idle", current[g].uid = u, Private(g, u),
         pc'[g] # "idle" => current'[g] = current[g],
         pc'[g] \in {"mark", "check", "hash"} => current[g].action # "Delete",
         pc'[g] \in {"add", "write"} => u \in failed',
         pc[g] = "mark" => hashList'[u].hash = NoHash \/ hashList'[u].active,
         pc'[g] = "hash" =>
           ror'[u] = current[g].hash \/ u \in late' \/ live[u] = Gone,
         hashList[u].hash = NoHash /\ hashList'[u].hash # NoHash => hashList'[u].active,
         hashList[u].active => hashList'[u].active,
         hashList'[u].hash # NoHash /\ live[u] # Gone =>
           \/ ror'[u] = hashList'[u].hash
           \/ u \in failed' \cup late'
           \/ pc'[g] = "hash",
         u \in inactive /\ u \in late => u \in late',
         pc'[g] = "idle" /\ feed[u] = << >> /\ live[u] \in Hashes =>
           ror'[u] = live[u] \/ u \in failed' \cup late',
         pc'[g] = "idle" /\ feed[u] = << >> /\ live[u] = Gone =>
           ror'[u] = NoHash \/ u \in failed'
  PROVE  Parts'
<1> USE DEF IInv
<1>0. GvrOf[u] = g /\ \A w \in Gvrs \ {g} : ~Busy(w, u)
  BY DEF CurrentInv, Busy
<1>1. \A v \in Uids \ {u} : \A w \in Gvrs : Busy(w, v)' <=> Busy(w, v)
  BY DEF Busy, Private
<1>2. FeedInv'
  BY DEF FeedInv, Private, Agrees
<1>3. CurrentInv'
  <2> SUFFICES ASSUME NEW w \in Gvrs, pc'[w] # "idle"
               PROVE  LET v == current'[w].uid IN
                      /\ current'[w] \in Update
                      /\ GvrOf[v] = w
                      /\ current'[w].action # "Delete" => current'[w].hash \in Hashes
                      /\ current'[w].action = "Delete" => feed[v] = << >>
                      /\ feed[v] = << >> => Agrees(v, current'[w])
                      /\ pc'[w] \in {"mark", "check", "hash"} => current'[w].action # "Delete"
                      /\ pc'[w] \in {"add", "write"} => v \in failed'
                      /\ pc'[w] = "hash" =>
                           ror'[v] = current'[w].hash \/ v \in late' \/ live[v] = Gone
    BY DEF CurrentInv, Agrees, Private
  <2>1. CASE w = g
    BY <2>1 DEF CurrentInv
  <2>2. CASE w # g
    <3>1. current[w].uid \in Uids \ {u}
      BY <1>0, <2>2 DEF CurrentInv, Private, Busy, Update
    <3> QED
      BY <2>2, <3>1 DEF CurrentInv, Private
  <2> QED
    BY <2>1, <2>2
<1>4. UnbornInv'
  <2>1. live[u] # Unborn
    BY DEF UnbornInv, Busy
  <2> QED
    BY <1>1, <2>1 DEF UnbornInv, Private
<1>5. SweepInv'
  <2>1. \A v \in inactive' : v \in late' \/ live'[v] = Gone
    <3>1. \A v \in inactive : v \in Uids /\ (v \in late \/ live[v] = Gone)
      BY DEF SweepInv, TypeOK
    <3> QED
      BY <3>1 DEF Private
  <2>2. \A v \in marked' : hashList'[v].hash = NoHash \/ hashList'[v].active \/ Marking(v)'
    <3>1. \A v \in marked : /\ v \in Uids
                            /\ hashList[v].hash = NoHash \/ hashList[v].active \/ Marking(v)
      BY DEF SweepInv, TypeOK
    <3>2. \A v \in Uids \ {u} : Marking(v) => Marking(v)'
      BY DEF Marking, Private
    <3>3. Marking(u) => pc[g] = "mark"
      BY <1>0 DEF Marking, Busy
    <3> QED
      BY <3>1, <3>2, <3>3 DEF Private
  <2> QED
    BY <2>1, <2>2 DEF SweepInv, Private
<1>6. HashInv'
  <2> SUFFICES ASSUME NEW v \in Uids, hashList'[v].hash # NoHash, live[v] # Gone
               PROVE  \/ ror'[v] = hashList'[v].hash
                      \/ v \in failed' \cup late'
                      \/ \E w \in Gvrs : pc'[w] = "hash" /\ current'[w].uid = v
    BY DEF HashInv, Private
  <2>1. CASE v = u
    BY <2>1
  <2>2. CASE v # u
    BY <2>2 DEF HashInv, Private
  <2> QED
    BY <2>1, <2>2
<1>7. \A v \in Uids \ {u} : Resting(v)' => Resting(v)
  BY <1>1 DEF Resting, Private
<1>8. Resting(u)' => pc'[g] = "idle" /\ feed[u] = << >>
  BY DEF Resting, Busy, Private
<1>9. LiveInv'
  BY <1>7, <1>8 DEF LiveInv, Private
<1>10. GoneInv'
  <2> SUFFICES ASSUME NEW v \in Uids, Resting(v)', live[v] = Gone
               PROVE  \/ ror'[v] = NoHash
                      \/ v \in failed' \cup unswept \cup late' \cup missed \cup unconverted
                      \/ v \in inactive
                      \/ /\ sweep \in {"scheduled", "collect"}
                         /\ hashList'[v].hash # NoHash
                         /\ ~hashList'[v].active
    BY DEF GoneInv, Explained, Private
  <2>1. CASE v = u
    BY <1>8, <2>1
  <2>2. CASE v # u
    BY <1>7, <2>2 DEF GoneInv, Explained, Private
  <2> QED
    BY <2>1, <2>2
<1> QED
  BY <1>2, <1>3, <1>4, <1>5, <1>6, <1>9, <1>10 DEF Parts

LEMMA MarkActiveInv ==
  ASSUME ConstantsAssumption, IInv, NEW g \in Gvrs, MarkActive(g)
  PROVE  Parts'
<1> USE DEF IInv
<1> DEFINE u == current[g].uid
<1>1. pc[g] = "mark" /\ u \in Uids /\ current[g].action # "Delete"
  BY DEF MarkActive, CurrentInv, Update
<1>2. /\ hashList'[u].hash = hashList[u].hash
      /\ hashList'[u].hash = NoHash \/ hashList'[u].active
      /\ \A v \in Uids \ {u} : hashList'[v] = hashList[v]
  <2>1. CASE hashList[u].hash = NoHash
    BY <2>1 DEF MarkActive, Marked
  <2>2. CASE hashList[u].hash # NoHash
    <3>1. hashList' = [hashList EXCEPT ![u] = [hashList[u] EXCEPT !.active = TRUE]]
      BY <2>2 DEF MarkActive, Marked
    <3>2. hashList[u] \in [hash : Hashes \cup {NoHash}, active : BOOLEAN]
      BY <1>1 DEF TypeOK
    <3>3. /\ [hashList[u] EXCEPT !.active = TRUE].hash = hashList[u].hash
          /\ [hashList[u] EXCEPT !.active = TRUE].active = TRUE
      BY <3>2
    <3> QED
      BY <1>1, <3>1, <3>3 DEF TypeOK
  <2> QED
    BY <2>1, <2>2
<1>3. Private(g, u)
  BY <1>2 DEF MarkActive, Private, TypeOK, cluster, sweeper, history
<1>4. /\ ror' = ror /\ failed' = failed /\ late' = late
      /\ pc'[g] = "check" /\ current'[g] = current[g]
  BY DEF MarkActive, TypeOK, history
<1>5. \A w \in Gvrs : pc[w] = "hash" => current[w].uid # u
  BY <1>1, Owner DEF Busy
<1>6. hashList[u].hash # NoHash /\ live[u] # Gone =>
        ror[u] = hashList[u].hash \/ u \in failed \cup late
  BY <1>1, <1>5 DEF HashInv
<1>7. hashList[u].active => hashList'[u].active
  BY DEF MarkActive, Marked, TypeOK
<1> HIDE DEF u
<1>8. current[g].uid = u
  BY DEF u
<1> QED
  BY <1>1, <1>2, <1>3, <1>4, <1>6, <1>7, <1>8, PrivateStep

LEMMA CheckInv ==
  ASSUME ConstantsAssumption, IInv, NEW g \in Gvrs, Check(g)
  PROVE  Parts'
<1> USE DEF IInv
<1> DEFINE u == current[g].uid
<1>1. pc[g] = "check" /\ u \in Uids /\ current[g].action # "Delete"
  BY DEF Check, CurrentInv, Update
<1>2. Private(g, u)
  BY DEF Check, Private, TypeOK, cluster, cache, sweeper, history
<1>3. /\ ror' = ror /\ hashList' = hashList /\ failed' = failed /\ late' = late
      /\ \/ pc'[g] = "send" /\ current'[g] = current[g]
         \/ pc'[g] = "idle" /\ hashList[u].hash = current[g].hash
  BY DEF Check, CheckUpdateNeeded, TypeOK, cache, history
<1>4. \A w \in Gvrs : pc[w] = "hash" => current[w].uid # u
  BY <1>1, Owner DEF Busy
<1>5. hashList[u].hash # NoHash /\ live[u] # Gone =>
        ror[u] = hashList[u].hash \/ u \in failed \cup late
  BY <1>1, <1>4 DEF HashInv
<1>6. feed[u] = << >> =>
        live[u] \in Hashes /\ live[u] # Gone /\ current[g].hash = live[u] /\ live[u] # NoHash
  BY <1>1 DEF CurrentInv, Agrees, ConstantsAssumption
<1> HIDE DEF u
<1>7. current[g].uid = u
  BY DEF u
<1> QED
  BY <1>1, <1>2, <1>3, <1>5, <1>6, <1>7, PrivateStep

LEMMA SendInv ==
  ASSUME ConstantsAssumption, IInv, NEW g \in Gvrs,
         NEW outcome \in Outcomes, Send(g, outcome)
  PROVE  Parts'
<1> USE DEF IInv
<1> DEFINE u == current[g].uid
<1>1. pc[g] = "send" /\ u \in Uids
  BY DEF Send, CurrentInv, Update
<1>2. Private(g, u)
  BY <1>1 DEF Send, Private, TypeOK, cluster, cache, sweeper
<1>3. hashList' = hashList /\ inactive' = inactive
  BY DEF Send, cache, sweeper
<1>4. \A w \in Gvrs : pc[w] = "hash" => current[w].uid # u
  BY <1>1, Owner DEF Busy
<1>5. hashList[u].hash # NoHash /\ live[u] # Gone =>
        ror[u] = hashList[u].hash \/ u \in failed \cup late
  BY <1>1, <1>4 DEF HashInv
<1>6. feed[u] = << >> => Agrees(u, current[g])
  BY <1>1 DEF CurrentInv
<1>7. current[g].action = "Delete" => feed[u] = << >> /\ live[u] = Gone
  BY <1>1, <1>6 DEF CurrentInv, Agrees
<1>8. CASE outcome = "ok" /\ current[g].action = "Delete"
  <2>1. /\ pc'[g] = "idle" /\ ror'[u] = NoHash
        /\ u \in inactive /\ u \in late => u \in late'
    BY <1>1, <1>8 DEF Send, TypeOK, Stored
  <2>2. live[u] = Gone /\ live[u] \notin Hashes
    BY <1>7, <1>8 DEF ConstantsAssumption
  <2> HIDE DEF u
  <2>3. current[g].uid = u
    BY DEF u
  <2> QED
    BY <1>1, <1>2, <1>3, <2>1, <2>2, <2>3, PrivateStep
<1>9. CASE outcome = "ok" /\ current[g].action # "Delete"
  <2>1. /\ pc'[g] = "hash" /\ ror'[u] = current[g].hash /\ current'[g] = current[g]
        /\ u \in inactive /\ u \in late => u \in late'
    BY <1>1, <1>9 DEF Send, TypeOK, Stored
  <2> HIDE DEF u
  <2>2. current[g].uid = u
    BY DEF u
  <2> QED
    BY <1>1, <1>2, <1>3, <1>9, <2>1, <2>2, PrivateStep
<1>10. CASE outcome # "ok"
  <2>1. /\ pc'[g] = "add" /\ current'[g] = current[g]
        /\ u \in failed' /\ late' = late
    BY <1>1, <1>10 DEF Send, TypeOK
  <2> HIDE DEF u
  <2>2. current[g].uid = u
    BY DEF u
  <2> QED
    BY <1>1, <1>2, <1>3, <2>1, <2>2, PrivateStep
<1> QED
  BY <1>8, <1>9, <1>10

LEMMA UpdateHashInv ==
  ASSUME ConstantsAssumption, IInv, NEW g \in Gvrs, UpdateHash(g)
  PROVE  Parts'
<1> USE DEF IInv
<1> DEFINE u == current[g].uid
<1>1. pc[g] = "hash" /\ u \in Uids /\ current[g].action # "Delete"
  BY DEF UpdateHash, CurrentInv, Update
<1>2. Private(g, u)
  BY <1>1 DEF UpdateHash, Private, TypeOK, cluster, sweeper, history
<1>3. /\ ror' = ror /\ failed' = failed /\ late' = late /\ pc'[g] = "idle"
  BY DEF UpdateHash, TypeOK, history
<1>4. /\ hashList'[u].hash = current[g].hash
      /\ hashList[u].hash = NoHash => hashList'[u].active
      /\ hashList[u].active => hashList'[u].active
  BY <1>1 DEF UpdateHash, TypeOK
<1>5. ror[u] = current[g].hash \/ u \in late \/ live[u] = Gone
  BY <1>1 DEF CurrentInv
<1>6. feed[u] = << >> => live[u] \in Hashes /\ live[u] # Gone /\ current[g].hash = live[u]
  BY <1>1 DEF CurrentInv, Agrees, ConstantsAssumption
<1> HIDE DEF u
<1>7. current[g].uid = u
  BY DEF u
<1> QED
  BY <1>1, <1>2, <1>3, <1>4, <1>5, <1>6, <1>7, PrivateStep

\* Both halves of Workqueue.Add, unless the second panics.
LEMMA AddStepInv ==
  ASSUME ConstantsAssumption, IInv, NEW g \in Gvrs,
         pc[g] \in {"add", "write"}, pc'[g] \in {"write", "idle"},
         pc'[g] # "idle" => current'[g] = current[g],
         \A w \in Gvrs \ {g} : pc'[w] = pc[w] /\ current'[w] = current[w],
         UNCHANGED <<cluster, ror, hashList, cleanupRunning, sweeper, causes>>
  PROVE  Parts'
<1> USE DEF IInv
<1> DEFINE u == current[g].uid
<1>1. u \in Uids /\ u \in failed
  BY DEF CurrentInv, Update
<1>2. Private(g, u)
  BY DEF Private, cluster, sweeper, causes
<1>3. ror' = ror /\ failed' = failed /\ late' = late /\ hashList' = hashList
  BY DEF causes
<1> HIDE DEF u
<1>4. current[g].uid = u
  BY DEF u
<1> QED
  BY <1>1, <1>2, <1>3, <1>4, PrivateStep

LEMMA AddBeginInv ==
  ASSUME ConstantsAssumption, IInv, NEW g \in Gvrs, AddBegin(g)
  PROVE  Parts'
<1>1. /\ pc[g] = "add" /\ pc'[g] = "write" /\ current' = current
      /\ \A w \in Gvrs \ {g} : pc'[w] = pc[w]
      /\ UNCHANGED <<cluster, ror, hashList, cleanupRunning, sweeper, causes>>
  BY DEF AddBegin, IInv, TypeOK, cache, causes, history
<1> QED
  BY <1>1, AddStepInv

LEMMA AddEndInv ==
  ASSUME ConstantsAssumption, IInv, NEW g \in Gvrs, AddEnd(g)
  PROVE  Parts'
<1> DEFINE id == GetByUid(header[g], current[g].uid)
<1>1. CASE id > 0 /\ id + 1 \notin DOMAIN workqueue
  BY <1>1, BootInv DEF AddEnd
<1>2. CASE ~(id > 0 /\ id + 1 \notin DOMAIN workqueue)
  <2>1. /\ pc[g] = "write"
        /\ pc' = [pc EXCEPT ![g] = "idle"]
        /\ current' = [current EXCEPT ![g] = NoUpdate]
        /\ UNCHANGED <<cluster, ror, hashList, cleanupRunning, sweeper, causes>>
    BY <1>2 DEF AddEnd, causes
  <2>2. /\ pc'[g] = "idle"
        /\ \A w \in Gvrs \ {g} : pc'[w] = pc[w] /\ current'[w] = current[w]
    BY <2>1 DEF IInv, TypeOK
  <2> QED
    BY <2>1, <2>2, AddStepInv
<1> QED
  BY <1>1, <1>2
-----------------------------------------------------------------------------
(* The inductive invariant: the cleanup *)

LEMMA FinnishCleanupInv ==
  ASSUME ConstantsAssumption, IInv, FinnishCleanup
  PROVE  Parts'
<1> USE DEF IInv, FinnishCleanup, cluster, sending, history
<1>1. FeedInv' /\ CurrentInv'
  BY DEF FeedInv, CurrentInv, Agrees
<1>2. UnbornInv' /\ HashInv' /\ LiveInv'
  BY DEF UnbornInv, HashInv, LiveInv, Resting, Busy
<1>3. SweepInv'
  BY DEF SweepInv, Marking
<1>4. GoneInv'
  BY DEF GoneInv, Resting, Busy, Explained
<1> QED
  BY <1>1, <1>2, <1>3, <1>4 DEF Parts

LEMMA GetInactiveUidInv ==
  ASSUME ConstantsAssumption, IInv, GetInactiveUid
  PROVE  Parts'
<1> USE DEF IInv
<1> DEFINE found == {u \in Uids : hashList[u].hash # NoHash /\ ~hashList[u].active}
<1>1. /\ sweep = "collect"
      /\ sweep' = IF found = {} THEN "done" ELSE "delete"
      /\ inactive' = found
      /\ late' = late \cup {u \in found : live[u] \in Hashes}
      /\ live' = live /\ feed' = feed /\ ror' = ror /\ hashList' = hashList
      /\ pc' = pc /\ current' = current /\ cleanupRunning' = cleanupRunning
      /\ failed' = failed /\ unswept' = unswept /\ missed' = missed /\ marked' = marked
      /\ slipped' = {u \in found : Marking(u)} /\ unconverted' = unconverted
  BY DEF GetInactiveUid, Marking, cluster, cache, sending
<1>2. FeedInv'
  BY <1>1 DEF FeedInv, Agrees
<1>3. CurrentInv'
  <2> HIDE DEF found
  <2> QED
    BY <1>1 DEF CurrentInv, Agrees
<1>4. UnbornInv' /\ HashInv' /\ LiveInv'
  BY <1>1 DEF UnbornInv, HashInv, LiveInv, Resting, Busy
<1>5. SweepInv'
  <2>1. \A u \in found : u \in late' \/ live[u] = Gone
    BY <1>1 DEF UnbornInv, TypeOK
  <2>2. /\ marked \cap found \subseteq slipped'
        /\ \A u \in Uids : Marking(u)' <=> Marking(u)
    BY <1>1 DEF SweepInv, Marking
  <2>4. \A u \in marked' : hashList'[u].hash = NoHash \/ hashList'[u].active \/ Marking(u)'
    BY <1>1, <2>2 DEF SweepInv, TypeOK
  <2>3. (sweep' = "scheduled" <=> sweep = "scheduled") /\ (sweep' # "delete" => found = {})
    BY <1>1
  <2> HIDE DEF found
  <2> QED
    BY <1>1, <2>1, <2>2, <2>3, <2>4 DEF SweepInv
<1>6. GoneInv'
  <2> SUFFICES ASSUME NEW u \in Uids, Resting(u), live[u] = Gone,
                      ror[u] # NoHash, ~Explained(u)
               PROVE  u \in found
    BY <1>1 DEF GoneInv, Resting, Busy, Explained
  <2>1. inactive = {}
    BY <1>1 DEF SweepInv
  <2> QED
    BY <2>1 DEF GoneInv
<1> QED
  BY <1>2, <1>3, <1>4, <1>5, <1>6 DEF Parts

LEMMA DeleteInactiveInv ==
  ASSUME ConstantsAssumption, IInv, NEW u \in Uids,
         NEW outcome \in Outcomes, DeleteInactive(u, outcome)
  PROVE  Parts'
<1> USE DEF IInv
<1>1. /\ sweep = "delete" /\ u \in inactive
      /\ inactive' = inactive \ {u}
      /\ sweep' = IF inactive = {u} THEN "done" ELSE "delete"
      /\ live' = live /\ feed' = feed /\ hashList' = hashList
      /\ pc' = pc /\ current' = current /\ cleanupRunning' = cleanupRunning
      /\ failed' = failed /\ late' = late /\ missed' = missed /\ marked' = marked
      /\ slipped' = slipped /\ unconverted' = unconverted
  BY DEF DeleteInactive, cluster, cache, sending
<1>2. /\ \A v \in Uids \ {u} : ror'[v] = ror[v] /\ (v \in unswept' <=> v \in unswept)
      /\ ror'[u] = NoHash \/ (ror' = ror /\ u \in unswept')
  BY DEF DeleteInactive, TypeOK
<1>3. u \in late \/ live[u] = Gone
  BY <1>1 DEF SweepInv
<1>4. FeedInv'
  BY <1>1 DEF FeedInv, Agrees
<1>5. CurrentInv'
  <2>1. \A g \in Gvrs : pc[g] = "hash" =>
          \/ ror'[current[g].uid] = current[g].hash
          \/ current[g].uid \in late \/ live[current[g].uid] = Gone
    <3> SUFFICES ASSUME NEW g \in Gvrs, pc[g] = "hash"
                 PROVE  \/ ror'[current[g].uid] = current[g].hash
                        \/ current[g].uid \in late \/ live[current[g].uid] = Gone
      OBVIOUS
    <3>1. current[g].uid \in Uids
      BY DEF CurrentInv, Update
    <3> QED
      BY <1>2, <1>3, <3>1 DEF CurrentInv
  <2> QED
    BY <1>1, <2>1 DEF CurrentInv, Agrees
<1>6. UnbornInv'
  <2>1. \A v \in Uids : ror'[v] \in {ror[v], NoHash}
    BY <1>2
  <2> QED
    BY <1>1, <2>1 DEF UnbornInv, Busy
<1>7. SweepInv'
  <2>1. sweep' # "delete" => inactive' = {}
    BY <1>1
  <2> QED
    BY <1>1, <2>1 DEF SweepInv, Marking
<1>8. HashInv'
  <2> SUFFICES ASSUME NEW v \in Uids, hashList[v].hash # NoHash, live[v] # Gone
               PROVE  \/ ror'[v] = hashList[v].hash
                      \/ v \in failed \cup late
                      \/ \E g \in Gvrs : pc[g] = "hash" /\ current[g].uid = v
    BY <1>1 DEF HashInv
  <2> QED
    BY <1>2, <1>3 DEF HashInv
<1>9. LiveInv'
  BY <1>1, <1>2, <1>3 DEF LiveInv, Resting, Busy, ConstantsAssumption
<1>10. GoneInv'
  <2> SUFFICES ASSUME NEW v \in Uids, Resting(v), live[v] = Gone
               PROVE  \/ ror'[v] = NoHash
                      \/ v \in failed \cup unswept' \cup late \cup missed \cup unconverted
                      \/ v \in inactive'
    BY <1>1 DEF GoneInv, Resting, Busy, Explained
  <2>1. CASE v = u
    BY <1>2, <2>1
  <2>2. CASE v # u
    BY <1>1, <1>2, <2>2 DEF GoneInv, Explained
  <2> QED
    BY <2>1, <2>2
<1> QED
  BY <1>4, <1>5, <1>6, <1>7, <1>8, <1>9, <1>10 DEF Parts
-----------------------------------------------------------------------------
(* The theorems *)

\* A step that leaves everything the invariant mentions alone: the runner's
\* tick and a step of anything else.
LEMMA QuietStep ==
  ASSUME IInv,
         UNCHANGED <<live, feed, ror, hashList, cleanupRunning, pc, current, sweeper, history>>
  PROVE  Parts'
<1> USE DEF IInv, sweeper, history
<1>1. FeedInv' /\ CurrentInv'
  BY DEF FeedInv, CurrentInv, Agrees
<1>2. UnbornInv' /\ HashInv' /\ LiveInv'
  BY DEF UnbornInv, HashInv, LiveInv, Resting, Busy
<1>3. SweepInv' /\ GoneInv'
  BY DEF SweepInv, Marking, GoneInv, Resting, Busy, Explained
<1> QED
  BY <1>1, <1>2, <1>3 DEF Parts

LEMMA InitInv == ASSUME ConstantsAssumption, Init PROVE IInv
<1>1. TypeOK
  BY InitType
<1>2. /\ \A u \in Uids : feed[u] = Listing(u)
      /\ \A u \in Uids : hashList[u].hash = ror[u] /\ hashList[u].active = FALSE
      /\ \A g \in Gvrs : pc[g] = "idle"
      /\ cleanupRunning = TRUE /\ sweep = "scheduled" /\ inactive = {} /\ marked = {}
      /\ \A u \in Uids : live[u] = Unborn => ror[u] = NoHash
  BY DEF Init, GetHashList
<1>3. FeedInv /\ CurrentInv
  BY <1>2, ListingAgrees DEF FeedInv, CurrentInv, Agrees
<1>4. UnbornInv /\ HashInv /\ LiveInv
  BY <1>2, ListingAgrees DEF UnbornInv, HashInv, LiveInv, Resting, Busy, ConstantsAssumption
<1>5. SweepInv /\ GoneInv
  BY <1>2 DEF SweepInv, GoneInv
<1> QED
  BY <1>1, <1>3, <1>4, <1>5 DEF IInv

LEMMA StepInv == ASSUME ConstantsAssumption, IInv, [Next]_vars PROVE IInv'
<1>0. TypeOK /\ HasCurrent
  BY DEF IInv, CurrentInv, HasCurrent
<1>1. CASE Environment
  <2>1. TypeOK'
    BY <1>0, <1>1, EnvironmentType
  <2>2. Parts'
    BY <1>1, ClusterChangeInv, ClusterDeleteInv, RelistInv, BootInv DEF Environment, Restart
  <2> QED
    BY <2>1, <2>2 DEF IInv, Parts
<1>2. ASSUME NEW g \in Gvrs, Watcher(g) PROVE IInv'
  <2>1. TypeOK'
    BY <1>0, <1>2, WatcherType
  <2>2. Parts'
    BY <1>2, SendResourceInv, SendResourceFailsInv, MarkActiveInv, CheckInv, SendInv, UpdateHashInv,
       AddBeginInv, AddEndInv
    DEF Watcher
  <2> QED
    BY <2>1, <2>2 DEF IInv, Parts
<1>3. CASE Cleanup
  <2>1. TypeOK'
    BY <1>0, <1>3, CleanupType
  <2>2. Parts'
    BY <1>3, FinnishCleanupInv, GetInactiveUidInv, DeleteInactiveInv DEF Cleanup
  <2> QED
    BY <2>1, <2>2 DEF IInv, Parts
<1>4. CASE RunWorkqueScheduler
  <2>1. TypeOK'
    <3>1. retried' \in BOOLEAN
      BY <1>4 DEF RunWorkqueScheduler
    <3> QED
      BY <1>0, <1>4, <3>1 DEF RunWorkqueScheduler, TypeOK, cluster, sending, sweeper, history
  <2>2. Parts'
    BY <1>4, QuietStep DEF RunWorkqueScheduler, cluster, sending
  <2> QED
    BY <2>1, <2>2 DEF IInv, Parts
<1>5. CASE UNCHANGED vars
  <2>1. TypeOK'
    BY <1>0, <1>5 DEF TypeOK, vars, cluster, cache, sending, sweeper, history
  <2>2. Parts'
    BY <1>5, QuietStep DEF vars, cluster, cache, sending
  <2> QED
    BY <2>1, <2>2 DEF IInv, Parts
<1> QED
  BY <1>1, <1>2, <1>3, <1>4, <1>5 DEF Next

\* IInv holds in every reachable state, the type invariant included: every
\* step of a watcher, of the cleanup, of the cluster and every restart keeps
\* the hash list, the queue and what is in hand consistent.
THEOREM Invariance == Spec => []IInv
<1>1. Init => IInv
  BY InitInv, ConstantsAssumption
<1>2. IInv /\ [Next]_vars => IInv'
  BY StepInv, ConstantsAssumption
<1> QED
  BY <1>1, <1>2, PTL DEF Spec

\* The variables of the pipeline always have their types.
THEOREM TypeCorrect == Spec => []TypeOK
<1>1. IInv => TypeOK
  BY DEF IInv
<1> QED
  BY <1>1, Invariance, PTL

\* At rest ROR agrees with the cluster, but for the five causes named.
THEOREM Agreement == Spec => []QuiescentAgreement
<1>1. ASSUME IInv PROVE QuiescentAgreement
  <2> SUFFICES ASSUME NEW u \in Uids, Settled(u)
               PROVE  ror[u] = Desired(u) \/ Explained(u)
    BY DEF QuiescentAgreement
  <2>1. Resting(u) /\ inactive = {} /\ sweep = "done"
    BY <1>1 DEF Settled, Resting, IInv, SweepInv
  <2>2. CASE live[u] \in Hashes
    BY <1>1, <2>1, <2>2 DEF IInv, LiveInv, Desired, Explained
  <2>3. CASE live[u] = Gone
    BY <1>1, <2>1, <2>3, ConstantsAssumption
    DEF IInv, GoneInv, Desired, ConstantsAssumption, Explained
  <2>4. CASE live[u] = Unborn
    BY <1>1, <2>4, ConstantsAssumption
    DEF IInv, UnbornInv, Desired, ConstantsAssumption
  <2>5. live[u] \in Hashes \cup {Unborn, Gone}
    BY <1>1 DEF IInv, TypeOK
  <2> QED
    BY <2>2, <2>3, <2>4, <2>5
<1> QED
  BY <1>1, Invariance, PTL

\* The cleanup deletes nothing that was seen in time, but for what it collects
\* between a watcher's test of the period and its mark.
THEOREM SweepsOnlyUnmarked == Spec => []MarkedNotSwept
<1>1. IInv => MarkedNotSwept
  BY DEF IInv, SweepInv, MarkedNotSwept
<1> QED
  BY <1>1, Invariance, PTL

LEMMA BuriedStep ==
  ASSUME ConstantsAssumption, IInv, [Next]_vars, NEW u \in Uids, Buried(u)
  PROVE  Buried(u)' /\ ror'[u] \in {ror[u], NoHash}
<1> USE DEF IInv
<1>1. /\ live[u] = Gone /\ live[u] \notin Hashes /\ Gone # Unborn /\ feed[u] = << >>
      /\ \A g \in Gvrs : Busy(g, u) => current[g].action = "Delete"
      /\ Listing(u) = << >>
  BY ListingAgrees DEF Buried, ConstantsAssumption
<1>2. ASSUME NEW v \in Uids, NEW h \in Hashes, ClusterChange(v, h)
      PROVE  /\ live'[u] = Gone /\ feed'[u] = << >>
             /\ UNCHANGED <<ror, sending>>
  <2>1. v # u
    BY <1>1, <1>2 DEF ClusterChange
  <2> QED
    BY <1>1, <1>2, <2>1 DEF ClusterChange, TypeOK
<1>3. ASSUME NEW v \in Uids, ClusterDelete(v)
      PROVE  /\ live'[u] = Gone /\ feed'[u] = << >>
             /\ UNCHANGED <<ror, sending>>
  <2>1. v # u
    BY <1>1, <1>3 DEF ClusterDelete
  <2> QED
    BY <1>1, <1>3, <2>1 DEF ClusterDelete, TypeOK
<1>4. ASSUME NEW g \in Gvrs, Relist(g)
      PROVE  /\ live'[u] = Gone /\ feed'[u] = << >>
             /\ UNCHANGED <<ror, sending>>
  BY <1>1, <1>4 DEF Relist
<1>5. ASSUME Boot PROVE Buried(u)' /\ ror'[u] \in {ror[u], NoHash}
  BY <1>1, <1>5 DEF Boot, Buried, Busy
<1>6. CASE Environment
  <2>1. ASSUME /\ live'[u] = Gone /\ feed'[u] = << >>
               /\ UNCHANGED <<ror, sending>>
        PROVE  Buried(u)' /\ ror'[u] \in {ror[u], NoHash}
    BY <1>1, <2>1 DEF Buried, Busy, sending
  <2> QED
    BY <1>2, <1>3, <1>4, <1>5, <1>6, <2>1 DEF Environment, Restart
<1>7. ASSUME NEW g \in Gvrs, Watcher(g)
      PROVE  Buried(u)' /\ ror'[u] \in {ror[u], NoHash}
  <2>1. ASSUME NEW v \in Uids, SendResource(g, v)
        PROVE  Buried(u)' /\ ror'[u] \in {ror[u], NoHash}
    <3>1. v # u /\ feed[v] # << >>
      BY <1>1, <2>1 DEF SendResource, TakeEvent
    <3>2. Head(feed[v]) = feed[v][1] /\ 1 \in DOMAIN feed[v]
      <4>1. feed[v] \in Seq(Update)
        BY DEF TypeOK
      <4> QED
        BY <3>1, <4>1, EmptySeq
    <3>3. Head(feed[v]).uid = v
      BY <3>2 DEF FeedInv
    <3>4. /\ current'[g].uid = v
          /\ \A w \in Gvrs \ {g} : current'[w] = current[w] /\ pc'[w] = pc[w]
          /\ live' = live /\ feed'[u] = feed[u] /\ ror' = ror
      BY <2>1, <3>1, <3>3 DEF SendResource, TakeEvent, TypeOK
    <3> QED
      BY <1>1, <3>1, <3>4 DEF Buried, Busy
  <2>2. ASSUME NEW outcome \in Outcomes, Send(g, outcome)
        PROVE  Buried(u)' /\ ror'[u] \in {ror[u], NoHash}
    <3>1. pc[g] # "idle" /\ (current[g].uid = u => Stored(current[g]) = NoHash)
      BY <1>1, <2>2 DEF Send, Busy, Stored
    <3>2. ror'[u] \in {ror[u], NoHash}
      BY <2>2, <3>1 DEF Send, TypeOK
    <3>3. \A w \in Gvrs : Busy(w, u)' => Busy(w, u) /\ current'[w] = current[w]
      BY <2>2, <3>1 DEF Send, Busy, TypeOK
    <3>4. live' = live /\ feed' = feed
      BY <2>2 DEF Send, cluster
    <3> QED
      BY <1>1, <3>2, <3>3, <3>4 DEF Buried
  <2>3. ASSUME \/ MarkActive(g) \/ Check(g) \/ UpdateHash(g) \/ AddBegin(g)
        PROVE  Buried(u)' /\ ror'[u] \in {ror[u], NoHash}
    <3>1. /\ live' = live /\ feed' = feed /\ ror' = ror
          /\ \A w \in Gvrs : Busy(w, u)' => Busy(w, u) /\ current'[w] = current[w]
      BY <2>3 DEF MarkActive, Check, UpdateHash, AddBegin, Busy, TypeOK, cluster
    <3> QED
      BY <1>1, <3>1 DEF Buried
  <2>4. ASSUME AddEnd(g)
        PROVE  Buried(u)' /\ ror'[u] \in {ror[u], NoHash}
    <3> DEFINE id == GetByUid(header[g], current[g].uid)
    <3>1. CASE id > 0 /\ id + 1 \notin DOMAIN workqueue
      BY <1>5, <2>4, <3>1 DEF AddEnd
    <3>2. CASE ~(id > 0 /\ id + 1 \notin DOMAIN workqueue)
      <4>1. /\ pc[g] # "idle"
            /\ pc' = [pc EXCEPT ![g] = "idle"]
            /\ current' = [current EXCEPT ![g] = NoUpdate]
            /\ live' = live /\ feed' = feed /\ ror' = ror
        BY <2>4, <3>2 DEF AddEnd, cluster
      <4>2. \A w \in Gvrs : Busy(w, u)' => Busy(w, u) /\ current'[w] = current[w]
        BY <4>1 DEF Busy, TypeOK
      <4> QED
        BY <1>1, <4>1, <4>2 DEF Buried
    <3> QED
      BY <3>1, <3>2
  <2>5. ASSUME NEW v \in Uids, SendResourceFails(g, v)
        PROVE  Buried(u)' /\ ror'[u] \in {ror[u], NoHash}
    <3>1. v # u /\ live' = live /\ feed'[u] = feed[u] /\ UNCHANGED <<ror, pc, current>>
      BY <1>1, <2>5 DEF SendResourceFails, TakeEvent, TypeOK, sending
    <3> QED
      BY <1>1, <3>1 DEF Buried, Busy
  <2> QED
    BY <1>7, <2>1, <2>2, <2>3, <2>4, <2>5 DEF Watcher
<1>8. CASE Cleanup \/ RunWorkqueScheduler \/ UNCHANGED vars
  <2>1. /\ live' = live /\ feed' = feed /\ pc' = pc /\ current' = current
        /\ ror'[u] \in {ror[u], NoHash}
    BY <1>8 DEF Cleanup, FinnishCleanup, GetInactiveUid, DeleteInactive, TypeOK,
                RunWorkqueScheduler, vars, cluster, sending
  <2> QED
    BY <1>1, <2>1 DEF Buried, Busy
<1> QED
  BY <1>6, <1>7, <1>8 DEF Next

\* Nothing brings a deleted object back to ROR.
THEOREM Burial == Spec => NoResurrection
<1>1. ASSUME IInv, [Next]_vars
      PROVE  [\A u \in Uids : Buried(u) => Buried(u)' /\ ror'[u] \in {ror[u], NoHash}]_vars
  BY <1>1, BuriedStep, ConstantsAssumption
<1> QED
  BY <1>1, Invariance, PTL DEF Spec, NoResurrection
-----------------------------------------------------------------------------
(* No failed update is lost but to an add that overlaps with its own *)

\* Position i of the queue holds an entry of u, and so does it of the slice of
\* every watcher that is about to publish one.
Kept(u, i) ==
  /\ i \in DOMAIN workqueue /\ workqueue[i].update.uid = u
  /\ \A g \in Gvrs : pc[g] = "write" =>
       i \in DOMAIN header[g] /\ header[g][i].update.uid = u

\* An update that failed is about to be added, or is where no add can lose it.
QueueInv ==
  \A u \in failed \ overtaken :
    \/ \E g \in Gvrs : Busy(g, u) /\ pc[g] \in {"add", "write"}
    \/ \E i \in Nat : Kept(u, i)

\* A step of g that leaves the queue alone.
LEMMA UnqueuedStep ==
  ASSUME QueueInv, NEW g \in Gvrs,
         pc[g] \notin {"add", "write"}, pc'[g] # "write",
         \A w \in Gvrs \ {g} : pc'[w] = pc[w] /\ current'[w] = current[w],
         UNCHANGED <<workqueue, header, overtaken>>,
         \A u \in failed' : u \in failed \/ (Busy(g, u)' /\ pc'[g] = "add")
  PROVE  QueueInv'
<1> SUFFICES ASSUME NEW u \in failed' \ overtaken'
             PROVE  \/ \E w \in Gvrs : Busy(w, u)' /\ pc'[w] \in {"add", "write"}
                    \/ \E i \in Nat : Kept(u, i)'
  BY DEF QueueInv
<1>1. CASE u \notin failed
  BY <1>1
<1>2. CASE u \in failed
  <2>1. ASSUME NEW w \in Gvrs, Busy(w, u), pc[w] \in {"add", "write"}
        PROVE  Busy(w, u)' /\ pc'[w] \in {"add", "write"}
    BY <2>1 DEF Busy
  <2>2. ASSUME NEW i \in Nat, Kept(u, i) PROVE Kept(u, i)'
    BY <2>2 DEF Kept
  <2> QED
    BY <1>2, <2>1, <2>2 DEF QueueInv
<1> QED
  BY <1>1, <1>2

\* Adding keeps an entry that every slice has at its place, and puts its own in.
LEMMA AddEndQueue ==
  ASSUME IInv, QueueInv, NEW g \in Gvrs, AddEnd(g),
         ~(/\ GetByUid(header[g], current[g].uid) > 0
           /\ GetByUid(header[g], current[g].uid) + 1 \notin DOMAIN workqueue)
  PROVE  QueueInv'
<1> USE DEF IInv
<1> DEFINE update == current[g]
           h      == header[g]
           id     == GetByUid(h, update.uid)
           e      == NewEntry(h, update)
<1>1. /\ pc[g] = "write" /\ update \in Update
      /\ h \in Seq(EntryOf(Update)) /\ workqueue \in Seq(EntryOf(Update))
      /\ e \in EntryOf(Update) /\ e.update = update
  BY NewEntryType DEF AddEnd, CurrentInv, TypeOK
<1> DEFINE place == IF id > 0 THEN id + 1 ELSE Len(h) + 1
<1>2. /\ pc' = [pc EXCEPT ![g] = "idle"]
      /\ current' = [current EXCEPT ![g] = NoUpdate]
      /\ failed' = failed
      /\ workqueue' = IF id > 0 THEN ReplaceAt(workqueue, id + 1, e) ELSE Add(h, update)
      /\ overtaken' = IF {w \in Gvrs \ {g} : pc[w] = "write"} # {}
                      THEN overtaken \cup {update.uid}
                      ELSE overtaken \ {update.uid}
  BY DEF AddEnd
<1>3. /\ pc'[g] = "idle"
      /\ \A w \in Gvrs \ {g} : pc'[w] = pc[w] /\ current'[w] = current[w]
  BY <1>2 DEF TypeOK
<1>4. id > 0 => /\ id + 1 \in DOMAIN workqueue
                /\ workqueue' = [workqueue EXCEPT ![id + 1] = e]
  BY <1>2 DEF ReplaceAt
<1>5. id > 0 => id + 1 \in 1 .. Len(h) /\ h[id + 1].update.uid = update.uid
  BY <1>1, GetByUidRange, GetByUidFirst
<1>6. ~(id > 0) => workqueue' = Append(h, e)
  BY <1>2 DEF Add
<1>a. \A w \in Gvrs \ {g} : \/ header'[w] = header[w]
                            \/ header'[w] = Written(header[w], place, e)
  BY DEF AddEnd
<1>b. place \in Nat
  BY <1>1, GetByUidRange, LenProperties
<1> HIDE DEF update, h, id, e
<1>7. h = header[g] /\ DOMAIN h = 1 .. Len(h) /\ DOMAIN workqueue = 1 .. Len(workqueue)
  BY <1>1 DEF h
<1>8. Append(h, e)[Len(h) + 1] = e /\ DOMAIN Append(h, e) = 1 .. (Len(h) + 1)
      /\ \A i \in 1 .. Len(h) : Append(h, e)[i] = h[i]
  BY <1>1, AppendProperties, LenProperties
\* Where another slice shows the entry, the adder's own slice has its uid.
<1>c. ASSUME NEW u, NEW i \in DOMAIN h, h[i].update.uid = u, NEW w \in Gvrs \ {g},
             i \in DOMAIN header[w], header[w][i].update.uid = u
      PROVE  i \in DOMAIN header'[w] /\ header'[w][i].update.uid = u
  <2>1. CASE header'[w] = header[w]
    BY <1>c, <2>1
  <2>2. CASE header'[w] = Written(header[w], place, e)
    <3>1. header[w] \in Seq(EntryOf(Update))
      BY DEF TypeOK
    <3>2. /\ DOMAIN header'[w] = DOMAIN header[w]
          /\ i = place => header'[w][i] = e
          /\ i # place => header'[w][i] = header[w][i]
      <4> HIDE DEF place
      <4>1. e \in EntryOf(Update)
        BY <1>1
      <4>2. DOMAIN Written(header[w], place, e) = DOMAIN header[w]
        BY <1>b, <3>1, <4>1, WrittenAt
      <4>3. i = place => Written(header[w], place, e)[i] = e
        BY <1>b, <1>c, <3>1, <4>1, WrittenAt
      <4>4. i # place => Written(header[w], place, e)[i] = header[w][i]
        BY <1>b, <1>c, <3>1, <4>1, WrittenAt
      <4> QED
        BY <2>2, <4>2, <4>3, <4>4
    <3>3. i = place => u = update.uid
      <4>1. i # Len(h) + 1
        BY <1>1, <1>7, LenProperties
      <4> QED
        BY <1>5, <1>c, <4>1
    <3> QED
      BY <1>1, <1>c, <3>2, <3>3
  <2> QED
    BY <1>a, <2>1, <2>2
<1> HIDE DEF place
<1>9. ASSUME NEW u, NEW i \in Nat, Kept(u, i) PROVE Kept(u, i)'
  <2>1. i \in DOMAIN h /\ h[i].update.uid = u
    BY <1>1, <1>7, <1>9 DEF Kept
  <2>2. i \in DOMAIN workqueue' /\ workqueue'[i].update.uid = u
    <3>1. CASE id > 0
      BY <1>1, <1>4, <1>5, <1>9, <2>1, <3>1 DEF Kept
    <3>2. CASE ~(id > 0)
      BY <1>1, <1>6, <1>7, <1>8, <2>1, <3>2
    <3> QED
      BY <3>1, <3>2
  <2>3. ASSUME NEW w \in Gvrs, pc'[w] = "write"
        PROVE  i \in DOMAIN header'[w] /\ header'[w][i].update.uid = u
    <3>1. w \in Gvrs \ {g} /\ pc[w] = "write"
      BY <1>3, <2>3
    <3>2. i \in DOMAIN header[w] /\ header[w][i].update.uid = u
      BY <1>9, <3>1 DEF Kept
    <3> QED
      BY <1>c, <2>1, <3>1, <3>2
  <2> QED
    BY <2>2, <2>3 DEF Kept
<1>10. ASSUME NEW u, u = update.uid, u \notin overtaken'
       PROVE  \E i \in Nat : Kept(u, i)'
  <2>1. \A w \in Gvrs : pc'[w] # "write"
    BY <1>2, <1>3, <1>10
  <2>2. \E i \in Nat : i \in DOMAIN workqueue' /\ workqueue'[i].update.uid = u
    <3>1. CASE id > 0
      <4>1. id + 1 \in Nat
        BY <1>5, <3>1
      <4> QED
        BY <1>1, <1>4, <1>10, <3>1, <4>1
    <3>2. CASE ~(id > 0)
      <4>1. Len(h) + 1 \in Nat /\ Len(h) + 1 \in 1 .. (Len(h) + 1)
        BY <1>1, LenProperties
      <4> QED
        BY <1>1, <1>6, <1>8, <1>10, <3>2, <4>1
    <3> QED
      BY <3>1, <3>2
  <2> QED
    BY <2>1, <2>2 DEF Kept
<1> SUFFICES ASSUME NEW u \in failed \ overtaken'
             PROVE  \/ \E w \in Gvrs : Busy(w, u)' /\ pc'[w] \in {"add", "write"}
                    \/ \E i \in Nat : Kept(u, i)'
  BY <1>2 DEF QueueInv
<1>11. CASE u = update.uid
  BY <1>10, <1>11
<1>12. CASE u # update.uid
  <2>1. u \in failed \ overtaken
    BY <1>2, <1>12
  <2>2. \A w \in Gvrs : Busy(w, u) /\ pc[w] \in {"add", "write"} =>
          Busy(w, u)' /\ pc'[w] \in {"add", "write"}
    BY <1>3, <1>12 DEF Busy, update
  <2> QED
    BY <1>9, <2>1, <2>2 DEF QueueInv
<1> QED
  BY <1>11, <1>12

LEMMA QueueStep ==
  ASSUME ConstantsAssumption, IInv, QueueInv, [Next]_vars
  PROVE  QueueInv'
<1> USE DEF IInv
<1>1. ASSUME UNCHANGED <<workqueue, pc, current, header, failed, overtaken>> PROVE QueueInv'
  BY <1>1 DEF QueueInv, Kept, Busy
<1>2. ASSUME Boot PROVE QueueInv'
  BY <1>2 DEF Boot, QueueInv
<1>3. CASE Environment
  BY <1>1, <1>2, <1>3
  DEF Environment, ClusterChange, ClusterDelete, Relist, Restart, cache, sending, history
<1>4. CASE Cleanup \/ RunWorkqueScheduler \/ UNCHANGED vars
  BY <1>1, <1>4
  DEF Cleanup, FinnishCleanup, GetInactiveUid, DeleteInactive, RunWorkqueScheduler,
      cache, sending, history, vars
<1>5. ASSUME NEW g \in Gvrs, Watcher(g) PROVE QueueInv'
  <2>1. ASSUME NEW u \in Uids, SendResource(g, u) PROVE QueueInv'
    <3>1. /\ pc[g] = "idle" /\ pc'[g] \in {"send", "mark", "check"}
          /\ \A w \in Gvrs \ {g} : pc'[w] = pc[w] /\ current'[w] = current[w]
          /\ UNCHANGED <<workqueue, header, overtaken, failed>>
      BY <2>1 DEF SendResource, TakeEvent, TypeOK, cache
    <3> QED
      BY <3>1, UnqueuedStep
  <2>2. CASE MarkActive(g) \/ Check(g) \/ UpdateHash(g)
    <3>1. /\ pc[g] \notin {"add", "write"} /\ pc'[g] # "write"
          /\ \A w \in Gvrs \ {g} : pc'[w] = pc[w] /\ current'[w] = current[w]
          /\ UNCHANGED <<workqueue, header, overtaken, failed>>
      BY <2>2 DEF MarkActive, Check, UpdateHash, TypeOK, cache, history
    <3> QED
      BY <3>1, UnqueuedStep
  <2>3. ASSUME NEW outcome \in Outcomes, Send(g, outcome) PROVE QueueInv'
    <3>1. /\ pc[g] = "send" /\ pc'[g] # "write"
          /\ \A w \in Gvrs \ {g} : pc'[w] = pc[w] /\ current'[w] = current[w]
          /\ UNCHANGED <<workqueue, header, overtaken>>
      BY <2>3 DEF Send, TypeOK, cache
    <3>2. \A u \in failed' : u \in failed \/ (Busy(g, u)' /\ pc'[g] = "add")
      BY <2>3 DEF Send, TypeOK, Busy
    <3> QED
      BY <3>1, <3>2, UnqueuedStep
  <2>4. CASE AddBegin(g)
    <3>1. /\ pc[g] = "add" /\ pc' = [pc EXCEPT ![g] = "write"]
          /\ header' = [header EXCEPT ![g] = workqueue]
          /\ UNCHANGED <<workqueue, current, failed, overtaken>>
      BY <2>4 DEF AddBegin, cache, history
    <3>2. \A u : \A i \in Nat : Kept(u, i) => Kept(u, i)'
      BY <3>1 DEF Kept, TypeOK
    <3>3. \A w \in Gvrs : \A u : Busy(w, u) /\ pc[w] \in {"add", "write"} =>
            Busy(w, u)' /\ pc'[w] \in {"add", "write"}
      BY <3>1 DEF Busy, TypeOK
    <3> QED
      BY <3>1, <3>2, <3>3 DEF QueueInv
  <2>5. CASE AddEnd(g)
    <3>1. CASE /\ GetByUid(header[g], current[g].uid) > 0
               /\ GetByUid(header[g], current[g].uid) + 1 \notin DOMAIN workqueue
      BY <1>2, <2>5, <3>1 DEF AddEnd
    <3> QED
      BY <2>5, <3>1, AddEndQueue
  <2>6. ASSUME NEW u \in Uids, SendResourceFails(g, u) PROVE QueueInv'
    BY <1>1, <2>6 DEF SendResourceFails, cache, sending
  <2> QED
    BY <1>5, <2>1, <2>2, <2>3, <2>4, <2>5, <2>6 DEF Watcher
<1> QED
  BY <1>3, <1>4, <1>5 DEF Next

\* However many watchers there are, an update whose last send failed is in the
\* retry queue when SendResource is done with it, and is not lost from there,
\* unless another add was under way when its own ended.
THEOREM FailuresAreQueued == Spec => []FailedIsQueued
<1>1. Init => QueueInv
  BY DEF Init, QueueInv
<1>2. IInv /\ QueueInv /\ [Next]_vars => QueueInv'
  BY QueueStep, ConstantsAssumption
<1>3. QueueInv => FailedIsQueued
  BY DEF QueueInv, Kept, FailedIsQueued, Queued, HoldsUid
<1> QED
  BY <1>1, <1>2, <1>3, Invariance, PTL DEF Spec

LEMMA FeedStep ==
  ASSUME [Next]_vars
  PROVE  [F!Next]_<<live, feed>>
<1>1. CASE UNCHANGED <<live, feed>>
  BY <1>1
<1>2. ASSUME NEW listed \in SUBSET Uids, UNCHANGED live,
             feed' = [u \in Uids |-> IF u \in listed THEN Listing(u) ELSE feed[u]]
      PROVE  F!Next
  <2>1. F!Relist(listed)
    BY <1>2 DEF F!Relist, F!Listing, Listing
  <2> QED
    BY <2>1 DEF F!Next
<1>3. CASE Boot
  <2>1. UNCHANGED live /\ feed' = [u \in Uids |-> Listing(u)]
    BY <1>3 DEF Boot
  <2>2. feed' = [u \in Uids |-> IF u \in Uids THEN Listing(u) ELSE feed[u]]
    BY <2>1
  <2> QED
    BY <1>2, <2>1, <2>2
<1>4. ASSUME NEW u \in Uids, NEW h \in Hashes, ClusterChange(u, h)
      PROVE  F!Next
  <2>1. F!Change(u, h)
    BY <1>4 DEF ClusterChange, F!Change, F!Append1
  <2> QED
    BY <2>1 DEF F!Next
<1>5. ASSUME NEW u \in Uids, ClusterDelete(u)
      PROVE  F!Next
  <2>1. F!Delete(u)
    BY <1>5 DEF ClusterDelete, F!Delete, F!Append1
  <2> QED
    BY <2>1 DEF F!Next
<1>6. ASSUME NEW g \in Gvrs, Relist(g)
      PROVE  F!Next
  <2> DEFINE mine == {u \in Uids : GvrOf[u] = g}
  <2>1. /\ UNCHANGED live
        /\ feed' = [u \in Uids |-> IF u \in mine THEN Listing(u) ELSE feed[u]]
    BY <1>6 DEF Relist
  <2>2. mine \in SUBSET Uids
    OBVIOUS
  <2> HIDE DEF mine
  <2> QED
    BY <1>2, <2>1, <2>2
<1>7. ASSUME NEW g \in Gvrs, NEW u \in Uids, SendResource(g, u) \/ SendResourceFails(g, u)
      PROVE  F!Next
  <2>1. F!Handle(u)
    BY <1>7 DEF SendResource, SendResourceFails, TakeEvent, F!Handle
  <2> QED
    BY <2>1 DEF F!Next
<1>8. CASE Environment
  BY <1>3, <1>4, <1>5, <1>6, <1>8 DEF Environment, Restart
<1>9. ASSUME NEW g \in Gvrs, Watcher(g)
      PROVE  F!Next \/ UNCHANGED <<live, feed>>
  <2>1. CASE AddEnd(g)
    BY <1>3, <2>1 DEF AddEnd, cluster
  <2> QED
    BY <1>7, <1>9, <2>1 DEF Watcher, MarkActive, Check, Send, UpdateHash, AddBegin, cluster
<1>10. CASE Cleanup \/ RunWorkqueScheduler \/ UNCHANGED vars
  BY <1>10 DEF Cleanup, FinnishCleanup, GetInactiveUid, DeleteInactive,
               RunWorkqueScheduler, cluster, vars
<1> QED
  BY <1>8, <1>9, <1>10 DEF Next

\* The events that the watchers work on are those of a Feed: per object in
\* order, and lost only by a new listing, of which a restart is one.
THEOREM PipelineImplementsFeed == Spec => ImplementsFeed
<1>1. Init => F!Init
  BY DEF Init, F!Init, F!Listing, Listing
<1> QED
  BY <1>1, FeedStep, PTL DEF Spec, ImplementsFeed, F!Spec, F!vars

\* The events that an object's watcher has yet to hand over end with its
\* present state or its deletion, over relists and restarts.
\* (SendResource, MustInit)
THEOREM PendingEventsTell == Spec => []F!EventsTell
<1>1. IInv => F!EventsTell
  <2> SUFFICES ASSUME IInv, NEW u \in Uids
               PROVE  /\ \A i \in DOMAIN feed[u] :
                           i = Len(feed[u]) \/ feed[u][i].action # "Delete"
                      /\ feed[u] # << >> => F!Tells(u, feed[u][Len(feed[u])])
                      /\ live[u] = Unborn => feed[u] = << >>
    BY DEF F!EventsTell
  <2>1. feed[u] \in Seq(Update) /\ Len(feed[u]) \in Nat /\ DOMAIN feed[u] = 1 .. Len(feed[u])
    BY LenProperties DEF IInv, TypeOK
  <2>2. feed[u] # << >> => Len(feed[u]) \in DOMAIN feed[u]
    BY <2>1, EmptySeq
  <2>3. Gone \notin Hashes
    BY ConstantsAssumption DEF ConstantsAssumption
  <2> QED
    BY <2>1, <2>2, <2>3 DEF IInv, FeedInv, Agrees, UnbornInv, F!Tells
<1> QED
  BY <1>1, Invariance, PTL
=============================================================================
