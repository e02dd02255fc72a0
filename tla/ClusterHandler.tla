--------------------------- MODULE ClusterHandler ---------------------------
(***************************************************************************)
(* Start and updateClusterResource of v2/internal/handlers/clusterhandler, *)
(* on top of Registration: once an agent is up it gives the cluster a uid, *)
(* as the KubernetesCluster resource of ROR, and from then on the          *)
(* resources that the dynamic client handler sends are owned by that uid.  *)
(* Each process that finds no such resource makes a uid of its own, so two *)
(* pods can make two.                                                      *)
(*                                                                         *)
(*   handler  "off"; "register" in the synchronous Update of Start;        *)
(*            "running", when the watchers are too; "reregister" in the    *)
(*            synchronous Update of a tick                                 *)
(*   owner    the Ownerref of the client, NoUid while it is the cluster id *)
(*   queued   the uid of the update that AddResource left in the cache     *)
(*   uuids    uids made so far; the API answers a query in the order in    *)
(*            which the resources were stored (store)                      *)
(*   removed  history: a KubernetesCluster resource was removed from ROR   *)
(***************************************************************************)
EXTENDS Registration

CONSTANT MaxUids   \* bound: uids made before ticks stop failing

VARIABLES handler, owner, queued, uuids, removed

handlerVars == <<handler, owner, queued, uuids, removed>>
clusterVars == <<vars, handlerVars>>

ClusterInit ==
  /\ Init
  /\ handler = [a \in Agents |-> "off"]
  /\ owner = [a \in Agents |-> NoUid]
  /\ queued = [a \in Agents |-> NoUid]
  /\ uuids = 0
  /\ removed = FALSE

StopHandler(a) ==
  /\ handler' = [handler EXCEPT ![a] = "off"]
  /\ owner' = [owner EXCEPT ![a] = NoUid]
  /\ queued' = [queued EXCEPT ![a] = NoUid]

RestartAgent(a) ==
  /\ Restart(a)
  /\ StopHandler(a)
  /\ UNCHANGED <<uuids, removed>>

\* dynamicclient.MustStart comes after clusterhandler.MustStart in main.
Watching(a) == handler[a] \in {"running", "reregister"}

Registering(a) == handler[a] \in {"register", "reregister"}

\* Mutant: the resource of a cluster that is new is queued like any other.
AnswerQueued(a) ==
  /\ handler' = [handler EXCEPT ![a] = "running"]
  /\ queued' = [queued EXCEPT ![a] = uuids + 1]
  /\ uuids' = uuids + 1

\* No resource: one with a new uid is to be registered, synchronously.
AnswerNew(a) ==
  /\ handler' = [handler EXCEPT ![a] = IF Watching(a) THEN "reregister" ELSE "register"]
  /\ uuids' = uuids + 1
  /\ UNCHANGED queued

\* Mutant: the agent stays with the uid that it has.
UidKept(a) == IF owner[a] # NoUid THEN owner[a] ELSE store[self[a]][1]

\* "multiple existing resources for cluster handler, using first"
UidOfFirst(a) == store[self[a]][1]

UpdateClusterResource(a) ==
  LET new == store[self[a]] = << >>
      uid == IF new THEN uuids + 1 ELSE UidOfFirst(a)
  IN
  /\ pc[a] = "up"
  /\ ~ Registering(a)
  /\ owner' = [owner EXCEPT ![a] = uid]
  /\ conf' = [conf EXCEPT ![a].uid = uid]
  /\ \/ new /\ AnswerNew(a)
     \/ /\ ~ new
        /\ handler' = [handler EXCEPT ![a] = "running"]
        /\ queued' = [queued EXCEPT ![a] = uid]
        /\ UNCHANGED uuids
  /\ UNCHANGED <<registered, store, secret, interregator, userKey, pc, self,
                 then, fresh, breaks, raced, removed>>

StoreCluster(a, uid) ==
  store' = IF uid \in ToSet(store[self[a]]) THEN store
           ELSE [store EXCEPT ![self[a]] = Append(@, uid)]

\* The synchronous Update succeeds, and Start returns.
RegisterCluster(a) ==
  /\ Registering(a)
  /\ StoreCluster(a, owner[a])
  /\ handler' = [handler EXCEPT ![a] = "running"]
  /\ UNCHANGED <<registered, secret, interregator, userKey, pc, fresh, breaks, raced>>
  /\ UNCHANGED <<local, owner, queued, uuids, removed>>

\* Mutant: the error of Start is logged, and the agent goes on.
StartFailsRunning(a) ==
  /\ handler[a] = "register"
  /\ breaks < MaxBreaks
  /\ breaks' = breaks + 1
  /\ handler' = [handler EXCEPT ![a] = "running"]
  /\ UNCHANGED <<registered, store, secret, interregator, userKey, pc, fresh, raced>>
  /\ UNCHANGED <<self, then, conf, owner, queued, uuids, removed>>

\* It fails, the resource stored or not: fatal at the start, ...
StartFails(a) ==
  /\ handler[a] = "register"
  /\ breaks < MaxBreaks
  /\ breaks' = breaks + 1
  /\ StoreCluster(a, owner[a]) \/ UNCHANGED store
  /\ Reboot(a)
  /\ StopHandler(a)
  /\ UNCHANGED <<registered, secret, interregator, userKey, raced, uuids, removed>>

\* ... logged in a tick.
TickFails(a) ==
  /\ handler[a] = "reregister"
  /\ uuids < MaxUids
  /\ StoreCluster(a, owner[a]) \/ UNCHANGED store
  /\ handler' = [handler EXCEPT ![a] = "running"]
  /\ UNCHANGED <<registered, secret, interregator, userKey, pc, fresh, breaks, raced>>
  /\ UNCHANGED <<local, owner, queued, uuids, removed>>

\* The cache's work queue sends the update.
SendQueued(a) ==
  /\ queued[a] # NoUid
  /\ queued' = [queued EXCEPT ![a] = NoUid]
  /\ StoreCluster(a, queued[a])
  /\ UNCHANGED <<registered, secret, interregator, userKey, pc, fresh, breaks, raced>>
  /\ UNCHANGED <<local, handler, owner, uuids, removed>>

\* Somebody removes the resource from ROR.
RemoveCluster(n) ==
  /\ breaks < MaxBreaks
  /\ breaks' = breaks + 1
  /\ \E i \in DOMAIN store[n] : store' = [store EXCEPT ![n] = RemoveAt(@, i)]
  /\ removed' = TRUE
  /\ UNCHANGED <<registered, secret, interregator, userKey, pc, fresh, raced>>
  /\ UNCHANGED <<local, handler, owner, queued, uuids>>
-----------------------------------------------------------------------------
AgentStep(a) == Step(a) /\ UNCHANGED handlerVars

ClusterNext ==
  \/ \E a \in Agents :
       \/ AgentStep(a)
       \/ UpdateClusterResource(a) \/ RegisterCluster(a) \/ SendQueued(a)
       \/ RestartAgent(a) \/ StartFails(a) \/ TickFails(a)
  \/ \E n \in Ids : RemoveCluster(n)

ClusterSpec == ClusterInit /\ [][ClusterNext]_clusterVars

\* Processes go on, the ticker ticks and ROR answers in the end.
ClusterFairSpec ==
  /\ ClusterSpec
  /\ \A a \in Agents :
       /\ WF_clusterVars(AgentStep(a))
       /\ WF_clusterVars(UpdateClusterResource(a))
       /\ WF_clusterVars(RegisterCluster(a))
       /\ WF_clusterVars(SendQueued(a))
-----------------------------------------------------------------------------
(* Properties *)

ClusterTypeOK ==
  /\ TypeOK
  /\ handler \in [Agents -> {"off", "register", "running", "reregister"}]
  /\ owner \in [Agents -> 0 .. uuids]
  /\ queued \in [Agents -> 0 .. uuids]
  /\ uuids \in Nat /\ removed \in BOOLEAN

\* clusterhandler.go:144: the cluster "is persisted before dynamic watchers
\* start queuing child resources" -- as long as nobody removes it, the owner
\* of what the watchers send is known to ROR, and as theirs.
\* (updateClusterResource, Start)
OwnerIsKnown ==
  \A a \in Agents : Watching(a) /\ ~ removed =>
    owner[a] \in ToSet(store[self[a]])

\* CLUSTER_UID, which a heartbeat reports and which the secret hands on to the
\* next start, is a uid that ROR has for the agent's cluster, once it is known:
\* unless two agents raced with the secret, or a cluster was removed.
\* (getClusterAuthFromSecret, NewRorAgentClient, updateClusterResource)
UidIsTheirs ==
  \A a \in Agents : pc[a] = "up" /\ ~ Registering(a) /\ ~ raced /\ ~ removed =>
    conf[a].uid \in {NoUid} \cup ToSet(store[self[a]])

\* Pods that made a uid each, agents that failed and clusters that were
\* removed: all agents come to use the first uid of their cluster.
\* (updateClusterResource)
OwnersAgree ==
  \A a \in Agents :
    <>[](Watching(a) /\ store[self[a]] # << >> /\ owner[a] = store[self[a]][1])
=============================================================================
