---------------------------- MODULE ClusterStatus ----------------------------
(***************************************************************************)
(* What updateClusterResource of v2/internal/handlers/clusterhandler puts  *)
(* into the status of the KubernetesCluster resource; its owner and uid    *)
(* are in ClusterHandler.  A tick gets the resource, changes the copy and  *)
(* leaves it to the queue of the resource cache, so pods of different      *)
(* versions replace each other's updates.  Of the status there are the     *)
(* version and, as static, what only a full update fills in; LastSeen and  *)
(* the urls are read anew in every tick, the nodes are in ClusterNodes.    *)
(*                                                                         *)
(*   tick     "off", "wait", "fill" with a copy, or "register" while the   *)
(*            first resource is sent synchronously                         *)
(*   queued   the update that AddResource left in the cache's queue        *)
(*   copy, queued hold a status and, as history, whether ROR's has been    *)
(*            replaced since it was got (stale)                            *)
(*   egress   egressOnce and egressIP: "unasked", "ip", or "none" after a  *)
(*            failure, which the once does not let it repeat               *)
(***************************************************************************)
EXTENDS FiniteSets, Naturals

CONSTANTS
  Pods,
  Versions,      \* of the agent
  NoStatus,      \* no resource, or no copy of one
  MaxRestarts    \* bound: pods that are replaced

Environments == {"provider", "hints", "guess"}

Statuses ==
  [version : Versions,
   static  : [by : Versions, address : {"none", "ip"}, environment : Environments]]

ASSUME StatusAssumption == NoStatus \notin Statuses /\ MaxRestarts \in Nat

VARIABLES status, version, egress, tick, copy, queued, restarts

statusVars == <<status, version, egress, tick, copy, queued, restarts>>

Nothing == [status |-> NoStatus, stale |-> FALSE]

StatusInit ==
  /\ status = NoStatus
  /\ version = [p \in Pods |-> NoStatus]
  /\ egress = [p \in Pods |-> "unasked"]
  /\ tick = [p \in Pods |-> "off"]
  /\ copy = [p \in Pods |-> Nothing]
  /\ queued = [p \in Pods |-> Nothing]
  /\ restarts = 0

StartPod(p, v) ==
  /\ \/ tick[p] = "off" /\ UNCHANGED restarts
     \/ tick[p] # "off" /\ restarts < MaxRestarts /\ restarts' = restarts + 1
  /\ version' = [version EXCEPT ![p] = v]
  /\ egress' = [egress EXCEPT ![p] = "unasked"]
  /\ tick' = [tick EXCEPT ![p] = "wait"]
  /\ copy' = [copy EXCEPT ![p] = Nothing]
  /\ queued' = [queued EXCEPT ![p] = Nothing]
  /\ UNCHANGED status

GetStatus(p) ==
  /\ tick[p] = "wait"
  /\ copy' = [copy EXCEPT ![p] = [status |-> status, stale |-> FALSE]]
  /\ tick' = [tick EXCEPT ![p] = "fill"]
  /\ UNCHANGED <<status, version, egress, queued, restarts>>

\* The first of the two services that answers.
EgressIp(p) == IF egress[p] = "unasked" THEN {"none", "ip"} ELSE {egress[p]}

\* What the provider says, if anything, else the key of the ConfigMap, if it
\* can be read and has it, else the prefix of the cluster's name.
Environment(told, hinted) ==
  CASE told -> "provider" [] ~ told /\ hinted -> "hints" [] OTHER -> "guess"

\* Mutant: a resource of another version is updated like one's own.
NeedsFullWhenNew(p) == copy[p].status = NoStatus

NeedsFullUpdate(p) ==
  copy[p].status = NoStatus \/ copy[p].status.version # version[p]

FullStatus(p, ip, environment) ==
  [version |-> version[p],
   static  |-> [by |-> version[p], address |-> ip, environment |-> environment]]

\* Mutant: the endpoint is among what every tick fills in.
PartialWithEndpoint(p) ==
  [version |-> version[p],
   static  |-> [copy[p].status.static EXCEPT
                  !.address = IF egress[p] = "ip" THEN "ip" ELSE "none"]]

PartialStatus(p) == [copy[p].status EXCEPT !.version = version[p]]

\* AddResource, or on to the synchronous Update of a first resource.
Leave(p, s) ==
  LET update == [status |-> s, stale |-> copy[p].stale] IN
  IF copy[p].status = NoStatus
  THEN /\ copy' = [copy EXCEPT ![p] = update]
       /\ tick' = [tick EXCEPT ![p] = "register"]
       /\ UNCHANGED queued
  ELSE /\ queued' = [queued EXCEPT ![p] = update]
       /\ copy' = [copy EXCEPT ![p] = Nothing]
       /\ tick' = [tick EXCEPT ![p] = "wait"]

FillStatus(p) ==
  /\ tick[p] = "fill"
  /\ IF NeedsFullUpdate(p)
     THEN \E ip \in EgressIp(p), told, hinted \in BOOLEAN :
            /\ egress' = [egress EXCEPT ![p] = ip]
            /\ Leave(p, FullStatus(p, ip, Environment(told, hinted)))
     ELSE Leave(p, PartialStatus(p)) /\ UNCHANGED egress
  /\ UNCHANGED <<status, version, restarts>>

Outdated(held) ==
  [p \in Pods |-> IF held[p] = Nothing THEN Nothing
                  ELSE [status |-> held[p].status, stale |-> TRUE]]

\* A second resource is not the first, which is the one that is used.  The
\* call can fail, the resource stored or not.
RegisterStatus(p) ==
  /\ tick[p] = "register"
  /\ \/ UNCHANGED <<status, queued>> /\ copy' = [copy EXCEPT ![p] = Nothing]
     \/ /\ status = NoStatus
        /\ status' = copy[p].status
        /\ copy' = [Outdated(copy) EXCEPT ![p] = Nothing]
        /\ queued' = Outdated(queued)
  /\ tick' = [tick EXCEPT ![p] = "wait"]
  /\ UNCHANGED <<version, egress, restarts>>

SendStatus(p) ==
  /\ queued[p] # Nothing
  /\ status' = queued[p].status
  /\ copy' = Outdated(copy)
  /\ queued' = [Outdated(queued) EXCEPT ![p] = Nothing]
  /\ UNCHANGED <<version, egress, tick, restarts>>

StatusNext ==
  \E p \in Pods :
    \/ \E v \in Versions : StartPod(p, v)
    \/ GetStatus(p) \/ FillStatus(p) \/ RegisterStatus(p) \/ SendStatus(p)

StatusSpec == StatusInit /\ [][StatusNext]_statusVars
-----------------------------------------------------------------------------
(* Properties *)

Held == {NoStatus} \cup Statuses
Holding == [status : Held, stale : BOOLEAN]

StatusTypeOK ==
  /\ status \in Held
  /\ version \in [Pods -> Versions \cup {NoStatus}]
  /\ egress \in [Pods -> {"unasked", "none", "ip"}]
  /\ tick \in [Pods -> {"off", "wait", "fill", "register"}]
  /\ copy \in [Pods -> Holding]
  /\ queued \in [Pods -> Holding]
  /\ restarts \in Nat

\* Whatever pods of two versions write over each other, what is filled in
\* once is of the version that the status says.  (updateClusterResource)
StatusIsWhole == status # NoStatus => status.static.by = status.version

\* An address that could not be read, and an environment that was guessed,
\* stay until a pod of another version reports: within a version only an
\* update that somebody overtook changes them.  (getEndpoints, GetEgressIP)
StaticIsKept ==
  [][\A p \in Pods :
       /\ status # NoStatus /\ status'.version = status.version
       /\ SendStatus(p) /\ ~ queued[p].stale
       => status'.static = status.static]_statusVars
=============================================================================
