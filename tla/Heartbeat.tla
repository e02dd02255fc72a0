----------------------------- MODULE Heartbeat -----------------------------
(***************************************************************************)
(* The v1 agent's heartbeat: GetNodes of internal/kubernetes/nodeservice,  *)
(* and GetHeartbeatReport with appendNodeToControlePlane and               *)
(* appendNodeToNodePools of internal/services/heartbeat.go.  The ingresses *)
(* of a report are those of Ingress.                                       *)
(*                                                                         *)
(* The nodes are inputs, chosen when they are read.  A node's name, which  *)
(* no other node of the cluster has, is its number in the list.  Of the    *)
(* numbers of a node only the cpu is kept: the others are summed in the    *)
(* same way.  A node whose metrics cannot be read has none of them;        *)
(* without a metrics client there are no nodes at all.                     *)
(*                                                                         *)
(*   talos      the provider is Talos: the pool of a node is an annotation,*)
(*              "" if it has none; else the second part of its machine     *)
(*              name (ClusterName is never set), and a panic if there is   *)
(*              none                                                       *)
(*   phase      "nodes", "pools", "ingresses", "sent" or "panic"           *)
(*   done       the number of nodes that the pools have                    *)
(***************************************************************************)
EXTENDS Ingress

CONSTANTS
  Workers,     \* node pool names
  NoName,      \* no annotation, or a machine name without "-"
  Cpus,        \* cpus a node may have; 0 when its metrics cannot be read
  MaxNodes     \* bound: nodes of the cluster

ASSUME HeartbeatAssumption ==
  NoName \notin Workers /\ Cpus \subseteq Nat /\ MaxNodes \in Nat

VARIABLES talos, phase, nodes, done, controlPlane, nodePools, metrics

nodeVars == <<talos, phase, nodes, done, controlPlane, nodePools, metrics>>
heartbeatVars == <<nodeVars, ingressVars>>

Empty == [nodes |-> << >>, nodeCount |-> 0, cpu |-> 0]
NoMetrics == [nodePools |-> 0, nodeCount |-> 0, cpu |-> 0]

HeartbeatInit ==
  /\ talos \in BOOLEAN
  /\ phase = "nodes"
  /\ nodes = << >> /\ done = 0
  /\ controlPlane = Empty
  /\ nodePools = << >>
  /\ metrics = NoMetrics
  /\ IngressInit

GetNode(control, worker) ==
  /\ phase = "nodes"
  /\ Len(nodes) < MaxNodes
  /\ \E cpu \in Cpus :
       nodes' = Append(nodes, [name    |-> Len(nodes) + 1,
                               control |-> control, worker |-> worker, cpu |-> cpu])
  /\ UNCHANGED <<talos, phase, done, controlPlane, nodePools, metrics, ingressVars>>

GetNodesReturns ==
  /\ phase = "nodes"
  /\ phase' = "pools"
  /\ UNCHANGED <<talos, nodes, done, controlPlane, nodePools, metrics, ingressVars>>

\* Mutant: the copy of the pool that is found is not written back.
PoolUnchanged(pool, node) == pool

WithNode(pool, node) ==
  [pool EXCEPT !.nodes = Append(@, node),
               !.nodeCount = Len(pool.nodes) + 1,
               !.cpu = @ + node.cpu]

\* Mutant: a worker starts a pool of its own.
AppendAsNewPool(node) ==
  Append(nodePools, [name |-> node.worker] @@ WithNode(Empty, node))

AppendNodeToNodePools(node) ==
  LET found == {i \in DOMAIN nodePools : nodePools[i].name = node.worker} IN
  IF found = {}
  THEN Append(nodePools, [name |-> node.worker, nodes |-> <<node>>,
                          nodeCount |-> 1, cpu |-> node.cpu])
  ELSE [i \in DOMAIN nodePools |->
          IF i \in found THEN WithNode(nodePools[i], node) ELSE nodePools[i]]

AppendNode ==
  LET node == nodes[done + 1] IN
  /\ phase = "pools"
  /\ done < Len(nodes)
  /\ \/ /\ node.control
        /\ controlPlane' = WithNode(controlPlane, node)
        /\ done' = done + 1
        /\ UNCHANGED <<phase, nodePools>>
     \/ /\ ~ node.control
        /\ talos \/ node.worker # NoName
        /\ nodePools' = AppendNodeToNodePools(node)
        /\ done' = done + 1
        /\ UNCHANGED <<phase, controlPlane>>
     \/ /\ ~ node.control
        /\ ~ talos /\ node.worker = NoName
        /\ phase' = "panic"
        /\ UNCHANGED <<done, controlPlane, nodePools>>
  /\ UNCHANGED <<talos, nodes, metrics, ingressVars>>

GetIngresses ==
  /\ phase = "pools"
  /\ done = Len(nodes)
  /\ phase' = "ingresses"
  /\ UNCHANGED <<talos, nodes, done, controlPlane, nodePools, metrics, ingressVars>>

EnrichIngress ==
  /\ phase = "ingresses"
  /\ IngressNext
  /\ phase' = IF building' = "panic" THEN "panic" ELSE phase
  /\ UNCHANGED <<talos, nodes, done, controlPlane, nodePools, metrics>>

Sum(numbers) == FoldLeft(LAMBDA sum, n : sum + n, 0, numbers)

\* The totals are made pool by pool.
TotalNodeCount == Sum([p \in DOMAIN nodePools |-> nodePools[p].nodeCount])
TotalCpu       == Sum([p \in DOMAIN nodePools |-> nodePools[p].cpu])

SendHeartbeat ==
  /\ phase = "ingresses"
  /\ building = "no"
  /\ phase' = "sent"
  /\ metrics' = [nodePools |-> Len(nodePools),
                 nodeCount |-> TotalNodeCount,
                 cpu       |-> TotalCpu]
  /\ UNCHANGED <<talos, nodes, done, controlPlane, nodePools, ingressVars>>

\* The next minute, or the next process.
NextTick ==
  /\ phase \in {"sent", "panic"}
  /\ phase' = "nodes"
  /\ nodes' = << >> /\ done' = 0
  /\ controlPlane' = Empty
  /\ nodePools' = << >>
  /\ metrics' = NoMetrics
  /\ ClearIngresses
  /\ UNCHANGED talos

HeartbeatNext ==
  \/ \E control \in BOOLEAN, worker \in Workers \cup {NoName} : GetNode(control, worker)
  \/ GetNodesReturns
  \/ AppendNode
  \/ GetIngresses
  \/ EnrichIngress
  \/ SendHeartbeat
  \/ NextTick

HeartbeatSpec == HeartbeatInit /\ [][HeartbeatNext]_heartbeatVars
-----------------------------------------------------------------------------
(* Properties *)

\* The pools have different names.  Each worker that was counted is in the pool
\* of its worker name, no node is there twice, in one pool or in two, and
\* nothing else is: no node of the control plane, and none of before.
\* (appendNodeToNodePools)
PoolsPartition ==
  /\ \A p, q \in DOMAIN nodePools : nodePools[p].name = nodePools[q].name => p = q
  /\ \A i \in 1 .. done : ~ nodes[i].control =>
       \E p \in DOMAIN nodePools :
         /\ nodePools[p].name = nodes[i].worker
         /\ \E k \in DOMAIN nodePools[p].nodes : nodePools[p].nodes[k] = nodes[i]
  /\ \A p, q \in DOMAIN nodePools :
       \A k \in DOMAIN nodePools[p].nodes, l \in DOMAIN nodePools[q].nodes :
         nodePools[p].nodes[k].name = nodePools[q].nodes[l].name => p = q /\ k = l
  /\ \A p \in DOMAIN nodePools :
       /\ nodePools[p].nodeCount = Len(nodePools[p].nodes)
       /\ \A k \in DOMAIN nodePools[p].nodes :
            LET node == nodePools[p].nodes[k] IN
            /\ node.name \in 1 .. done /\ node = nodes[node.name]
            /\ ~ node.control /\ node.worker = nodePools[p].name

CpuOf(is) == Sum([i \in DOMAIN nodes |-> IF i \in is THEN nodes[i].cpu ELSE 0])

\* The sums of the report, made pool by pool, are those of the cluster's
\* workers, and the control plane's those of the other nodes: no node is
\* counted twice or left out.  (GetHeartbeatReport)
TotalsAddUp ==
  LET workers == {i \in DOMAIN nodes : ~ nodes[i].control}
      others  == DOMAIN nodes \ workers
  IN
  phase = "sent" =>
    /\ metrics.nodeCount = Cardinality(workers)
    /\ metrics.cpu = CpuOf(workers)
    /\ controlPlane.nodeCount = Cardinality(others)
    /\ controlPlane.cpu = CpuOf(others)
=============================================================================
