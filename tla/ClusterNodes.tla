---------------------------- MODULE ClusterNodes ----------------------------
(***************************************************************************)
(* getNodes and getNodeMetricsMap of v2/internal/handlers/clusterhandler:  *)
(* the nodes of a cluster's status, one turn of the loop at a time.  A     *)
(* node is an input, known by its place in the list.                       *)
(*                                                                         *)
(*   metered        the metrics of the nodes could be listed               *)
(*   listed         the labels of the nodes so far, and if it has metrics  *)
(*   statusControl  the control plane, as far as it is made                *)
(*   statusPools    the node pools, by name                                *)
(***************************************************************************)
EXTENDS Naturals, Sequences

CONSTANTS
  Labels,      \* values of the zone and node pool labels
  EmptyLabel,  \* the empty one, and the zone of a node without zone
  NoLabel,     \* a node without node pool label
  MaxListed    \* bound: nodes of a cluster

ASSUME NodesAssumption == NoLabel \notin Labels \cup {EmptyLabel} /\ MaxListed \in Nat

VARIABLES metered, listed, statusControl, statusPools

listVars == <<metered, listed, statusControl, statusPools>>

NodesInit ==
  /\ metered = FALSE
  /\ listed = << >>
  /\ statusControl = << >>
  /\ statusPools = << >>

\* A tick begins, with the metrics or without.
ListNodes(read) ==
  /\ metered' = read
  /\ listed' = << >>
  /\ statusControl' = << >>
  /\ statusPools' = << >>

\* A label that is there but empty hides the zone.
PoolName(node) ==
  LET name == IF node.nodepool # NoLabel THEN node.nodepool ELSE node.zone IN
  IF name = EmptyLabel THEN "default" ELSE name

NodeInfo(i, node) == [name |-> i, used |-> IF node.measured THEN i ELSE 0]

WithPoolNode(name, info) ==
  [pool \in DOMAIN statusPools \cup {name} |->
     IF pool # name THEN statusPools[pool]
     ELSE IF name \in DOMAIN statusPools THEN Append(statusPools[name], info)
     ELSE <<info>>]

\* Mutant: a node of the control plane is a worker too.
PlaceTwice(node) ==
  LET info == NodeInfo(Len(listed) + 1, node) IN
  /\ statusControl' = IF node.control THEN Append(statusControl, info) ELSE statusControl
  /\ statusPools' = WithPoolNode(PoolName(node), info)

Place(node) ==
  LET info == NodeInfo(Len(listed) + 1, node) IN
  \/ /\ node.control
     /\ statusControl' = Append(statusControl, info)
     /\ UNCHANGED statusPools
  \/ /\ ~ node.control
     /\ statusPools' = WithPoolNode(PoolName(node), info)
     /\ UNCHANGED statusControl

PlaceNode(control, zone, nodepool, measured) ==
  LET node == [control |-> control, zone |-> zone, nodepool |-> nodepool,
               measured |-> measured]
  IN
  /\ Len(listed) < MaxListed
  /\ measured => metered
  /\ listed' = Append(listed, node)
  /\ Place(node)
  /\ UNCHANGED metered

NodesNext ==
  \/ \E read \in BOOLEAN : ListNodes(read)
  \/ \E control, measured \in BOOLEAN, zone \in Labels \cup {EmptyLabel},
        nodepool \in Labels \cup {EmptyLabel, NoLabel} :
       PlaceNode(control, zone, nodepool, measured)

NodesSpec == NodesInit /\ [][NodesNext]_listVars
-----------------------------------------------------------------------------
(* Properties *)

InfoOf(i) == [name |-> i, used |-> IF listed[i].measured THEN i ELSE 0]

Occurs(info, seq) == \E k \in DOMAIN seq : seq[k] = info

Distinct(seq) == \A k, l \in DOMAIN seq : seq[k].name = seq[l].name => k = l

\* Each node is in the control plane or in the pool that its labels name, once
\* and with its own usage, and nobody else is there.  (getNodes)
NodesArePlaced ==
  /\ \A i \in DOMAIN listed :
       IF listed[i].control THEN Occurs(InfoOf(i), statusControl)
       ELSE LET name == PoolName(listed[i]) IN
            name \in DOMAIN statusPools /\ Occurs(InfoOf(i), statusPools[name])
  /\ Distinct(statusControl)
  /\ \A k \in DOMAIN statusControl : listed[statusControl[k].name].control
  /\ \A name \in DOMAIN statusPools :
       /\ Distinct(statusPools[name])
       /\ \A k \in DOMAIN statusPools[name] :
            LET node == listed[statusPools[name][k].name] IN
            ~ node.control /\ PoolName(node) = name
=============================================================================
