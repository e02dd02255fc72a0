------------------------------- MODULE Reports -------------------------------
(***************************************************************************)
(* What the agents report periodically: the heartbeat of v1, and the       *)
(* status of the KubernetesCluster resource, the nodes in it and the node  *)
(* exporter's metrics of v2.  The jobs are scheduled by timers of their    *)
(* own and share no state, so that their steps commute: a behaviour of     *)
(* Reports follows one of them.                                            *)
(*                                                                         *)
(*   job    the one that is followed                                       *)
(***************************************************************************)
EXTENDS Heartbeat, ClusterStatus, ClusterNodes, NodeExporter

VARIABLE job

reportsVars == <<job, heartbeatVars, statusVars, listVars, exporterVars>>

ReportsInit ==
  /\ job \in {"heartbeat", "status", "nodes", "exporter"}
  /\ HeartbeatInit /\ (talos => job = "heartbeat")
  /\ StatusInit
  /\ NodesInit
  /\ ExporterInit

ReportsNext ==
  /\ UNCHANGED job
  /\ \/ /\ job = "heartbeat" /\ HeartbeatNext
        /\ UNCHANGED <<statusVars, listVars, exporterVars>>
     \/ /\ job = "status" /\ StatusNext
        /\ UNCHANGED <<heartbeatVars, listVars, exporterVars>>
     \/ /\ job = "nodes" /\ NodesNext
        /\ UNCHANGED <<heartbeatVars, statusVars, exporterVars>>
     \/ /\ job = "exporter" /\ ExporterNext
        /\ UNCHANGED <<heartbeatVars, statusVars, listVars>>

ReportsSpec == ReportsInit /\ [][ReportsNext]_reportsVars
=============================================================================
