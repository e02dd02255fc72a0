---------------------------- MODULE NodeExporter ----------------------------
(***************************************************************************)
(* NodeExporterReporting of v2/internal/scheduler/nodeexporter.go: every   *)
(* five minutes Prometheus is asked a dozen queries, in any order, each of *)
(* which may fail or miss hosts, and a report is made of what came.        *)
(*                                                                         *)
(* Three queries stand for the twelve: two of which a percentage is made,  *)
(* the memory's, and one that is passed on.  A host can have more than one *)
(* exporter, on other ports: the last in an answer counts.  The memory of  *)
(* a machine does not change between two queries; the size of its disks    *)
(* can, and of their percentage nothing is said here.                      *)
(*                                                                         *)
(*   results  the answers of a tick, by query and host                     *)
(*   said     history: all answers of the tick, as <<query, host, value>>  *)
(*   posted   the report of the tick, by host                              *)
(***************************************************************************)
EXTENDS Integers

CONSTANTS
  Hosts,
  Totals,   \* the memory that the exporters of a host say it has
  MaxLoad   \* bound: load of a host

ASSUME ExporterAssumption == Totals \in [Hosts -> SUBSET Nat] /\ MaxLoad \in Nat

Queries == {"mem_used", "mem_total", "load1"}

VARIABLES exporterPhase, results, said, posted

exporterVars == <<exporterPhase, results, said, posted>>

ExporterInit ==
  /\ exporterPhase = "query"
  /\ results = << >>
  /\ said = {}
  /\ posted = << >>

\* What a host may say to a query.
Values(query, host) ==
  CASE query = "mem_total" -> Totals[host]
    [] query = "mem_used"  -> UNION {0 .. total : total \in Totals[host]}
    [] query = "load1"     -> 0 .. MaxLoad

Answer(query, answer) ==
  /\ results' = [q \in DOMAIN results \cup {query} |->
                   IF q = query THEN answer ELSE results[q]]
  /\ said' = said \cup {<<query, host, answer[host]>> : host \in DOMAIN answer}

\* A query fails, or is answered for the hosts whose values can be read.
QueryPrometheus(query) ==
  /\ exporterPhase = "query"
  /\ query \notin DOMAIN results
  /\ \E hosts \in SUBSET Hosts :
       \E answer \in [hosts -> UNION {Values(query, host) : host \in hosts}] :
         /\ \A host \in hosts : answer[host] \in Values(query, host)
         /\ Answer(query, answer)
  /\ UNCHANGED <<exporterPhase, posted>>

GetVal(query, host) ==
  IF query \in DOMAIN results /\ host \in DOMAIN results[query]
  THEN results[query][host] ELSE 0

\* Mutant: the nodes are those that the first of the queries names.
InstancesOfMemory ==
  IF "mem_total" \in DOMAIN results THEN DOMAIN results["mem_total"] ELSE {}

Instances == UNION {DOMAIN results[query] : query \in DOMAIN results}

\* Mutant: divided the wrong way round.
PercentOfUsed(used, total) == IF used > 0 THEN (total * 100) \div used ELSE 0

Percent(used, total) == IF total > 0 THEN (used * 100) \div total ELSE 0

NodeMetric(host) ==
  [used    |-> GetVal("mem_used", host),
   total   |-> GetVal("mem_total", host),
   percent |-> Percent(GetVal("mem_used", host), GetVal("mem_total", host)),
   load1   |-> GetVal("load1", host)]

\* Nothing is posted of no nodes.
PostReport ==
  /\ exporterPhase = "query"
  /\ exporterPhase' = "posted"
  /\ posted' = [host \in Instances |-> NodeMetric(host)]
  /\ UNCHANGED <<results, said>>

\* Mutant: the answers are kept where the next tick finds them.
ExporterTickKeeps ==
  /\ exporterPhase = "posted"
  /\ exporterPhase' = "query"
  /\ said' = {}
  /\ posted' = << >>
  /\ UNCHANGED results

NextExporterTick ==
  /\ exporterPhase = "posted"
  /\ exporterPhase' = "query"
  /\ results' = << >>
  /\ said' = {}
  /\ posted' = << >>

ExporterNext ==
  \/ \E query \in Queries : QueryPrometheus(query)
  \/ PostReport
  \/ NextExporterTick

ExporterSpec == ExporterInit /\ [][ExporterNext]_exporterVars
-----------------------------------------------------------------------------
(* Properties *)

\* A report has each node of which any query was answered, whatever failed.
\* (collectNodeExporterMetrics)
EveryNodeIsPosted ==
  exporterPhase = "posted" => DOMAIN posted = {answer[2] : answer \in said}

Heard(query, host) == \E answer \in said : answer[1] = query /\ answer[2] = host

Told(query, host, value) ==
  IF Heard(query, host) THEN <<query, host, value>> \in said ELSE value = 0

\* What is reported of a node was said of it in this tick, and a percentage is
\* made of two such values; what nobody said is 0.  (getVal)
PostedWasSaid ==
  \A host \in DOMAIN posted :
    /\ Told("mem_used", host, posted[host].used)
    /\ Told("mem_total", host, posted[host].total)
    /\ Told("load1", host, posted[host].load1)
    /\ posted[host].percent # 0 => Heard("mem_used", host) /\ Heard("mem_total", host)

\* Of the memory of a host with one exporter no more than all is used, although
\* the two values are asked for separately and either may be missing.
\* (collectNodeExporterMetrics)
PercentIsBounded ==
  \A host \in DOMAIN posted : \A total \in Totals[host] :
    Totals[host] = {total} => posted[host].percent \in 0 .. 100
=============================================================================
