------------------------------ MODULE Ingress ------------------------------
(***************************************************************************)
(* The ingresses of the v1 agent's heartbeat: getIngresses of              *)
(* internal/services/heartbeat.go, GetIngressDetails, GetIngressService    *)
(* and GetIngressHealth of internal/utils/ingress.go.                      *)
(*                                                                         *)
(* The objects that are read are inputs, chosen when the code gets to them.*)
(* The services are read one after the other, from a cluster that changes, *)
(* so two reads of one service may answer differently; an answer is cached *)
(* for the rest of the ingress, a failure is not.                          *)
(*                                                                         *)
(*   building   "no", "yes", or "panic" on a backend that is no service    *)
(*   known      the last word of the class is one of ingressClasses        *)
(*   rules      of the ingress being built: has the load balancer an       *)
(*              address for the host, and the paths with their services    *)
(*   cache      serviceCache                                               *)
(*   failed     history: a service of the ingress could not be read        *)
(***************************************************************************)
EXTENDS Integers, FiniteSets, Sequences, SequencesExt

CONSTANTS
  Services,       \* service names
  MaxIngresses,   \* bound: ingresses of a report
  MaxRules,       \* bound: rules of an ingress
  MaxPaths        \* bound: paths of an ingress

ASSUME IngressAssumption == {MaxIngresses, MaxRules, MaxPaths} \subseteq Nat

VARIABLES building, known, rules, cache, failed, ingresses

ingressVars == <<building, known, rules, cache, failed, ingresses>>

\* What a path says of its service.
Service == [type : {"", "NodePort", "other"}, endpoints : BOOLEAN]

\* A service that does not exist, and one that could not be read.
NoService == [type |-> "", endpoints |-> FALSE]

\* GetIngressService without an error: the service with what its endpoint
\* slices or, without slices, its endpoints say, or none.
Answers == [type : {"NodePort", "other"}, endpoints : BOOLEAN] \cup {NoService}

IngressInit ==
  /\ building = "no" /\ known = FALSE
  /\ rules = << >>
  /\ cache = << >>
  /\ failed = FALSE
  /\ ingresses = << >>

ClearIngresses ==
  /\ building' = "no" /\ known' = FALSE
  /\ rules' = << >>
  /\ cache' = << >>
  /\ failed' = FALSE
  /\ ingresses' = << >>

BeginIngress ==
  /\ building = "no"
  /\ Len(ingresses) < MaxIngresses
  /\ building' = "yes"
  /\ known' \in BOOLEAN
  /\ rules' = << >>
  /\ cache' = << >>
  /\ failed' = FALSE
  /\ UNCHANGED ingresses

AddRule(address) ==
  /\ building = "yes"
  /\ Len(rules) < MaxRules
  /\ rules' = Append(rules, [address |-> address, paths |-> << >>])
  /\ UNCHANGED <<building, known, cache, failed, ingresses>>

AddPath(s, service) ==
  rules' = [rules EXCEPT ![Len(rules)].paths =
              Append(@, [name |-> s, service |-> service])]

HasRoom ==
  /\ building = "yes" /\ rules # << >>
  /\ FoldLeft(LAMBDA n, rule : n + Len(rule.paths), 0, rules) < MaxPaths

PathFromCache(s) ==
  /\ HasRoom
  /\ s \in DOMAIN cache
  /\ AddPath(s, cache[s])
  /\ UNCHANGED <<building, known, cache, failed, ingresses>>

\* Mutant: what was read is not kept.
NotCached(s, service) == cache

Cached(s, service) ==
  [t \in DOMAIN cache \cup {s} |-> IF t = s THEN service ELSE cache[t]]

PathFromCluster(s) ==
  /\ HasRoom
  /\ s \notin DOMAIN cache
  /\ \E service \in Answers :
       /\ AddPath(s, service)
       /\ cache' = Cached(s, service)
  /\ UNCHANGED <<building, known, failed, ingresses>>

\* Mutant: a path whose service cannot be read is left out.
PathSkipped(s) ==
  /\ HasRoom
  /\ s \notin DOMAIN cache
  /\ failed' = TRUE
  /\ UNCHANGED <<building, known, rules, cache, ingresses>>

PathFails(s) ==
  /\ HasRoom
  /\ s \notin DOMAIN cache
  /\ AddPath(s, NoService)
  /\ failed' = TRUE
  /\ UNCHANGED <<building, known, cache, ingresses>>

\* A path may have a resource in the place of a service: Backend.Service is nil.
PathWithoutService ==
  /\ HasRoom
  /\ building' = "panic"
  /\ UNCHANGED <<known, rules, cache, failed, ingresses>>

IsNodePort(path) == path.service.type = "NodePort" /\ path.service.endpoints

Health ==
  IF /\ known
     /\ \A i \in DOMAIN rules :
          /\ rules[i].address
          /\ rules[i].paths # << >>
          /\ \A j \in DOMAIN rules[i].paths : IsNodePort(rules[i].paths[j])
  THEN 1
  ELSE 3

\* An ingress without rules is an error, and left out of the report.
EndIngress ==
  /\ building = "yes"
  /\ building' = "no"
  /\ ingresses' = IF rules = << >> THEN ingresses
                  ELSE Append(ingresses,
                              [health |-> Health, rules |-> rules, failed |-> failed])
  /\ known' = FALSE /\ failed' = FALSE
  /\ rules' = << >> /\ cache' = << >>

IngressNext ==
  \/ BeginIngress
  \/ \E address \in BOOLEAN : AddRule(address)
  \/ \E s \in Services : PathFromCache(s) \/ PathFromCluster(s) \/ PathFails(s)
  \/ PathWithoutService
  \/ EndIngress
-----------------------------------------------------------------------------
(* Properties *)

\* All the paths of an ingress that is reported.
Paths(ingress) == UNION {ToSet(ingress.rules[i].paths) : i \in DOMAIN ingress.rules}

\* An ingress that is reported healthy has been read completely: a service
\* that could not be read makes it unhealthy, however good the others are.
\* (GetIngressDetails, GetIngressHealth)
HealthyIsRead ==
  \A k \in DOMAIN ingresses : ingresses[k].health = 1 => ~ ingresses[k].failed

\* Within an ingress a service has one answer, though the cluster changes;
\* only paths on which it could not be read differ. (GetIngressDetails)
OneAnswer ==
  \A k \in DOMAIN ingresses : \A p, q \in Paths(ingresses[k]) :
    p.name = q.name =>
      p = q \/ (ingresses[k].failed /\ NoService \in {p.service, q.service})
=============================================================================
