---------------------------- MODULE Registration ----------------------------
(***************************************************************************)
(* How an agent learns which cluster it runs in and with which key it      *)
(* talks to ROR: NewRorAgentClient, initRorAgentClientSetup and the        *)
(* handling of the API key secret in common/pkg/clients/clusteragentclient.*)
(*                                                                         *)
(* The v1 and the v2 agent, and the old and the new pod of a rolling       *)
(* update, share one secret.  Between two calls of Kubernetes or of ROR    *)
(* any of them may move on or be restarted.                                *)
(*                                                                         *)
(* A key is the position of its registration; the API knows for each which *)
(* cluster it is for.  The API may answer a registration with an id other  *)
(* than the one asked for, one that it has not used yet.  Kubernetes       *)
(* refuses the update of a secret that has changed since it was read.      *)
(*                                                                         *)
(*   conf     apiKey and identifier of RorAgentClientConfig, CLUSTER_UID   *)
(*   self     CLUSTER_ID, the id under which the API knows the agent       *)
(*   fresh    the agents that have read the current version of the secret  *)
(*            and are about to write it                                    *)
(*   then     where the agent goes on when the secret is written           *)
(*   raced    history: an agent found the secret without a key or an id    *)
(*            while another was busy with completing it                    *)
(***************************************************************************)
EXTENDS Integers, Sequences, SequencesExt

CONSTANTS
  Agents,
  Ids,         \* cluster ids
  NoId,        \* UNKNOWN_CLUSTER_ID
  Providers,   \* what GetClusterId of the interregator may say: ids, NoId
  MaxBreaks    \* bound: restarts and other failures

ASSUME ConstantsAssumption ==
  NoId \notin Ids /\ Providers \subseteq Ids \cup {NoId} /\ MaxBreaks \in Nat

NoKey == 0     \* UNKNOWN_API_KEY
NoUid == 0     \* CLUSTER_UID is not set

VARIABLES
  registered, store,      \* the API: ids of the keys, KubernetesCluster uids
  secret,                 \* << >> or a sequence of one, the secret
  interregator, userKey,  \* fixed: what the provider says, API_KEY
  pc, conf, self, then, fresh,
  breaks, raced

vars == <<registered, store, secret, interregator, userKey, pc, conf, self,
          then, fresh, breaks, raced>>

local   == <<conf, self, then>>
outside == <<store, interregator, userKey, breaks>>

Unset == [key |-> NoKey, id |-> NoId, uid |-> NoUid]

\* Nothing is known; the operator has put a key into the secret; or one into
\* the environment.
Init ==
  /\ \/ registered = << >> /\ secret = << >> /\ userKey = NoKey
     \/ \E n \in Ids :
          /\ registered = <<n>>
          /\ \/ secret = <<[Unset EXCEPT !.key = 1]>> /\ userKey = NoKey
             \/ secret = << >> /\ userKey = 1
  /\ interregator \in Providers
  /\ store = [n \in Ids |-> << >>]
  /\ pc = [a \in Agents |-> "boot"]
  /\ conf = [a \in Agents |-> [Unset EXCEPT !.key = userKey]]
  /\ self = [a \in Agents |-> NoId]
  /\ then = [a \in Agents |-> "boot"]
  /\ fresh = {}
  /\ breaks = 0 /\ raced = FALSE

\* The process ends and Kubernetes starts it again.
Reboot(a) ==
  /\ pc' = [pc EXCEPT ![a] = "boot"]
  /\ conf' = [conf EXCEPT ![a] = [Unset EXCEPT !.key = userKey]]
  /\ self' = [self EXCEPT ![a] = NoId]
  /\ then' = [then EXCEPT ![a] = "boot"]
  /\ fresh' = fresh \ {a}

\* A crash, or a call that fails, with or without effect: MustInit... is fatal.
Restart(a) ==
  /\ pc[a] # "boot"
  /\ breaks < MaxBreaks
  /\ breaks' = breaks + 1
  /\ Reboot(a)
  /\ UNCHANGED <<registered, store, secret, interregator, userKey, raced>>
-----------------------------------------------------------------------------
(* The secret *)

Complete(s) == s # << >> /\ s[1].key # NoKey /\ s[1].id # NoId

\* What the secret says; without it the key of the environment is forgotten.
AuthFromSecret(a) == IF secret = << >> THEN Unset ELSE secret[1]

Persist(a, next) ==
  /\ pc' = [pc EXCEPT ![a] = "persist"]
  /\ then' = [then EXCEPT ![a] = next]

Continue(a) ==
  /\ pc' = [pc EXCEPT ![a] = then[a]]
  /\ then' = [then EXCEPT ![a] = "boot"]

\* Mutant: the secret gets what the agent has, known or not.
OverwriteAll(s, c) == c

\* What is known and differs from the secret replaces it.
Updated(s, c) ==
  [key |-> IF c.key # NoKey THEN c.key ELSE s.key,
   id  |-> IF c.id # NoId THEN c.id ELSE s.id,
   uid |-> IF c.uid # NoUid THEN c.uid ELSE s.uid]

\* A secret that is created has no CLUSTER_UID.
Written(a) ==
  IF secret = << >> THEN [conf[a] EXCEPT !.uid = NoUid]
                    ELSE Updated(secret[1], conf[a])

\* kubernetesUpdateOrCreateApiKeySecret reads the secret ...
ReadSecret(a) ==
  /\ pc[a] = "persist"
  /\ IF secret = <<Written(a)>>
     THEN Continue(a) /\ UNCHANGED fresh
     ELSE /\ pc' = [pc EXCEPT ![a] = "write"]
          /\ fresh' = fresh \cup {a}
          /\ UNCHANGED then
  /\ UNCHANGED <<registered, secret, conf, self, raced>>
  /\ UNCHANGED outside

\* Mutant: a secret is created, whether there is one or not.
CreateSecret(a) ==
  /\ pc[a] = "write"
  /\ secret' = Append(secret, Written(a))
  /\ fresh' = {}
  /\ Continue(a)
  /\ UNCHANGED <<registered, conf, self, raced>>
  /\ UNCHANGED outside

\* ... and creates or updates it, ...
WriteSecret(a) ==
  /\ pc[a] = "write"
  /\ a \in fresh
  /\ secret' = <<Written(a)>>
  /\ fresh' = {}
  /\ Continue(a)
  /\ UNCHANGED <<registered, conf, self, raced>>
  /\ UNCHANGED outside

\* ... unless it has been created or updated in between.
WriteRefused(a) ==
  /\ pc[a] = "write"
  /\ a \notin fresh
  /\ then[a] # "up"
  /\ Reboot(a)
  /\ UNCHANGED <<registered, secret, raced>>
  /\ UNCHANGED outside

\* The error of the last write is ignored.
PersistUidFails(a) ==
  /\ pc[a] \in {"persist", "write"}
  /\ then[a] = "up"
  /\ Continue(a)
  /\ fresh' = fresh \ {a}
  /\ UNCHANGED <<registered, secret, conf, self, raced>>
  /\ UNCHANGED outside
-----------------------------------------------------------------------------
(* The steps of initRorAgentClientSetup and of NewRorAgentClient *)

\* Mutant: the API is not asked for the id of a key.
IdGenerated(c) == IF interregator # NoId THEN {interregator} ELSE Ids

\* An id that is not in the secret comes from the interregator, from the API,
\* which knows the key's, or is generated.
NewId(c) ==
  IF interregator # NoId THEN {interregator}
  ELSE IF c.key # NoKey THEN {registered[c.key]}
  ELSE Ids

\* Mutant: an agent that starts registers, whatever the secret says.
RegisterAgain(c) == "register"

AfterSetup(c) == IF c.key = NoKey THEN "register" ELSE "login"

\* Busy with an identity that the secret need not hold yet.
Undecided(a) ==
  \/ pc[a] = "register"
  \/ pc[a] \in {"persist", "write"} /\ then[a] # "up"

Setup(a) ==
  LET c == AuthFromSecret(a) IN
  /\ pc[a] = "boot"
  /\ \/ /\ c.id # NoId
        /\ conf' = [conf EXCEPT ![a] = c]
        /\ pc' = [pc EXCEPT ![a] = AfterSetup(c)]
        /\ UNCHANGED then
     \/ /\ c.id = NoId
        /\ \E n \in NewId(c) : conf' = [conf EXCEPT ![a] = [c EXCEPT !.id = n]]
        /\ Persist(a, AfterSetup(c))
  /\ raced' = (raced \/ (~ Complete(secret) /\ \E b \in Agents \ {a} : Undecided(b)))
  /\ UNCHANGED <<registered, secret, self, fresh>>
  /\ UNCHANGED outside

RegisterAgent(a) ==
  /\ pc[a] = "register"
  /\ \E n \in {conf[a].id} \cup (Ids \ ToSet(registered)) :
       /\ registered' = Append(registered, n)
       /\ conf' = [conf EXCEPT ![a] =
                     [key |-> Len(registered) + 1, id |-> n, uid |-> @.uid]]
  /\ Persist(a, "login")
  /\ UNCHANGED <<secret, self, fresh, raced>>
  /\ UNCHANGED outside

\* The API says who the agent is; a uid that it knows goes to the secret.
Login(a) ==
  /\ pc[a] = "login"
  /\ LET n == registered[conf[a].key] IN
     /\ self' = [self EXCEPT ![a] = n]
     /\ IF store[n] = << >>
        THEN /\ pc' = [pc EXCEPT ![a] = "up"]
             /\ UNCHANGED <<conf, then>>
        ELSE /\ conf' = [conf EXCEPT ![a].uid = store[n][1]]
             /\ Persist(a, "up")
  /\ UNCHANGED <<registered, secret, fresh, raced>>
  /\ UNCHANGED outside
-----------------------------------------------------------------------------
Step(a) ==
  \/ Setup(a) \/ RegisterAgent(a) \/ Login(a)
  \/ ReadSecret(a) \/ WriteSecret(a) \/ WriteRefused(a) \/ PersistUidFails(a)

Next == \E a \in Agents : Step(a) \/ Restart(a)

Spec == Init /\ [][Next]_vars
-----------------------------------------------------------------------------
(* Properties *)

Identity == [key : Nat, id : Ids \cup {NoId}, uid : Nat]

TypeOK ==
  /\ registered \in Seq(Ids)
  /\ store \in [Ids -> Seq(Nat \ {NoUid})]
  /\ secret \in Seq(Identity) /\ Len(secret) <= 1
  /\ interregator \in Providers /\ userKey \in Nat
  /\ pc \in [Agents -> {"boot", "register", "login", "persist", "write", "up"}]
  /\ conf \in [Agents -> Identity]
  /\ self \in [Agents -> Ids \cup {NoId}]
  /\ then \in [Agents -> {"boot", "register", "login", "up"}]
  /\ fresh \subseteq Agents
  /\ breaks \in 0 .. MaxBreaks /\ raced \in BOOLEAN

\* Once an agent is up a restart finds a key, and registers no other.
\* (initRorAgentClientSetup, kubernetesUpdateOrCreateApiKeySecret)
KeyIsPersisted ==
  (\E a \in Agents : pc[a] = "up") => secret # << >> /\ secret[1].key # NoKey

\* The id is the one that the API has for the key, or the one that the provider
\* names: the first key may be an operator's, for another cluster.
RightId(key, id) == id = registered[key] \/ (key = 1 /\ id = interregator)

\* Unless two agents have completed the secret at the same time, agents that
\* are up have its key and its id, and are who the API says that they are.
\* (getClusterAuthFromSecret, initRorAgentClientSetup, NewRorAgentClient)
OneIdentity ==
  \A a \in Agents : pc[a] = "up" /\ ~ raced =>
    /\ conf[a].key = secret[1].key /\ conf[a].id = secret[1].id
    /\ self[a] = registered[conf[a].key]
    /\ RightId(conf[a].key, conf[a].id)

\* A key that is in the secret, and an id that is there with it, stay, and while
\* they do nobody registers, unless two agents have completed the secret at the
\* same time: no restart, refused write or late update of another agent gives
\* the cluster a second identity.
\* (initRorAgentClientSetup, kubernetesUpdateOrCreateApiKeySecret)
IdentityIsKept ==
  [][~ raced' /\ secret # << >> /\ secret[1].key # NoKey =>
       /\ registered' = registered
       /\ secret' # << >> /\ secret'[1].key = secret[1].key
       /\ Complete(secret) => secret'[1].id = secret[1].id]_vars

\* v2/internal/agentconfig/variables.go:15: API_KEY "migt be provided by the
\* user if a secret containing the api key is not present in the cluster".
UserKeyIsUsed == userKey # NoKey => Len(registered) = 1
=============================================================================
