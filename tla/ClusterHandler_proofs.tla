----------------------- MODULE ClusterHandler_proofs -----------------------
(***************************************************************************)
(* For any number of agents, clusters, failures and removals: the agents   *)
(* of a cluster that are up share one key and one id, which the secret     *)
(* keeps, and the uid they report and the owner of what they send are ones *)
(* that ROR knows.                                                         *)
(***************************************************************************)
EXTENDS ClusterHandler, SequenceTheorems, TLAPS

Persisting(a) == pc[a] \in {"persist", "write"}

\* Logged in, or about to be: the secret has its key.
Settled(a) == pc[a] \in {"login", "up"} \/ (Persisting(a) /\ then[a] = "up")

HasKey == secret # << >> /\ secret[1].key # NoKey

\* Every key that is in use has been registered.
KeysInv ==
  /\ userKey <= Len(registered)
  /\ secret # << >> => secret[1].key <= Len(registered)
  /\ \A a \in Agents : conf[a].key <= Len(registered)

\* What an agent knows where it is.
PhaseInv ==
  \A a \in Agents :
    /\ pc[a] # "boot" => conf[a].id # NoId
    /\ Persisting(a) => then[a] # "boot"
    /\ Persisting(a) /\ then[a] = "login" => conf[a].key # NoKey
    /\ pc[a] = "login" => conf[a].key # NoKey
    /\ Settled(a) => HasKey
    /\ Settled(a) /\ pc[a] # "login" => self[a] # NoId

\* A handler runs in an agent that is up and has an owner.
HandlerInv ==
  \A a \in Agents : handler[a] # "off" => pc[a] = "up" /\ owner[a] # NoUid

\* The uids that ROR has were made.
StoreInv == \A n \in Ids : store[n] \in Seq(1 .. uuids)

TypeInv == ClusterTypeOK /\ KeysInv /\ PhaseInv /\ HandlerInv /\ StoreInv

-----------------------------------------------------------------------------
(* Lemmas *)

LEMMA SecretFacts ==
  ASSUME secret \in Seq(Identity), Len(secret) <= 1, secret # << >>
  PROVE  /\ Len(secret) = 1
         /\ secret[1] \in Identity
         /\ secret = <<secret[1]>>
<1>1. Len(secret) \in Nat /\ Len(secret) # 0
  BY EmptySeq, LenProperties
<1>2. Len(secret) = 1
  BY <1>1
<1>3. secret[1] \in Identity
  BY <1>2, ElementOfSeq
<1> QED
  BY <1>2, <1>3, SeqEqual

\* What Written keeps and what it adds.
LEMMA WrittenFacts ==
  ASSUME TypeOK, NEW a \in Agents
  PROVE  /\ Written(a) \in Identity
         /\ HasKey => Written(a).key # NoKey
         /\ conf[a].key # NoKey => Written(a).key = conf[a].key
         /\ conf[a].id # NoId => Written(a).id = conf[a].id
         /\ Written(a).key = IF conf[a].key # NoKey \/ secret = << >>
                             THEN conf[a].key ELSE secret[1].key
<1>1. conf[a] \in Identity
  BY DEF TypeOK
<1>2. secret # << >> => secret[1] \in Identity
  BY SecretFacts DEF TypeOK
<1> QED
  BY <1>1, <1>2 DEF Written, Updated, HasKey, Identity, NoKey, NoUid

LEMMA NewIdFacts ==
  ASSUME TypeOK, NEW c \in Identity, c.key <= Len(registered)
  PROVE  NewId(c) \subseteq Ids
<1>1. c.key # NoKey => c.key \in 1 .. Len(registered)
  BY LenProperties DEF TypeOK, Identity, NoKey
<1>2. c.key # NoKey => registered[c.key] \in Ids
  BY <1>1, ElementOfSeq DEF TypeOK
<1>3. interregator # NoId => interregator \in Ids
  BY ConstantsAssumption DEF TypeOK
<1> QED
  BY <1>2, <1>3 DEF NewId

LEMMA SeqGrows ==
  ASSUME NEW n \in Nat, NEW s \in Seq(1 .. n)
  PROVE  s \in Seq(1 .. (n + 1)) /\ s \in Seq(Nat \ {NoUid})
<1>1. 1 .. n \subseteq 1 .. (n + 1) /\ 1 .. n \subseteq Nat \ {NoUid}
  BY DEF NoUid
<1> QED
  BY <1>1, SeqMonotonic

-----------------------------------------------------------------------------
(* Types *)

LEMMA OfOne ==
  ASSUME NEW S, NEW e \in S
  PROVE  <<e>> \in Seq(S) /\ Len(<<e>>) = 1 /\ <<e>>[1] = e /\ <<e>> # << >>
OBVIOUS

LEMMA TypeInit == ClusterInit => TypeInv
<1> SUFFICES ASSUME ClusterInit PROVE TypeInv
  OBVIOUS
<1> USE DEF ClusterInit, Init, NoKey, NoUid
<1>1. /\ registered \in Seq(Ids) /\ Len(registered) \in Nat
      /\ userKey \in Nat /\ userKey <= Len(registered)
      /\ secret \in Seq(Identity) /\ Len(secret) <= 1
      /\ secret # << >> => secret[1].key <= Len(registered)
  <2>1. CASE registered = << >> /\ secret = << >> /\ userKey = NoKey
    BY <2>1, EmptySeq
  <2>2. CASE \E n \in Ids :
          /\ registered = <<n>>
          /\ \/ secret = <<[Unset EXCEPT !.key = 1]>> /\ userKey = NoKey
             \/ secret = << >> /\ userKey = 1
    <3>1. [Unset EXCEPT !.key = 1] \in Identity /\ [Unset EXCEPT !.key = 1].key = 1
      BY DEF Unset, Identity
    <3>2. PICK n \in Ids :
            /\ registered = <<n>>
            /\ \/ secret = <<[Unset EXCEPT !.key = 1]>> /\ userKey = NoKey
               \/ secret = << >> /\ userKey = 1
      BY <2>2
    <3>3. registered \in Seq(Ids) /\ Len(registered) = 1
      BY <3>2, OfOne
    <3>4. CASE secret = <<[Unset EXCEPT !.key = 1]>> /\ userKey = NoKey
      <4>1. /\ secret \in Seq(Identity) /\ Len(secret) = 1
            /\ secret[1].key = 1
        BY <3>1, <3>4, OfOne
      <4> QED
        BY <3>3, <3>4, <4>1
    <3>5. CASE secret = << >> /\ userKey = 1
      BY <3>3, <3>5, EmptySeq
    <3> QED
      BY <3>2, <3>4, <3>5
  <2> QED
    BY <2>1, <2>2
<1>2. \A a \in Agents : conf[a] \in Identity /\ conf[a].key = userKey
  BY <1>1 DEF Unset, Identity
<1>3. TypeOK
  <2>1. \A n \in Ids : << >> \in Seq(Nat \ {NoUid})
    BY EmptySeq
  <2>2. interregator \in Providers /\ breaks \in 0 .. MaxBreaks
    BY ConstantsAssumption
  <2>3. conf \in [Agents -> Identity]
    BY <1>2
  <2> QED
    BY <1>1, <2>1, <2>2, <2>3 DEF TypeOK
<1>4. ClusterTypeOK
  <2>1. removed \in BOOLEAN /\ uuids = 0
    OBVIOUS
  <2>2. handler \in [Agents -> {"off", "register", "running", "reregister"}]
    OBVIOUS
  <2>3. owner \in [Agents -> 0 .. uuids] /\ queued \in [Agents -> 0 .. uuids]
    BY <2>1
  <2> QED
    BY <1>3, <2>1, <2>2, <2>3 DEF ClusterTypeOK
<1>5. KeysInv
  BY <1>1, <1>2 DEF KeysInv
<1>6. PhaseInv /\ HandlerInv
  BY DEF PhaseInv, HandlerInv, Persisting, Settled
<1>7. StoreInv
  BY EmptySeq DEF StoreInv
<1> QED
  BY <1>4, <1>5, <1>6, <1>7 DEF TypeInv

\* What a step of a leaves alone: the other agents, and the secret's key.
Frame(a) ==
  /\ \A b \in Agents \ {a} :
       pc'[b] = pc[b] /\ conf'[b] = conf[b] /\ then'[b] = then[b] /\ self'[b] = self[b]
  /\ HasKey => HasKey'

Phase(a) ==
  /\ pc[a] # "boot" => conf[a].id # NoId
  /\ Persisting(a) => then[a] # "boot"
  /\ Persisting(a) /\ then[a] = "login" => conf[a].key # NoKey
  /\ pc[a] = "login" => conf[a].key # NoKey
  /\ Settled(a) => HasKey
  /\ Settled(a) /\ pc[a] # "login" => self[a] # NoId

LEMMA PhaseOfOthers ==
  ASSUME NEW a \in Agents, PhaseInv, Frame(a), Phase(a)'
  PROVE  PhaseInv'
<1> SUFFICES ASSUME NEW b \in Agents PROVE Phase(b)'
  BY DEF PhaseInv, Phase
<1>1. CASE b = a
  BY <1>1
<1>2. CASE b # a
  BY <1>2 DEF PhaseInv, Phase, Frame, Persisting, Settled
<1> QED
  BY <1>1, <1>2

RegInv == TypeOK /\ KeysInv /\ PhaseInv

\* Where an agent may go with then in hand.
LEMMA ContinueFacts ==
  ASSUME RegInv, NEW a \in Agents, Persisting(a), Continue(a)
  PROVE  /\ pc' \in [Agents -> {"boot", "register", "login", "persist", "write", "up"}]
         /\ then' \in [Agents -> {"boot", "register", "login", "up"}]
         /\ pc'[a] = then[a] /\ pc'[a] \in {"register", "login", "up"}
         /\ \A b \in Agents \ {a} : pc'[b] = pc[b] /\ then'[b] = then[b]
BY DEF RegInv, TypeOK, PhaseInv, Continue

LEMMA SetupTypes ==
  ASSUME RegInv, NEW a \in Agents, Setup(a)
  PROVE  RegInv' /\ Frame(a) /\ pc[a] = "boot"
<1> DEFINE c == AuthFromSecret(a)
<1>1. c \in Identity /\ c.key <= Len(registered) /\ Len(registered) \in Nat
  <2>1. secret # << >> => secret[1] \in Identity
    BY SecretFacts DEF RegInv, TypeOK
  <2>2. Len(registered) \in Nat
    BY LenProperties DEF RegInv, TypeOK
  <2> QED
    BY <2>1, <2>2 DEF RegInv, KeysInv, AuthFromSecret, Unset, Identity, NoKey, NoUid
<1>2. c.key # NoKey => HasKey
  BY DEF AuthFromSecret, Unset, HasKey
<1>3. UNCHANGED <<registered, secret, self, fresh, store, interregator, userKey, breaks>>
  BY DEF Setup, outside
<1>4. /\ conf' \in [Agents -> Identity]
      /\ pc' \in [Agents -> {"boot", "register", "login", "persist", "write", "up"}]
      /\ then' \in [Agents -> {"boot", "register", "login", "up"}]
      /\ \A b \in Agents \ {a} :
           pc'[b] = pc[b] /\ conf'[b] = conf[b] /\ then'[b] = then[b]
      /\ conf'[a].key = c.key /\ conf'[a].id # NoId
      /\ \/ pc'[a] = AfterSetup(c)
         \/ pc'[a] = "persist" /\ then'[a] = AfterSetup(c)
  <2>1. /\ conf \in [Agents -> Identity]
        /\ pc \in [Agents -> {"boot", "register", "login", "persist", "write", "up"}]
        /\ then \in [Agents -> {"boot", "register", "login", "up"}]
    BY DEF RegInv, TypeOK
  <2>2. AfterSetup(c) \in {"register", "login"}
    BY DEF AfterSetup
  <2>3. CASE /\ c.id # NoId
             /\ conf' = [conf EXCEPT ![a] = c]
             /\ pc' = [pc EXCEPT ![a] = AfterSetup(c)]
             /\ UNCHANGED then
    BY <1>1, <2>1, <2>2, <2>3
  <2>4. CASE /\ c.id = NoId
             /\ \E n \in NewId(c) : conf' = [conf EXCEPT ![a] = [c EXCEPT !.id = n]]
             /\ Persist(a, AfterSetup(c))
    <3>1. PICK n \in NewId(c) : conf' = [conf EXCEPT ![a] = [c EXCEPT !.id = n]]
      BY <2>4
    <3>2. n \in Ids /\ n # NoId
      BY <1>1, NewIdFacts, ConstantsAssumption DEF RegInv
    <3>3. [c EXCEPT !.id = n] \in Identity /\ [c EXCEPT !.id = n].key = c.key
          /\ [c EXCEPT !.id = n].id = n
      BY <1>1, <3>2 DEF Identity
    <3> HIDE DEF c
    <3> QED
      BY <2>1, <2>2, <2>4, <3>1, <3>2, <3>3 DEF Persist
  <2> QED
    BY <2>3, <2>4 DEF Setup
<1>5. raced' \in BOOLEAN
  BY DEF Setup
<1> HIDE DEF c
<1>6. TypeOK'
  BY <1>3, <1>4, <1>5 DEF RegInv, TypeOK
<1>7. KeysInv'
  BY <1>1, <1>3, <1>4 DEF RegInv, KeysInv
<1>8. Frame(a)
  BY <1>3, <1>4 DEF Frame, HasKey
<1>9. Phase(a)'
  BY <1>2, <1>3, <1>4 DEF Phase, Persisting, Settled, AfterSetup, HasKey
<1> QED
  BY <1>6, <1>7, <1>8, <1>9, PhaseOfOthers DEF RegInv, Setup

LEMMA RegisterTypes ==
  ASSUME RegInv, NEW a \in Agents, RegisterAgent(a)
  PROVE  RegInv' /\ Frame(a) /\ pc[a] = "register"
<1> PICK n \in {conf[a].id} \cup (Ids \ ToSet(registered)) :
      /\ registered' = Append(registered, n)
      /\ conf' = [conf EXCEPT ![a] = [key |-> Len(registered) + 1, id |-> n, uid |-> @.uid]]
  BY DEF RegisterAgent
<1>1. pc[a] = "register" /\ Persist(a, "login")
      /\ UNCHANGED <<secret, self, fresh, raced, store, interregator, userKey, breaks>>
  BY DEF RegisterAgent, outside
<1>2. n \in Ids /\ n # NoId
  BY <1>1, ConstantsAssumption DEF RegInv, TypeOK, PhaseInv, Identity
<1>3. registered' \in Seq(Ids) /\ Len(registered') = Len(registered) + 1
      /\ Len(registered) \in Nat
  BY <1>2, AppendProperties, LenProperties DEF RegInv, TypeOK
<1>4. /\ conf' \in [Agents -> Identity]
      /\ conf'[a].key = Len(registered) + 1 /\ conf'[a].id = n
      /\ \A b \in Agents \ {a} : conf'[b] = conf[b]
  <2> DEFINE r == [key |-> Len(registered) + 1, id |-> n, uid |-> conf[a].uid]
  <2>1. conf \in [Agents -> Identity] /\ conf[a] \in Identity
    BY DEF RegInv, TypeOK
  <2>2. r \in Identity /\ r.key = Len(registered) + 1 /\ r.id = n
    BY <1>2, <1>3, <2>1 DEF Identity
  <2>3. conf' = [conf EXCEPT ![a] = r]
    OBVIOUS
  <2> HIDE DEF r
  <2> QED
    BY <2>1, <2>2, <2>3
<1>5. /\ pc' \in [Agents -> {"boot", "register", "login", "persist", "write", "up"}]
      /\ then' \in [Agents -> {"boot", "register", "login", "up"}]
      /\ pc'[a] = "persist" /\ then'[a] = "login"
      /\ \A b \in Agents \ {a} : pc'[b] = pc[b] /\ then'[b] = then[b]
  BY <1>1 DEF RegInv, TypeOK, Persist
<1>6. TypeOK'
  BY <1>1, <1>3, <1>4, <1>5 DEF RegInv, TypeOK
<1>7. KeysInv'
  <2>1. secret # << >> => secret[1] \in Identity
    BY SecretFacts DEF RegInv, TypeOK
  <2> QED
    BY <1>1, <1>3, <1>4, <2>1 DEF RegInv, KeysInv, TypeOK, Identity
<1>8. Frame(a) /\ Phase(a)'
  BY <1>1, <1>2, <1>3, <1>4, <1>5 DEF Frame, HasKey, Phase, Persisting, Settled, NoKey
<1> QED
  BY <1>1, <1>6, <1>7, <1>8, PhaseOfOthers DEF RegInv

LEMMA LoginTypes ==
  ASSUME RegInv, NEW a \in Agents, Login(a)
  PROVE  RegInv' /\ Frame(a) /\ pc[a] = "login"
<1> DEFINE n == registered[conf[a].key]
<1>1. /\ pc[a] = "login" /\ self' = [self EXCEPT ![a] = n]
      /\ UNCHANGED <<registered, secret, fresh, raced, store, interregator, userKey, breaks>>
  BY DEF Login, outside
<1>2. n \in Ids /\ n # NoId
  <2>1. conf[a].key \in 1 .. Len(registered)
    BY <1>1, LenProperties DEF RegInv, TypeOK, Identity, KeysInv, PhaseInv, NoKey
  <2> QED
    BY <2>1, ElementOfSeq, ConstantsAssumption DEF RegInv, TypeOK
<1> HIDE DEF n
<1>3. self' \in [Agents -> Ids \cup {NoId}] /\ self'[a] = n
      /\ \A b \in Agents \ {a} : self'[b] = self[b]
  BY <1>1, <1>2 DEF RegInv, TypeOK
<1>4. /\ conf' \in [Agents -> Identity]
      /\ pc' \in [Agents -> {"boot", "register", "login", "persist", "write", "up"}]
      /\ then' \in [Agents -> {"boot", "register", "login", "up"}]
      /\ conf'[a].key = conf[a].key /\ conf'[a].id = conf[a].id
      /\ \A b \in Agents \ {a} :
           pc'[b] = pc[b] /\ conf'[b] = conf[b] /\ then'[b] = then[b]
      /\ pc'[a] = "up" \/ (pc'[a] = "persist" /\ then'[a] = "up")
  <2>1. CASE /\ pc' = [pc EXCEPT ![a] = "up"]
             /\ UNCHANGED <<conf, then>>
    BY <2>1 DEF RegInv, TypeOK
  <2>2. CASE /\ store[n] # << >>
             /\ conf' = [conf EXCEPT ![a].uid = store[n][1]]
             /\ Persist(a, "up")
    <3>1. store[n][1] \in Nat
      <4>1. store[n] \in Seq(Nat \ {NoUid})
        BY <1>2 DEF RegInv, TypeOK
      <4>2. 1 \in 1 .. Len(store[n])
        BY <2>2, <4>1, EmptySeq
      <4> QED
        BY <4>1, <4>2, ElementOfSeq
    <3>2. /\ conf' \in [Agents -> Identity]
          /\ conf'[a].key = conf[a].key /\ conf'[a].id = conf[a].id
          /\ \A b \in Agents \ {a} : conf'[b] = conf[b]
      BY <2>2, <3>1 DEF RegInv, TypeOK, Identity
    <3> QED
      BY <2>2, <3>2 DEF RegInv, TypeOK, Persist
  <2> QED
    BY <2>1, <2>2 DEF Login, n
<1>5. TypeOK' /\ KeysInv'
  BY <1>1, <1>3, <1>4 DEF RegInv, TypeOK, KeysInv
<1>6. Frame(a)
  BY <1>1, <1>3, <1>4 DEF Frame, HasKey
<1>7. Phase(a)'
  <2>1. HasKey' /\ conf[a].key # NoKey /\ conf[a].id # NoId
    BY <1>1 DEF RegInv, PhaseInv, HasKey, Settled
  <2> QED
    BY <1>2, <1>3, <1>4, <2>1 DEF Phase, Persisting, Settled
<1> QED
  BY <1>1, <1>5, <1>6, <1>7, PhaseOfOthers DEF RegInv

\* On from the secret: it has the key that the agent has.
LEMMA ContinueTypes ==
  ASSUME RegInv, NEW a \in Agents, Persisting(a), Continue(a),
         secret' \in Seq(Identity), Len(secret') <= 1,
         secret' # << >> => secret'[1].key <= Len(registered),
         HasKey => HasKey',
         then[a] = "login" => HasKey',
         fresh' \subseteq Agents,
         UNCHANGED <<registered, conf, self, raced, store, interregator, userKey, breaks>>
  PROVE  RegInv' /\ Frame(a)
<1>1. TypeOK' /\ KeysInv'
  BY ContinueFacts DEF RegInv, TypeOK, KeysInv
<1>2. Frame(a)
  BY ContinueFacts DEF Frame
<1>3. Phase(a)'
  <2>1. /\ conf[a].id # NoId
        /\ then[a] = "login" => conf[a].key # NoKey
        /\ then[a] = "up" => self[a] # NoId /\ HasKey'
    BY DEF RegInv, PhaseInv, Settled, Persisting
  <2> QED
    BY <2>1, ContinueFacts DEF Phase, Persisting, Settled
<1> QED
  BY <1>1, <1>2, <1>3, PhaseOfOthers DEF RegInv

LEMMA ReadTypes ==
  ASSUME RegInv, NEW a \in Agents, ReadSecret(a)
  PROVE  RegInv' /\ Frame(a) /\ pc[a] = "persist"
<1>1. pc[a] = "persist" /\ UNCHANGED <<registered, secret, conf, self, raced, store,
                                       interregator, userKey, breaks>>
  BY DEF ReadSecret, outside
<1>2. CASE secret = <<Written(a)>> /\ Continue(a) /\ UNCHANGED fresh
  <2>1. then[a] = "login" => HasKey
    <3>1. Written(a) \in Identity /\ secret[1] = Written(a) /\ secret # << >>
      BY <1>2, WrittenFacts, OfOne DEF RegInv
    <3> QED
      BY <1>1, <3>1, WrittenFacts DEF RegInv, PhaseInv, HasKey, Persisting
  <2>2. HasKey' = HasKey
    BY <1>1 DEF HasKey
  <2> QED
    BY <1>1, <1>2, <2>1, <2>2, ContinueTypes DEF RegInv, TypeOK, KeysInv, Persisting
<1>3. CASE /\ pc' = [pc EXCEPT ![a] = "write"]
           /\ fresh' = fresh \cup {a}
           /\ UNCHANGED then
  <2>1. TypeOK' /\ KeysInv'
    BY <1>1, <1>3 DEF RegInv, TypeOK, KeysInv
  <2>2. Frame(a) /\ Phase(a)'
    BY <1>1, <1>3 DEF RegInv, TypeOK, Frame, Phase, PhaseInv, HasKey, Persisting, Settled
  <2> QED
    BY <1>1, <2>1, <2>2, PhaseOfOthers DEF RegInv
<1> QED
  BY <1>2, <1>3 DEF ReadSecret

LEMMA WriteTypes ==
  ASSUME RegInv, NEW a \in Agents, WriteSecret(a)
  PROVE  RegInv' /\ Frame(a) /\ pc[a] = "write"
<1>1. /\ pc[a] = "write" /\ secret' = <<Written(a)>> /\ fresh' = {} /\ Continue(a)
      /\ UNCHANGED <<registered, conf, self, raced, store, interregator, userKey, breaks>>
  BY DEF WriteSecret, outside
<1>2. /\ secret' \in Seq(Identity) /\ Len(secret') = 1
      /\ secret'[1] = Written(a) /\ secret' # << >>
  BY <1>1, WrittenFacts, OfOne DEF RegInv
<1>3. Written(a).key <= Len(registered)
  BY WrittenFacts DEF RegInv, KeysInv
<1>4. /\ HasKey => HasKey'
      /\ then[a] = "login" => HasKey'
  BY <1>1, <1>2, WrittenFacts DEF RegInv, PhaseInv, HasKey, Persisting
<1> QED
  BY <1>1, <1>2, <1>3, <1>4, ContinueTypes DEF Persisting

LEMMA RebootTypes ==
  ASSUME RegInv, NEW a \in Agents, Reboot(a), breaks' \in 0 .. MaxBreaks,
         UNCHANGED <<registered, secret, interregator, userKey, raced>>,
         store' \in [Ids -> Seq(Nat \ {NoUid})]
  PROVE  RegInv' /\ Frame(a) /\ pc'[a] = "boot"
<1>1. /\ conf' \in [Agents -> Identity] /\ conf'[a].key = userKey
      /\ \A b \in Agents \ {a} : conf'[b] = conf[b]
  <2>1. [Unset EXCEPT !.key = userKey] \in Identity
        /\ [Unset EXCEPT !.key = userKey].key = userKey
    BY DEF RegInv, TypeOK, Unset, Identity, NoKey, NoUid
  <2> QED
    BY <2>1 DEF RegInv, TypeOK, Reboot
<1>2. TypeOK' /\ KeysInv'
  BY <1>1 DEF RegInv, TypeOK, KeysInv, Reboot
<1>3. pc'[a] = "boot"
  BY DEF RegInv, TypeOK, Reboot
<1>4. Frame(a)
  BY <1>1 DEF RegInv, TypeOK, Reboot, Frame, HasKey
<1>5. Phase(a)'
  BY <1>3 DEF Phase, Persisting, Settled
<1> QED
  BY <1>2, <1>3, <1>4, <1>5, PhaseOfOthers DEF RegInv

LEMMA StepTypes ==
  ASSUME RegInv, NEW a \in Agents, Step(a)
  PROVE  RegInv' /\ Frame(a) /\ pc[a] # "up"
<1>1. CASE Setup(a)
  BY <1>1, SetupTypes
<1>2. CASE RegisterAgent(a)
  BY <1>2, RegisterTypes
<1>3. CASE Login(a)
  BY <1>3, LoginTypes
<1>4. CASE ReadSecret(a)
  BY <1>4, ReadTypes
<1>5. CASE WriteSecret(a)
  BY <1>5, WriteTypes
<1>6. CASE WriteRefused(a)
  <2>1. /\ pc[a] = "write" /\ Reboot(a)
        /\ UNCHANGED <<registered, secret, raced, store, interregator, userKey, breaks>>
    BY <1>6 DEF WriteRefused, outside
  <2> QED
    BY <2>1, RebootTypes DEF RegInv, TypeOK
<1>7. CASE PersistUidFails(a)
  <2>1. /\ Persisting(a) /\ then[a] = "up" /\ Continue(a) /\ fresh' = fresh \ {a}
        /\ UNCHANGED <<registered, secret, conf, self, raced, store, interregator,
                       userKey, breaks>>
    BY <1>7 DEF PersistUidFails, outside, Persisting
  <2>2. HasKey => HasKey'
    BY <2>1 DEF HasKey
  <2> QED
    BY <2>1, <2>2, ContinueTypes DEF RegInv, TypeOK, KeysInv, Persisting
<1> QED
  BY <1>1, <1>2, <1>3, <1>4, <1>5, <1>6, <1>7 DEF Step

-----------------------------------------------------------------------------
(* The cluster handler *)

LEMMA StoreClusterFacts ==
  ASSUME TypeInv, NEW a \in Agents, self[a] \in Ids,
         NEW uid \in 1 .. uuids, StoreCluster(a, uid)
  PROVE  /\ store' \in [Ids -> Seq(Nat \ {NoUid})]
         /\ \A n \in Ids : store'[n] \in Seq(1 .. uuids)
         /\ uid \in ToSet(store'[self[a]])
         /\ \A n \in Ids : ToSet(store[n]) \subseteq ToSet(store'[n])
<1>1. uuids \in Nat /\ store \in [Ids -> Seq(Nat \ {NoUid})]
  BY DEF TypeInv, ClusterTypeOK, TypeOK
<1>2. CASE uid \in ToSet(store[self[a]]) /\ store' = store
  BY <1>1, <1>2 DEF TypeInv, StoreInv
<1>3. CASE store' = [store EXCEPT ![self[a]] = Append(@, uid)]
  <2>1. store[self[a]] \in Seq(1 .. uuids)
    BY DEF TypeInv, StoreInv
  <2>2. /\ Append(store[self[a]], uid) \in Seq(1 .. uuids)
        /\ Len(Append(store[self[a]], uid)) = Len(store[self[a]]) + 1
        /\ Append(store[self[a]], uid)[Len(store[self[a]]) + 1] = uid
        /\ \A i \in 1 .. Len(store[self[a]]) :
             Append(store[self[a]], uid)[i] = store[self[a]][i]
    BY <2>1, AppendProperties
  <2>3. Append(store[self[a]], uid) \in Seq(Nat \ {NoUid})
    BY <1>1, <2>2, SeqGrows
  <2>4. \A n \in Ids : store'[n] = IF n = self[a] THEN Append(store[n], uid) ELSE store[n]
    BY <1>1, <1>3
  <2>5. /\ DOMAIN store[self[a]] = 1 .. Len(store[self[a]]) /\ Len(store[self[a]]) \in Nat
        /\ DOMAIN Append(store[self[a]], uid) = 1 .. (Len(store[self[a]]) + 1)
    BY <2>1, <2>2, LenProperties
  <2>6. /\ uid \in ToSet(Append(store[self[a]], uid))
        /\ ToSet(store[self[a]]) \subseteq ToSet(Append(store[self[a]], uid))
    BY <2>2, <2>5 DEF ToSet
  <2>7. /\ \A n \in Ids : store'[n] \in Seq(1 .. uuids)
        /\ \A n \in Ids : ToSet(store[n]) \subseteq ToSet(store'[n])
        /\ uid \in ToSet(store'[self[a]])
    BY <2>2, <2>4, <2>6 DEF TypeInv, StoreInv
  <2>8. store' \in [Ids -> Seq(Nat \ {NoUid})]
    BY <1>1, <1>3, <2>3
  <2> QED
    BY <2>7, <2>8
<1> QED
  BY <1>2, <1>3 DEF StoreCluster

LEMMA RemoveAtType ==
  ASSUME NEW S, NEW s \in Seq(S), NEW i \in DOMAIN s
  PROVE  RemoveAt(s, i) \in Seq(S)
<1>1. Len(s) \in Nat /\ i \in 1 .. Len(s) /\ \A j \in 1 .. Len(s) : s[j] \in S
  BY LenProperties, ElementOfSeq
<1>2. SubSeq(s, 1, i - 1) \in Seq(S)
  <2>1. 1 \in Int /\ i - 1 \in Int /\ \A j \in 1 .. (i - 1) : s[j] \in S
    BY <1>1
  <2> QED
    BY <2>1, SubSeqProperties
<1>3. SubSeq(s, i + 1, Len(s)) \in Seq(S)
  <2>1. i + 1 \in Int /\ Len(s) \in Int /\ \A j \in (i + 1) .. Len(s) : s[j] \in S
    BY <1>1
  <2> QED
    BY <2>1, SubSeqProperties
<1> QED
  BY <1>2, <1>3, ConcatProperties DEF RemoveAt

LEMMA UpdateTypes ==
  ASSUME TypeInv, NEW a \in Agents, UpdateClusterResource(a)
  PROVE  TypeInv'
<1> DEFINE new == store[self[a]] = << >>
           uid == IF new THEN uuids + 1 ELSE UidOfFirst(a)
<1>1. /\ pc[a] = "up" /\ ~ Registering(a)
      /\ owner' = [owner EXCEPT ![a] = uid]
      /\ conf' = [conf EXCEPT ![a].uid = uid]
      /\ UNCHANGED <<registered, store, secret, interregator, userKey, pc, self,
                     then, fresh, breaks, raced, removed>>
  BY DEF UpdateClusterResource
<1>2. self[a] \in Ids /\ uuids \in Nat
  BY <1>1 DEF TypeInv, ClusterTypeOK, TypeOK, PhaseInv, Settled
<1>3. ~ new => UidOfFirst(a) \in 1 .. uuids
  <2>1. store[self[a]] \in Seq(1 .. uuids)
    BY <1>2 DEF TypeInv, StoreInv
  <2>2. ~ new => 1 \in 1 .. Len(store[self[a]])
    BY <2>1, EmptySeq
  <2> QED
    BY <2>1, <2>2, ElementOfSeq DEF UidOfFirst
<1>4. /\ uuids' = IF new THEN uuids + 1 ELSE uuids
      /\ queued' = [queued EXCEPT ![a] = IF new THEN @ ELSE uid]
      /\ \E h \in {"register", "running", "reregister"} : handler' = [handler EXCEPT ![a] = h]
  <2>1. CASE new
    <3>1. AnswerNew(a)
      BY <2>1 DEF UpdateClusterResource
    <3> QED
      BY <2>1, <3>1 DEF AnswerNew, TypeInv, ClusterTypeOK
  <2>2. CASE ~ new
    BY <2>2 DEF UpdateClusterResource
  <2> QED
    BY <2>1, <2>2
<1>5. uid \in 1 .. uuids' /\ uuids' \in Nat /\ uuids <= uuids'
  BY <1>2, <1>3, <1>4
<1> HIDE DEF uid
<1>6. /\ conf' \in [Agents -> Identity]
      /\ \A b \in Agents : conf'[b].key = conf[b].key /\ conf'[b].id = conf[b].id
  <2>1. uid \in Nat /\ conf \in [Agents -> Identity]
    BY <1>5 DEF TypeInv, ClusterTypeOK, TypeOK
  <2>2. conf' = [conf EXCEPT ![a].uid = uid]
    BY <1>1
  <2> QED
    BY <2>1, <2>2 DEF Identity
<1>7. TypeOK' /\ KeysInv' /\ PhaseInv'
  BY <1>1, <1>6 DEF TypeInv, ClusterTypeOK, TypeOK, KeysInv, PhaseInv, HasKey,
                    Persisting, Settled
<1>8. ClusterTypeOK'
  <2>1. /\ owner' \in [Agents -> 0 .. uuids']
        /\ queued' \in [Agents -> 0 .. uuids']
    <3>1. owner \in [Agents -> 0 .. uuids] /\ queued \in [Agents -> 0 .. uuids]
      BY DEF TypeInv, ClusterTypeOK
    <3>2. 0 .. uuids \subseteq 0 .. uuids' /\ uid \in 0 .. uuids'
      BY <1>2, <1>5
    <3> QED
      BY <1>1, <1>4, <3>1, <3>2
  <2>2. handler' \in [Agents -> {"off", "register", "running", "reregister"}]
    BY <1>4 DEF TypeInv, ClusterTypeOK
  <2> QED
    BY <1>1, <1>5, <1>7, <2>1, <2>2 DEF TypeInv, ClusterTypeOK
<1>9. HandlerInv'
  BY <1>1, <1>4, <1>5 DEF TypeInv, ClusterTypeOK, HandlerInv, NoUid
<1>10. StoreInv'
  BY <1>1, <1>2, <1>4, SeqGrows DEF TypeInv, StoreInv
<1> QED
  BY <1>7, <1>8, <1>9, <1>10 DEF TypeInv

LEMMA StopTypes ==
  ASSUME TypeInv, NEW a \in Agents, Reboot(a), StopHandler(a), breaks' \in 0 .. MaxBreaks,
         UNCHANGED <<registered, secret, interregator, userKey, raced, uuids, removed>>,
         store' \in [Ids -> Seq(Nat \ {NoUid})],
         \A n \in Ids : store'[n] \in Seq(1 .. uuids)
  PROVE  TypeInv'
<1>1. RegInv' /\ Frame(a) /\ pc'[a] = "boot"
  BY RebootTypes DEF TypeInv, ClusterTypeOK, RegInv
<1>2. /\ handler' \in [Agents -> {"off", "register", "running", "reregister"}]
      /\ owner' \in [Agents -> 0 .. uuids] /\ queued' \in [Agents -> 0 .. uuids]
      /\ handler'[a] = "off"
      /\ \A b \in Agents \ {a} : handler'[b] = handler[b] /\ owner'[b] = owner[b]
  BY DEF TypeInv, ClusterTypeOK, StopHandler, NoUid
<1>3. ClusterTypeOK'
  BY <1>1, <1>2 DEF TypeInv, ClusterTypeOK, RegInv
<1>4. HandlerInv'
  BY <1>1, <1>2 DEF TypeInv, HandlerInv, Frame
<1>5. StoreInv'
  BY DEF TypeInv, StoreInv
<1> QED
  BY <1>1, <1>3, <1>4, <1>5 DEF TypeInv, RegInv

\* The steps that leave the agents where they are.
LEMMA StoreTypes ==
  ASSUME TypeInv, breaks' \in 0 .. MaxBreaks, removed' \in BOOLEAN,
         UNCHANGED <<registered, secret, interregator, userKey, pc, conf, self, then,
                     fresh, raced, owner, uuids>>,
         handler' \in [Agents -> {"off", "register", "running", "reregister"}],
         \A a \in Agents : handler'[a] = "off" <=> handler[a] = "off",
         queued' \in [Agents -> 0 .. uuids],
         store' \in [Ids -> Seq(Nat \ {NoUid})],
         \A n \in Ids : store'[n] \in Seq(1 .. uuids)
  PROVE  TypeInv'
<1>1. TypeOK' /\ KeysInv' /\ PhaseInv'
  BY DEF TypeInv, ClusterTypeOK, TypeOK, KeysInv, PhaseInv, HasKey, Persisting, Settled
<1>2. ClusterTypeOK' /\ HandlerInv' /\ StoreInv'
  BY <1>1 DEF TypeInv, ClusterTypeOK, HandlerInv, StoreInv
<1> QED
  BY <1>1, <1>2 DEF TypeInv

LEMMA UpFacts ==
  ASSUME TypeInv, NEW a \in Agents, handler[a] # "off"
  PROVE  self[a] \in Ids /\ owner[a] \in 1 .. uuids
<1>1. pc[a] = "up" /\ owner[a] # NoUid
  BY DEF TypeInv, HandlerInv
<1>2. self[a] # NoId /\ self[a] \in Ids \cup {NoId}
  BY <1>1 DEF TypeInv, ClusterTypeOK, TypeOK, PhaseInv, Settled
<1>3. owner[a] \in 0 .. uuids /\ uuids \in Nat
  BY DEF TypeInv, ClusterTypeOK
<1> QED
  BY <1>1, <1>2, <1>3 DEF NoUid

\* A uid that waits in the cache goes to the API as the agent that has it;
\* what a restarted agent had is gone.
QueuedInv == \A a \in Agents : queued[a] # NoUid => handler[a] # "off"

FullTypeInv == TypeInv /\ QueuedInv

LEMMA StepLeaves ==
  ASSUME NEW a \in Agents, Step(a)
  PROVE  UNCHANGED outside
BY DEF Step, Setup, RegisterAgent, Login, ReadSecret, WriteSecret, WriteRefused,
       PersistUidFails

LEMMA FullTypeInit == ClusterInit => FullTypeInv
BY TypeInit DEF FullTypeInv, QueuedInv, ClusterInit

LEMMA FullTypeStep == FullTypeInv /\ [ClusterNext]_clusterVars => FullTypeInv'
<1> SUFFICES ASSUME FullTypeInv, [ClusterNext]_clusterVars PROVE FullTypeInv'
  OBVIOUS
<1> USE DEF FullTypeInv
<1>0. /\ breaks \in 0 .. MaxBreaks /\ MaxBreaks \in Nat /\ uuids \in Nat
      /\ store \in [Ids -> Seq(Nat \ {NoUid})]
      /\ handler \in [Agents -> {"off", "register", "running", "reregister"}]
      /\ queued \in [Agents -> 0 .. uuids]
      /\ removed \in BOOLEAN
  BY ConstantsAssumption DEF TypeInv, ClusterTypeOK, TypeOK
<1>1. ASSUME NEW a \in Agents, AgentStep(a) PROVE FullTypeInv'
  <2>1. RegInv' /\ Frame(a) /\ pc[a] # "up"
    BY <1>1, StepTypes DEF TypeInv, ClusterTypeOK, RegInv, AgentStep
  <2>2. UNCHANGED <<store, handler, owner, queued, uuids, removed>>
    BY <1>1, StepLeaves DEF AgentStep, outside, handlerVars
  <2>3. ClusterTypeOK' /\ StoreInv'
    BY <2>1, <2>2 DEF TypeInv, ClusterTypeOK, RegInv, StoreInv
  <2>4. HandlerInv' /\ QueuedInv'
    BY <2>1, <2>2 DEF TypeInv, HandlerInv, Frame, QueuedInv
  <2> QED
    BY <2>1, <2>3, <2>4 DEF TypeInv, RegInv
<1>2. ASSUME NEW a \in Agents, UpdateClusterResource(a) PROVE FullTypeInv'
  <2>1. TypeInv'
    BY <1>2, UpdateTypes
  <2>2. QueuedInv'
    <3>1. CASE store[self[a]] = << >>
      <4>1. handler' = [handler EXCEPT ![a] = IF Watching(a) THEN "reregister" ELSE "register"]
            /\ queued' = queued
        BY <1>2, <3>1 DEF UpdateClusterResource, AnswerNew
      <4> QED
        BY <1>0, <4>1 DEF QueuedInv
    <3>2. CASE store[self[a]] # << >>
      <4>1. handler' = [handler EXCEPT ![a] = "running"]
            /\ \E u : queued' = [queued EXCEPT ![a] = u]
        BY <1>2, <3>2 DEF UpdateClusterResource
      <4> QED
        BY <1>0, <4>1 DEF QueuedInv
    <3> QED
      BY <3>1, <3>2
  <2> QED
    BY <2>1, <2>2
<1>3. ASSUME NEW a \in Agents, RegisterCluster(a) \/ TickFails(a) PROVE FullTypeInv'
  <2>1. /\ Registering(a)
        /\ handler' = [handler EXCEPT ![a] = "running"]
        /\ UNCHANGED <<registered, secret, interregator, userKey, pc, fresh, breaks, raced,
                       conf, self, then, owner, queued, uuids, removed>>
        /\ StoreCluster(a, owner[a]) \/ store' = store
    BY <1>3 DEF RegisterCluster, TickFails, local, Registering
  <2>2. self[a] \in Ids /\ owner[a] \in 1 .. uuids
    BY <2>1, UpFacts DEF Registering
  <2>3. /\ store' \in [Ids -> Seq(Nat \ {NoUid})]
        /\ \A n \in Ids : store'[n] \in Seq(1 .. uuids)
    BY <1>0, <2>1, <2>2, StoreClusterFacts DEF TypeInv, StoreInv
  <2>4. /\ handler' \in [Agents -> {"off", "register", "running", "reregister"}]
        /\ \A b \in Agents : handler'[b] = "off" <=> handler[b] = "off"
    BY <1>0, <2>1 DEF Registering
  <2>5. TypeInv'
    BY <1>0, <2>1, <2>3, <2>4, StoreTypes
  <2> QED
    BY <2>1, <2>4, <2>5 DEF QueuedInv
<1>4. ASSUME NEW a \in Agents, SendQueued(a) PROVE FullTypeInv'
  <2>1. /\ queued[a] # NoUid
        /\ queued' = [queued EXCEPT ![a] = NoUid]
        /\ StoreCluster(a, queued[a])
        /\ UNCHANGED <<registered, secret, interregator, userKey, pc, fresh, breaks, raced,
                       conf, self, then, handler, owner, uuids, removed>>
    BY <1>4 DEF SendQueued, local
  <2>2. self[a] \in Ids /\ queued[a] \in 1 .. uuids
    BY <1>0, <2>1, UpFacts DEF QueuedInv, NoUid
  <2>3. /\ store' \in [Ids -> Seq(Nat \ {NoUid})]
        /\ \A n \in Ids : store'[n] \in Seq(1 .. uuids)
    BY <2>1, <2>2, StoreClusterFacts
  <2>4. queued' \in [Agents -> 0 .. uuids] /\ QueuedInv'
    BY <1>0, <2>1 DEF QueuedInv, NoUid
  <2>5. TypeInv'
    BY <1>0, <2>1, <2>3, <2>4, StoreTypes
  <2> QED
    BY <2>4, <2>5
<1>5. ASSUME NEW a \in Agents, RestartAgent(a) PROVE FullTypeInv'
  <2>1. /\ Reboot(a) /\ StopHandler(a) /\ breaks' \in 0 .. MaxBreaks
        /\ UNCHANGED <<registered, secret, interregator, userKey, raced, uuids, removed, store>>
    BY <1>0, <1>5 DEF RestartAgent, Restart
  <2>2. TypeInv'
    BY <1>0, <2>1, StopTypes DEF TypeInv, StoreInv
  <2>3. QueuedInv'
    BY <1>0, <2>1 DEF StopHandler, QueuedInv, NoUid
  <2> QED
    BY <2>2, <2>3
<1>6. ASSUME NEW a \in Agents, StartFails(a) PROVE FullTypeInv'
  <2>1. /\ handler[a] = "register"
        /\ Reboot(a) /\ StopHandler(a) /\ breaks' \in 0 .. MaxBreaks
        /\ StoreCluster(a, owner[a]) \/ store' = store
        /\ UNCHANGED <<registered, secret, interregator, userKey, raced, uuids, removed>>
    BY <1>0, <1>6 DEF StartFails
  <2>2. /\ store' \in [Ids -> Seq(Nat \ {NoUid})]
        /\ \A n \in Ids : store'[n] \in Seq(1 .. uuids)
    BY <1>0, <2>1, UpFacts, StoreClusterFacts DEF TypeInv, StoreInv
  <2>3. TypeInv'
    BY <1>0, <2>1, <2>2, StopTypes
  <2>4. QueuedInv'
    BY <1>0, <2>1 DEF StopHandler, QueuedInv, NoUid
  <2> QED
    BY <2>3, <2>4
<1>7. ASSUME NEW n \in Ids, RemoveCluster(n) PROVE FullTypeInv'
  <2>1. PICK i \in DOMAIN store[n] : store' = [store EXCEPT ![n] = RemoveAt(@, i)]
    BY <1>7 DEF RemoveCluster
  <2>2. /\ breaks' \in 0 .. MaxBreaks /\ removed' \in BOOLEAN
        /\ UNCHANGED <<registered, secret, interregator, userKey, pc, fresh, raced,
                       conf, self, then, handler, owner, queued, uuids>>
    BY <1>0, <1>7 DEF RemoveCluster, local
  <2>3. RemoveAt(store[n], i) \in Seq(1 .. uuids)
    BY RemoveAtType DEF TypeInv, StoreInv
  <2>4. RemoveAt(store[n], i) \in Seq(Nat \ {NoUid})
    BY <1>0, <2>3, SeqGrows
  <2>5. /\ store' \in [Ids -> Seq(Nat \ {NoUid})]
        /\ \A m \in Ids : store'[m] \in Seq(1 .. uuids)
    BY <1>0, <2>1, <2>3, <2>4 DEF TypeInv, StoreInv
  <2>6. TypeInv'
    BY <1>0, <2>2, <2>5, StoreTypes
  <2> QED
    BY <2>2, <2>6 DEF QueuedInv
<1>8. CASE UNCHANGED clusterVars
  <2> USE <1>8 DEF clusterVars, vars, handlerVars
  <2>1. TypeInv'
    BY <1>0, StoreTypes DEF TypeInv, StoreInv
  <2> QED
    BY <2>1 DEF QueuedInv
<1> QED
  BY <1>1, <1>2, <1>3, <1>4, <1>5, <1>6, <1>7, <1>8 DEF ClusterNext

\* The types of the agents, the secret, the API and the cluster handlers.
THEOREM ClusterTypeCorrect == ClusterSpec => []ClusterTypeOK
<1>1. FullTypeInv => ClusterTypeOK
  BY DEF FullTypeInv, TypeInv
<1> QED
  BY <1>1, FullTypeInit, FullTypeStep, PTL DEF ClusterSpec

\* An agent that is up has left its key in the secret.
THEOREM KeyPersisted == ClusterSpec => []KeyIsPersisted
<1>1. FullTypeInv => KeyIsPersisted
  BY DEF FullTypeInv, TypeInv, PhaseInv, KeyIsPersisted, Settled, HasKey
<1> QED
  BY <1>1, FullTypeInit, FullTypeStep, PTL DEF ClusterSpec

-----------------------------------------------------------------------------
(* The owner *)

LEMMA OwnerStep ==
  ASSUME FullTypeInv, OwnerIsKnown, [ClusterNext]_clusterVars
  PROVE  OwnerIsKnown'
<1> SUFFICES ASSUME NEW b \in Agents, Watching(b)', ~ removed'
             PROVE  owner'[b] \in ToSet(store'[self'[b]])
  BY DEF OwnerIsKnown
<1> USE DEF FullTypeInv
<1>0. /\ uuids \in Nat /\ handler \in [Agents -> {"off", "register", "running", "reregister"}]
      /\ owner \in [Agents -> 0 .. uuids]
      /\ queued \in [Agents -> 0 .. uuids]
  BY DEF TypeInv, ClusterTypeOK
<1>1. ASSUME Watching(b), UNCHANGED <<owner, removed>>, self'[b] = self[b],
             \A n \in Ids : ToSet(store[n]) \subseteq ToSet(store'[n])
      PROVE  owner'[b] \in ToSet(store'[self'[b]])
  <2>1. self[b] \in Ids
    BY <1>1, UpFacts DEF Watching
  <2>2. owner[b] \in ToSet(store[self[b]])
    BY <1>1 DEF OwnerIsKnown
  <2> QED
    BY <1>1, <2>1, <2>2
<1>2. ASSUME NEW a \in Agents, AgentStep(a)
      PROVE  owner'[b] \in ToSet(store'[self'[b]])
  <2>1. Frame(a) /\ pc[a] # "up" /\ UNCHANGED <<store, handler, owner, removed>>
    BY <1>2, StepTypes, StepLeaves
       DEF TypeInv, ClusterTypeOK, RegInv, AgentStep, outside, handlerVars
  <2>2. Watching(b) /\ b # a
    BY <2>1 DEF Watching, TypeInv, HandlerInv
  <2>3. self'[b] = self[b]
    BY <2>1, <2>2 DEF Frame
  <2> QED
    BY <1>1, <2>1, <2>2, <2>3
<1>3. ASSUME NEW a \in Agents, UpdateClusterResource(a)
      PROVE  owner'[b] \in ToSet(store'[self'[b]])
  <2>1. UNCHANGED <<store, self, removed>>
    BY <1>3 DEF UpdateClusterResource
  <2>2. CASE b # a
    <3>1. \E h, u : handler' = [handler EXCEPT ![a] = h] /\ owner' = [owner EXCEPT ![a] = u]
      BY <1>3 DEF UpdateClusterResource, AnswerNew
    <3>2. Watching(b) /\ owner'[b] = owner[b]
      BY <1>0, <2>2, <3>1 DEF Watching
    <3> QED
      BY <2>1, <3>2 DEF OwnerIsKnown
  <2>3. CASE b = a /\ store[self[a]] = << >>
    <3>1. Watching(a)
      <4>1. handler' = [handler EXCEPT ![a] = IF Watching(a) THEN "reregister" ELSE "register"]
        BY <1>3, <2>3 DEF UpdateClusterResource, AnswerNew
      <4> QED
        BY <1>0, <2>3, <4>1 DEF Watching
    <3>2. owner[a] \in ToSet(<< >>)
      BY <2>1, <2>3, <3>1 DEF OwnerIsKnown
    <3> QED
      BY <3>2 DEF ToSet
  <2>4. CASE b = a /\ store[self[a]] # << >>
    <3>1. owner'[a] = store[self[a]][1]
      BY <1>0, <1>3, <2>4 DEF UpdateClusterResource, UidOfFirst
    <3>2. self[a] \in Ids
      BY <1>3 DEF UpdateClusterResource, TypeInv, ClusterTypeOK, TypeOK, PhaseInv, Settled
    <3>3. store[self[a]] \in Seq(1 .. uuids)
      BY <3>2 DEF TypeInv, StoreInv
    <3>4. 1 \in DOMAIN store[self[a]]
      BY <2>4, <3>3, EmptySeq, LenProperties
    <3> QED
      BY <2>1, <2>4, <3>1, <3>4 DEF ToSet
  <2> QED
    BY <2>2, <2>3, <2>4
<1>4. ASSUME NEW a \in Agents, RegisterCluster(a)
      PROVE  owner'[b] \in ToSet(store'[self'[b]])
  <2>1. /\ Registering(a) /\ StoreCluster(a, owner[a])
        /\ handler' = [handler EXCEPT ![a] = "running"]
        /\ UNCHANGED <<self, owner, removed>>
    BY <1>4 DEF RegisterCluster, local
  <2>2. self[a] \in Ids /\ owner[a] \in 1 .. uuids
    BY <2>1, UpFacts DEF Registering
  <2>3. /\ owner[a] \in ToSet(store'[self[a]])
        /\ \A n \in Ids : ToSet(store[n]) \subseteq ToSet(store'[n])
    BY <2>1, <2>2, StoreClusterFacts
  <2>4. CASE b = a
    BY <2>1, <2>3, <2>4
  <2>5. CASE b # a
    <3>1. Watching(b)
      BY <1>0, <2>1, <2>5 DEF Watching
    <3> QED
      BY <1>1, <2>1, <2>3, <3>1
  <2> QED
    BY <2>4, <2>5
<1>5. ASSUME NEW a \in Agents, TickFails(a)
      PROVE  owner'[b] \in ToSet(store'[self'[b]])
  <2>1. /\ StoreCluster(a, owner[a]) \/ store' = store
        /\ handler' = [handler EXCEPT ![a] = "running"]
        /\ UNCHANGED <<self, owner, removed>>
    BY <1>5 DEF TickFails, local
  <2>2. self[a] \in Ids /\ owner[a] \in 1 .. uuids /\ handler[a] = "reregister"
    BY <1>5, UpFacts DEF TickFails
  <2>3. \A n \in Ids : ToSet(store[n]) \subseteq ToSet(store'[n])
    BY <2>1, <2>2, StoreClusterFacts
  <2>4. Watching(b)
    BY <1>0, <2>1, <2>2 DEF Watching
  <2> QED
    BY <1>1, <2>1, <2>3, <2>4
<1>6. ASSUME NEW a \in Agents, SendQueued(a)
      PROVE  owner'[b] \in ToSet(store'[self'[b]])
  <2>1. /\ queued[a] # NoUid /\ StoreCluster(a, queued[a])
        /\ UNCHANGED <<self, handler, owner, removed>>
    BY <1>6 DEF SendQueued, local
  <2>2. self[a] \in Ids /\ queued[a] \in 1 .. uuids
    BY <1>0, <2>1, UpFacts DEF QueuedInv, NoUid
  <2>3. \A n \in Ids : ToSet(store[n]) \subseteq ToSet(store'[n])
    BY <2>1, <2>2, StoreClusterFacts
  <2> QED
    BY <1>1, <2>1, <2>3 DEF Watching
<1>7. ASSUME NEW a \in Agents, Reboot(a), StopHandler(a), removed' = removed,
             \A n \in Ids : ToSet(store[n]) \subseteq ToSet(store'[n])
      PROVE  owner'[b] \in ToSet(store'[self'[b]])
  <2>1. b # a /\ Watching(b)
    BY <1>0, <1>7 DEF StopHandler, Watching
  <2>2. self'[b] = self[b] /\ owner'[b] = owner[b]
    BY <1>0, <1>7, <2>1 DEF StopHandler, Reboot, TypeInv, ClusterTypeOK, TypeOK
  <2>3. self[b] \in Ids
    BY <2>1, UpFacts DEF Watching
  <2> QED
    BY <1>7, <2>1, <2>2, <2>3 DEF OwnerIsKnown
<1>8. ASSUME NEW a \in Agents, RestartAgent(a)
      PROVE  owner'[b] \in ToSet(store'[self'[b]])
  BY <1>7, <1>8 DEF RestartAgent, Restart
<1>9. ASSUME NEW a \in Agents, StartFails(a)
      PROVE  owner'[b] \in ToSet(store'[self'[b]])
  <2>1. /\ handler[a] = "register" /\ Reboot(a) /\ StopHandler(a) /\ removed' = removed
    BY <1>9 DEF StartFails
  <2>2. StoreCluster(a, owner[a]) \/ store' = store
    BY <1>9 DEF StartFails
  <2>3. \A n \in Ids : ToSet(store[n]) \subseteq ToSet(store'[n])
    BY <2>1, <2>2, UpFacts, StoreClusterFacts
  <2> QED
    BY <1>7, <2>1, <2>3
<1>10. ASSUME NEW n \in Ids, RemoveCluster(n)
       PROVE  owner'[b] \in ToSet(store'[self'[b]])
  BY <1>10 DEF RemoveCluster
<1>11. CASE UNCHANGED clusterVars
  BY <1>11 DEF clusterVars, vars, handlerVars, OwnerIsKnown, Watching
<1> QED
  BY <1>2, <1>3, <1>4, <1>5, <1>6, <1>8, <1>9, <1>10, <1>11 DEF ClusterNext

\* What the watchers of any agent send is owned by a uid that ROR has, until
\* somebody removes a cluster.
THEOREM OwnerKnown == ClusterSpec => []OwnerIsKnown
<1>1. ClusterInit => OwnerIsKnown
  BY DEF ClusterInit, OwnerIsKnown, Watching
<1> QED
  BY <1>1, FullTypeInit, FullTypeStep, OwnerStep, PTL DEF ClusterSpec

-----------------------------------------------------------------------------
(* One identity *)

\* An agent that is to complete the secret: what it has agrees with what is
\* there, and nobody else is at it.
Completes(a) ==
  /\ ~ Complete(secret)
  /\ \A b \in Agents : Undecided(b) => b = a
  /\ secret # << >> => secret[1].key \in {NoKey, conf[a].key}
  /\ conf[a].key # NoKey => RightId(conf[a].key, conf[a].id)
  /\ pc[a] = "register" \/ then[a] = "register" => conf[a].key = NoKey

\* An agent that has its identity has that of the secret, and the API knows it.
Shares(a) ==
  /\ Complete(secret)
  /\ conf[a].key = secret[1].key /\ conf[a].id = secret[1].id
  /\ pc[a] # "login" => self[a] = registered[conf[a].key]

Consistent ==
  /\ Complete(secret) => RightId(secret[1].key, secret[1].id)
  /\ \A a \in Agents : Undecided(a) => Completes(a)
  /\ \A a \in Agents : Settled(a) => Shares(a)

\* Only the operator's secret has no id.
OperatorInv == secret # << >> /\ secret[1].id = NoId => secret[1].key = 1

IdentityInv == OperatorInv /\ (~ raced => Consistent)

LEMMA IdentityInit == ClusterInit => IdentityInv
<1> SUFFICES ASSUME ClusterInit PROVE IdentityInv
  OBVIOUS
<1>1. /\ \A a \in Agents : ~ Undecided(a) /\ ~ Settled(a)
      /\ secret # << >> => secret = <<[Unset EXCEPT !.key = 1]>>
  BY DEF ClusterInit, Init, Undecided, Settled, Persisting
<1>2. secret # << >> => secret[1].id = NoId /\ secret[1].key = 1
  <2>1. /\ [Unset EXCEPT !.key = 1].id = NoId
        /\ [Unset EXCEPT !.key = 1].key = 1
    BY DEF Unset
  <2> DEFINE first == [Unset EXCEPT !.key = 1]
  <2>2. <<first>>[1] = first
    OBVIOUS
  <2> HIDE DEF first
  <2>3. secret # << >> => secret[1] = first
    BY <1>1, <2>2 DEF first
  <2> QED
    BY <2>1, <2>3 DEF first
<1> QED
  BY <1>1, <1>2 DEF IdentityInv, OperatorInv, Consistent, Complete

LEMMA OfUnchanged ==
  ASSUME UNCHANGED <<registered, interregator>>
  PROVE  \A key, id : RightId(key, id)' <=> RightId(key, id)
BY DEF RightId

\* Steps after which the agents know at most less than before.
LEMMA LessKnown ==
  ASSUME IdentityInv, UNCHANGED <<registered, secret, interregator, raced>>,
         \A a \in Agents :
           \/ pc'[a] = "boot"
           \/ /\ pc'[a] = pc[a] /\ then'[a] = then[a] /\ self'[a] = self[a]
              /\ conf'[a].key = conf[a].key /\ conf'[a].id = conf[a].id
  PROVE  IdentityInv'
<1>1. OperatorInv'
  BY DEF IdentityInv, OperatorInv
<1>2. ASSUME ~ raced' PROVE Consistent'
  <2>1. Consistent
    BY <1>2 DEF IdentityInv
  <2>2. Complete(secret') <=> Complete(secret)
    OBVIOUS
  <2>3. \A a \in Agents : Undecided(a)' => Undecided(a) /\ pc'[a] # "boot"
    BY DEF Undecided
  <2>4. \A a \in Agents : Settled(a)' => Settled(a) /\ pc'[a] # "boot"
    BY DEF Settled, Persisting
  <2>5. ASSUME NEW a \in Agents, Undecided(a)' PROVE Completes(a)'
    BY <2>1, <2>2, <2>3, <2>5, OfUnchanged DEF Consistent, Completes, RightId
  <2>6. ASSUME NEW a \in Agents, Settled(a)' PROVE Shares(a)'
    BY <2>1, <2>2, <2>4, <2>6 DEF Consistent, Shares
  <2> QED
    BY <2>1, <2>2, <2>5, <2>6 DEF Consistent, RightId
<1> QED
  BY <1>1, <1>2 DEF IdentityInv

\* Setup of a while nobody else completes the secret.
LEMMA SetupConsistent ==
  ASSUME RegInv, IdentityInv, NEW a \in Agents, Setup(a), ~ raced'
  PROVE  Consistent'
<1> DEFINE c == AuthFromSecret(a)
<1>1. UNCHANGED <<registered, secret, self, interregator>> /\ pc[a] = "boot"
      /\ ~ raced /\ (~ Complete(secret) => \A b \in Agents \ {a} : ~ Undecided(b))
  BY DEF Setup, outside
<1>2. Consistent
  BY <1>1 DEF IdentityInv
<1>3. RegInv' /\ Frame(a)
  BY SetupTypes
<1>4. \A b \in Agents \ {a} :
        /\ Undecided(b)' => Undecided(b) /\ Completes(b)
        /\ Settled(b)' => Settled(b) /\ Shares(b)
  BY <1>2, <1>3 DEF Consistent, Frame, Undecided, Settled, Persisting
<1>5. secret # << >> => secret[1] \in Identity
  BY SecretFacts DEF RegInv, TypeOK
<1>6. CASE Complete(secret)
  <2>1. conf'[a] = secret[1] /\ pc'[a] = "login"
    <3>1. c = secret[1] /\ c.id # NoId /\ c.key # NoKey
      BY <1>6 DEF Complete, AuthFromSecret
    <3>2. conf' = [conf EXCEPT ![a] = c] /\ pc' = [pc EXCEPT ![a] = AfterSetup(c)]
      BY <3>1 DEF Setup
    <3> QED
      BY <3>1, <3>2 DEF RegInv, TypeOK, AfterSetup
  <2>2. ASSUME NEW b \in Agents, Settled(b)' PROVE Shares(b)'
    <3>1. CASE b = a
      BY <1>1, <1>6, <2>1, <3>1 DEF Shares, Complete
    <3>2. CASE b # a
      BY <1>1, <1>3, <1>4, <2>2, <3>2 DEF Shares, Frame, Complete
    <3> QED
      BY <3>1, <3>2
  <2>3. ASSUME NEW b \in Agents, Undecided(b)' PROVE FALSE
    <3>1. b # a
      BY <2>1, <2>3 DEF Undecided
    <3> QED
      BY <1>4, <1>6, <2>3, <3>1 DEF Completes
  <2> QED
    BY <1>1, <1>2, <2>2, <2>3 DEF Consistent, Complete, RightId
<1>7. CASE ~ Complete(secret)
  <2>1. \A b \in Agents \ {a} : ~ Undecided(b)' /\ ~ Settled(b)'
    BY <1>1, <1>4, <1>7 DEF Shares
  <2>2. /\ conf'[a].key = c.key /\ conf'[a].id # NoId
        /\ c.key = IF secret = << >> THEN NoKey ELSE secret[1].key
        /\ \/ pc'[a] = "register" /\ c.key = NoKey /\ then'[a] = then[a]
           \/ /\ pc'[a] = "persist" /\ then'[a] = AfterSetup(c) /\ c.id = NoId
              /\ conf'[a].id \in NewId(c)
    <3>1. c \in Identity /\ c.key = IF secret = << >> THEN NoKey ELSE secret[1].key
      BY <1>5 DEF AuthFromSecret, Unset, Identity, NoKey, NoUid
    <3>2. CASE /\ c.id # NoId
               /\ conf' = [conf EXCEPT ![a] = c]
               /\ pc' = [pc EXCEPT ![a] = AfterSetup(c)]
               /\ UNCHANGED then
      <4>1. c.key = NoKey
        BY <1>7, <3>2 DEF AuthFromSecret, Complete, Unset
      <4> QED
        BY <3>1, <3>2, <4>1 DEF RegInv, TypeOK, AfterSetup
    <3>3. CASE /\ c.id = NoId
               /\ \E n \in NewId(c) : conf' = [conf EXCEPT ![a] = [c EXCEPT !.id = n]]
               /\ Persist(a, AfterSetup(c))
      <4>1. PICK n \in NewId(c) : conf' = [conf EXCEPT ![a] = [c EXCEPT !.id = n]]
        BY <3>3
      <4>2. [c EXCEPT !.id = n].id = n /\ [c EXCEPT !.id = n].key = c.key
        BY <3>1 DEF Identity
      <4> HIDE DEF c
      <4>3. conf'[a].id = n /\ conf'[a].key = c.key
        BY <4>1, <4>2 DEF RegInv, TypeOK
      <4>4. pc'[a] = "persist" /\ then'[a] = AfterSetup(c)
        BY <3>3 DEF Persist, RegInv, TypeOK
      <4>5. conf'[a].id # NoId
        BY <1>3, <4>4 DEF RegInv, PhaseInv
      <4> QED
        BY <3>1, <3>3, <4>3, <4>4, <4>5
    <3> QED
      BY <3>2, <3>3 DEF Setup
  <2>3. ~ Settled(a)' /\ pc'[a] # "login"
    BY <2>2 DEF Settled, Persisting, AfterSetup
  <2>4. conf'[a].key # NoKey => RightId(conf[a].key, conf[a].id)'
    <3>1. SUFFICES ASSUME c.key # NoKey PROVE RightId(conf[a].key, conf[a].id)'
      BY <2>2
    <3>2. c.id = NoId /\ conf'[a].id \in NewId(c)
      BY <2>2, <3>1
    <3>3. c.key = 1
      BY <2>2, <3>1, <3>2 DEF IdentityInv, OperatorInv, AuthFromSecret, Unset
    <3>4. interregator' = interregator
      BY DEF Setup, outside
    <3> HIDE DEF c
    <3> QED
      BY <1>1, <2>2, <3>1, <3>2, <3>3, <3>4 DEF NewId, RightId
  <2>5. Completes(a)'
    <3>1. pc'[a] = "register" \/ then'[a] = "register" => conf'[a].key = NoKey
      <4>1. pc'[a] = "register" => then[a] = then'[a]
        BY <2>2
      <4>2. CASE pc'[a] = "register"
        BY <2>2, <4>2
      <4>3. CASE pc'[a] = "persist"
        BY <2>2, <4>3 DEF AfterSetup
      <4> QED
        BY <2>2, <4>2, <4>3
    <3>2. ~ Complete(secret)'
      BY <1>1, <1>7 DEF Complete
    <3>3. \A b \in Agents : Undecided(b)' => b = a
      BY <2>1
    <3> QED
      BY <1>1, <2>2, <2>4, <3>1, <3>2, <3>3 DEF Completes
  <2> QED
    BY <1>1, <1>7, <2>1, <2>3, <2>5 DEF Consistent, Complete
<1> QED
  BY <1>6, <1>7

LEMMA RegisterConsistent ==
  ASSUME RegInv, IdentityInv, NEW a \in Agents, RegisterAgent(a), ~ raced'
  PROVE  Consistent'
<1> PICK n \in {conf[a].id} \cup (Ids \ ToSet(registered)) :
      /\ registered' = Append(registered, n)
      /\ conf' = [conf EXCEPT ![a] = [key |-> Len(registered) + 1, id |-> n, uid |-> @.uid]]
  BY DEF RegisterAgent
<1>1. /\ pc[a] = "register" /\ Persist(a, "login")
      /\ UNCHANGED <<secret, self, raced, interregator>>
  BY DEF RegisterAgent, outside
<1>2. n \in Ids
  BY <1>1, ConstantsAssumption DEF RegInv, TypeOK, PhaseInv, Identity
<1>3. Consistent
  BY <1>1 DEF IdentityInv
<1>4. Undecided(a) /\ Completes(a)
  BY <1>1, <1>3 DEF Undecided, Consistent
<1>5. /\ Len(registered) \in Nat
      /\ registered'[Len(registered) + 1] = n
  BY <1>2, AppendProperties, LenProperties DEF RegInv, TypeOK
<1>6. /\ conf'[a].key = Len(registered) + 1 /\ conf'[a].id = n
      /\ pc'[a] = "persist" /\ then'[a] = "login"
      /\ \A b \in Agents \ {a} : pc'[b] = pc[b] /\ then'[b] = then[b]
  BY <1>1 DEF RegInv, TypeOK, Persist
<1>7. \A b \in Agents \ {a} : ~ Undecided(b)' /\ ~ Settled(b)'
  BY <1>3, <1>4, <1>6 DEF Consistent, Completes, Undecided, Settled, Persisting, Shares
<1>8. ~ Settled(a)'
  BY <1>6 DEF Settled, Persisting
<1>9. secret # << >> => secret[1].key = NoKey
  BY <1>1, <1>4 DEF Completes
<1>10. Completes(a)'
  <2>1. RightId(conf[a].key, conf[a].id)'
    BY <1>5, <1>6 DEF RightId
  <2> QED
    BY <1>1, <1>4, <1>6, <1>7, <1>9, <2>1 DEF Completes, Complete
<1> QED
  BY <1>1, <1>4, <1>7, <1>8, <1>10 DEF Consistent, Completes, Complete

LEMMA LoginConsistent ==
  ASSUME RegInv, IdentityInv, NEW a \in Agents, Login(a), ~ raced'
  PROVE  Consistent'
<1>1. /\ pc[a] = "login"
      /\ self' = [self EXCEPT ![a] = registered[conf[a].key]]
      /\ UNCHANGED <<registered, secret, raced, interregator>>
      /\ \/ pc' = [pc EXCEPT ![a] = "up"] /\ UNCHANGED <<conf, then>>
         \/ /\ \E u : conf' = [conf EXCEPT ![a].uid = u]
            /\ Persist(a, "up")
  BY DEF Login, outside
<1>2. Consistent
  BY <1>1 DEF IdentityInv
<1>3. Shares(a) /\ Complete(secret)
  BY <1>1, <1>2 DEF Consistent, Settled, Shares
<1>4. /\ conf'[a].key = conf[a].key /\ conf'[a].id = conf[a].id
      /\ pc'[a] = "up" \/ (pc'[a] = "persist" /\ then'[a] = "up")
      /\ self'[a] = registered[conf[a].key]
  <2>1. conf \in [Agents -> Identity] /\ pc \in [Agents -> {"boot", "register", "login", "persist", "write", "up"}]
        /\ then \in [Agents -> {"boot", "register", "login", "up"}]
        /\ self \in [Agents -> Ids \cup {NoId}]
    BY DEF RegInv, TypeOK
  <2>2. CASE pc' = [pc EXCEPT ![a] = "up"] /\ UNCHANGED <<conf, then>>
    BY <1>1, <2>1, <2>2
  <2>3. CASE /\ \E u : conf' = [conf EXCEPT ![a].uid = u]
             /\ Persist(a, "up")
    BY <1>1, <2>1, <2>3 DEF Persist, Identity
  <2> QED
    BY <1>1, <2>2, <2>3
<1>6. Shares(a)'
  BY <1>1, <1>3, <1>4 DEF Shares, Complete
<1>7. \A b \in Agents \ {a} : Settled(b)' => Shares(b)'
  <2>1. Frame(a)
    BY LoginTypes
  <2> QED
    BY <1>1, <1>2, <2>1 DEF Consistent, Frame, Shares, Complete, Settled, Persisting
<1>8. \A b \in Agents : ~ Undecided(b)'
  <2>1. Frame(a)
    BY LoginTypes
  <2> QED
    BY <1>2, <1>3, <1>4, <2>1 DEF Consistent, Frame, Completes, Undecided
<1> QED
  BY <1>1, <1>2, <1>6, <1>7, <1>8 DEF Consistent, Complete, RightId

\* Going on with the secret as it is.
LEMMA ContinueConsistent ==
  ASSUME RegInv, Consistent, NEW a \in Agents, Persisting(a), Continue(a),
         UNCHANGED <<registered, secret, conf, self, interregator>>,
         then[a] = "login" => Complete(secret)
  PROVE  Consistent'
<1>1. \A b \in Agents \ {a} : pc'[b] = pc[b] /\ then'[b] = then[b]
  BY ContinueFacts
<1>2. /\ pc'[a] = then[a] /\ pc'[a] \in {"register", "login", "up"}
      /\ then'[a] = "boot"
  BY ContinueFacts DEF RegInv, TypeOK, Continue
<1>3. CASE then[a] = "up"
  <2>1. Settled(a) /\ Shares(a)
    BY <1>3 DEF Settled, Consistent
  <2>2. \A b \in Agents : ~ Undecided(b)'
    BY <1>1, <1>2, <1>3, <2>1 DEF Undecided, Consistent, Completes, Shares
  <2>3. \A b \in Agents : Settled(b)' => Shares(b)'
    BY <1>1, <1>2, <1>3, <2>1 DEF Settled, Persisting, Consistent, Shares, Complete
  <2> QED
    BY <2>2, <2>3 DEF Consistent, Complete, RightId
<1>4. CASE then[a] = "register"
  <2>1. Undecided(a) /\ Completes(a)
    BY <1>4 DEF Undecided, Persisting, Consistent
  <2>2. \A b \in Agents : Undecided(b)' => b = a
    BY <1>1, <2>1 DEF Undecided, Completes
  <2>3. Completes(a)'
    <3>1. conf[a].key = NoKey
      BY <1>4, <2>1 DEF Completes
    <3> QED
      BY <2>1, <2>2, <3>1 DEF Completes, Complete
  <2>4. \A b \in Agents : ~ Settled(b)'
    BY <1>1, <1>2, <1>4, <2>1 DEF Settled, Persisting, Consistent, Completes, Shares
  <2> QED
    BY <2>1, <2>2, <2>3, <2>4 DEF Consistent, Completes, Complete
<1>5. CASE then[a] = "login"
  BY <1>5 DEF Undecided, Persisting, Consistent, Completes
<1> QED
  BY <1>2, <1>3, <1>4, <1>5

LEMMA ReadConsistent ==
  ASSUME RegInv, IdentityInv, NEW a \in Agents, ReadSecret(a), ~ raced'
  PROVE  Consistent'
<1>1. pc[a] = "persist" /\ UNCHANGED <<registered, secret, conf, self, raced, interregator>>
  BY DEF ReadSecret, outside
<1>2. Consistent
  BY <1>1 DEF IdentityInv
<1>3. CASE secret = <<Written(a)>> /\ Continue(a)
  <2>1. secret[1] = Written(a) /\ secret # << >>
    BY <1>3, WrittenFacts, OfOne DEF RegInv
  <2>2. then[a] = "login" => Complete(secret)
    BY <1>1, <2>1, WrittenFacts DEF RegInv, PhaseInv, Persisting, Complete
  <2> QED
    BY <1>1, <1>2, <1>3, <2>2, ContinueConsistent DEF Persisting
<1>4. CASE pc' = [pc EXCEPT ![a] = "write"] /\ UNCHANGED then
  <2>1. /\ pc'[a] = "write"
        /\ \A b \in Agents \ {a} : pc'[b] = pc[b]
    BY <1>4 DEF RegInv, TypeOK
  <2>2. \A b \in Agents : /\ Undecided(b)' <=> Undecided(b)
                          /\ Settled(b)' <=> Settled(b)
                          /\ pc'[b] = "register" <=> pc[b] = "register"
                          /\ pc'[b] = "login" <=> pc[b] = "login"
    BY <1>1, <1>4, <2>1 DEF Undecided, Settled, Persisting
  <2>3. \A b \in Agents : Undecided(b) => Completes(b)'
    BY <1>1, <1>2, <1>4, <2>2 DEF Consistent, Completes, Complete, RightId
  <2>4. \A b \in Agents : Settled(b) => Shares(b)'
    BY <1>1, <1>2, <2>2 DEF Consistent, Shares, Complete
  <2> QED
    BY <1>1, <1>2, <2>2, <2>3, <2>4 DEF Consistent, Complete, RightId
<1> QED
  BY <1>3, <1>4 DEF ReadSecret

LEMMA WriteConsistent ==
  ASSUME RegInv, IdentityInv, NEW a \in Agents, WriteSecret(a), ~ raced'
  PROVE  Consistent'
<1>1. /\ pc[a] = "write" /\ secret' = <<Written(a)>> /\ Continue(a) /\ Persisting(a)
      /\ UNCHANGED <<registered, conf, self, raced, interregator>>
  BY DEF WriteSecret, outside, Persisting
<1>2. Consistent
  BY <1>1 DEF IdentityInv
<1>3. /\ secret' # << >> /\ secret'[1] = Written(a)
      /\ Written(a).id = conf[a].id /\ conf[a].id # NoId
      /\ conf[a].key # NoKey => Written(a).key = conf[a].key
      /\ Written(a).key = IF conf[a].key # NoKey \/ secret = << >>
                          THEN conf[a].key ELSE secret[1].key
  BY <1>1, WrittenFacts, OfOne DEF RegInv, PhaseInv
<1>4. /\ pc'[a] = then[a] /\ pc'[a] \in {"register", "login", "up"}
      /\ \A b \in Agents \ {a} : pc'[b] = pc[b] /\ then'[b] = then[b]
      /\ then'[a] = "boot"
  BY <1>1, ContinueFacts DEF RegInv, TypeOK, Continue
<1>5. CASE then[a] = "up"
  <2>1. Settled(a) /\ Shares(a)
    BY <1>1, <1>2, <1>5 DEF Settled, Consistent
  <2>2. /\ Complete(secret') /\ secret'[1].key = secret[1].key /\ secret'[1].id = secret[1].id
    BY <1>3, <2>1 DEF Shares, Complete
  <2>3. \A b \in Agents : ~ Undecided(b)'
    BY <1>2, <1>4, <1>5, <2>1 DEF Undecided, Consistent, Completes, Shares
  <2>4. \A b \in Agents : Settled(b)' => Shares(b)'
    BY <1>1, <1>2, <1>4, <1>5, <2>1, <2>2 DEF Settled, Persisting, Consistent, Shares
  <2> QED
    BY <1>1, <1>2, <2>1, <2>2, <2>3, <2>4 DEF Consistent, Shares, RightId
<1>6. CASE then[a] # "up"
  <2>1. Undecided(a) /\ Completes(a)
    BY <1>1, <1>2, <1>6 DEF Undecided, Consistent
  <2>2. \A b \in Agents \ {a} : ~ Undecided(b)' /\ ~ Settled(b)'
    BY <1>2, <1>4, <2>1 DEF Undecided, Settled, Persisting, Consistent, Completes, Shares
  <2>3. CASE then[a] = "login"
    <3>1. conf[a].key # NoKey
      BY <1>1, <2>3 DEF RegInv, PhaseInv
    <3>2. /\ Complete(secret') /\ secret'[1].key = conf[a].key /\ secret'[1].id = conf[a].id
          /\ RightId(conf[a].key, conf[a].id)
      BY <1>3, <2>1, <3>1 DEF Complete, Completes
    <3>3. Shares(a)' /\ ~ Undecided(a)'
      BY <1>1, <1>4, <2>3, <3>2 DEF Shares, Undecided
    <3> QED
      BY <1>1, <2>2, <3>2, <3>3 DEF Consistent, RightId
  <2>4. CASE then[a] = "register"
    <3>1. conf[a].key = NoKey /\ Written(a).key = NoKey
      BY <1>3, <2>1, <2>4 DEF Completes
    <3>2. ~ Complete(secret') /\ secret'[1].key = NoKey
      BY <1>3, <3>1 DEF Complete
    <3>3. Completes(a)'
      BY <1>1, <1>3, <2>2, <3>1, <3>2 DEF Completes
    <3>4. ~ Settled(a)'
      BY <1>4, <2>4 DEF Settled, Persisting
    <3> QED
      BY <2>2, <3>2, <3>3, <3>4 DEF Consistent
  <2> QED
    BY <1>4, <1>6, <2>3, <2>4
<1> QED
  BY <1>5, <1>6

LEMMA OperatorKept ==
  ASSUME RegInv, OperatorInv, NEW a \in Agents, Step(a)
  PROVE  OperatorInv'
<1>1. CASE WriteSecret(a)
  <2>1. /\ secret' # << >> /\ secret'[1] = Written(a) /\ Written(a).id = conf[a].id
        /\ conf[a].id # NoId
    BY <1>1, WrittenFacts, OfOne DEF RegInv, PhaseInv, WriteSecret
  <2> QED
    BY <2>1 DEF OperatorInv
<1>2. CASE secret' = secret
  BY <1>2 DEF OperatorInv
<1> QED
  BY <1>1, <1>2 DEF Step, Setup, RegisterAgent, Login, ReadSecret, WriteRefused, PersistUidFails

LEMMA RebootConsistent ==
  ASSUME RegInv, IdentityInv, NEW a \in Agents, Reboot(a),
         UNCHANGED <<registered, secret, interregator, raced>>
  PROVE  IdentityInv'
<1>1. pc'[a] = "boot"
  BY DEF RegInv, TypeOK, Reboot
<1>2. \A b \in Agents \ {a} : /\ pc'[b] = pc[b] /\ then'[b] = then[b]
                              /\ self'[b] = self[b] /\ conf'[b] = conf[b]
  BY DEF RegInv, TypeOK, Reboot
<1> QED
  BY <1>1, <1>2, LessKnown

LEMMA IdentityOfStep ==
  ASSUME RegInv, IdentityInv, NEW a \in Agents, Step(a)
  PROVE  IdentityInv'
<1>1. OperatorInv'
  BY OperatorKept DEF IdentityInv
<1>2. ASSUME ~ raced' PROVE Consistent'
  <2>1. CASE Setup(a)
    BY <1>2, <2>1, SetupConsistent
  <2>2. CASE RegisterAgent(a)
    BY <1>2, <2>2, RegisterConsistent
  <2>3. CASE Login(a)
    BY <1>2, <2>3, LoginConsistent
  <2>4. CASE ReadSecret(a)
    BY <1>2, <2>4, ReadConsistent
  <2>5. CASE WriteSecret(a)
    BY <1>2, <2>5, WriteConsistent
  <2>6. CASE WriteRefused(a)
    <3>1. Reboot(a) /\ UNCHANGED <<registered, secret, interregator, raced>>
      BY <2>6 DEF WriteRefused, outside
    <3> QED
      BY <1>2, <3>1, RebootConsistent DEF IdentityInv
  <2>7. CASE PersistUidFails(a)
    <3>1. /\ Persisting(a) /\ then[a] = "up" /\ Continue(a)
          /\ UNCHANGED <<registered, secret, conf, self, interregator, raced>>
      BY <2>7 DEF PersistUidFails, outside, Persisting
    <3>2. Consistent
      BY <1>2, <3>1 DEF IdentityInv
    <3> QED
      BY <3>1, <3>2, ContinueConsistent
  <2> QED
    BY <2>1, <2>2, <2>3, <2>4, <2>5, <2>6, <2>7 DEF Step
<1> QED
  BY <1>1, <1>2 DEF IdentityInv

LEMMA IdentityStep ==
  ASSUME FullTypeInv, IdentityInv, [ClusterNext]_clusterVars
  PROVE  IdentityInv'
<1>1. RegInv
  BY DEF FullTypeInv, TypeInv, ClusterTypeOK, RegInv
<1>2. ASSUME NEW a \in Agents, AgentStep(a) PROVE IdentityInv'
  BY <1>1, <1>2, IdentityOfStep DEF AgentStep
<1>3. ASSUME NEW a \in Agents, UpdateClusterResource(a) PROVE IdentityInv'
  <2>1. /\ UNCHANGED <<registered, secret, interregator, raced, pc, then, self>>
        /\ \E u : conf' = [conf EXCEPT ![a].uid = u]
    BY <1>3 DEF UpdateClusterResource
  <2>2. \A b \in Agents : conf'[b].key = conf[b].key /\ conf'[b].id = conf[b].id
    BY <1>1, <2>1 DEF RegInv, TypeOK, Identity
  <2> QED
    BY <2>1, <2>2, LessKnown
<1>4. ASSUME NEW a \in Agents, RegisterCluster(a) \/ SendQueued(a) \/ TickFails(a)
      PROVE  IdentityInv'
  <2>1. UNCHANGED <<registered, secret, interregator, raced, pc, then, self, conf>>
    BY <1>4 DEF RegisterCluster, SendQueued, TickFails, local
  <2> QED
    BY <2>1, LessKnown
<1>5. ASSUME NEW a \in Agents, RestartAgent(a) \/ StartFails(a) PROVE IdentityInv'
  <2>1. Reboot(a) /\ UNCHANGED <<registered, secret, interregator, raced>>
    BY <1>5 DEF RestartAgent, Restart, StartFails
  <2> QED
    BY <1>1, <2>1, RebootConsistent
<1>6. ASSUME NEW n \in Ids, RemoveCluster(n) PROVE IdentityInv'
  <2>1. UNCHANGED <<registered, secret, interregator, raced, pc, then, self, conf>>
    BY <1>6 DEF RemoveCluster, local
  <2> QED
    BY <2>1, LessKnown
<1>7. CASE UNCHANGED clusterVars
  BY <1>7, LessKnown DEF clusterVars, vars
<1> QED
  BY <1>2, <1>3, <1>4, <1>5, <1>6, <1>7 DEF ClusterNext

\* However the agents' steps interleave and fail, those that are up have the
\* key and the id of the secret, and the API knows them by that key -- unless
\* two have completed the secret at once.
THEOREM IdentityShared == ClusterSpec => []OneIdentity
<1>1. IdentityInv => OneIdentity
  BY DEF IdentityInv, Consistent, Settled, Shares, OneIdentity
<1> QED
  BY <1>1, IdentityInit, IdentityStep, FullTypeInit, FullTypeStep, PTL DEF ClusterSpec

\* Only WriteSecret changes the secret, and what it writes has the key and, if
\* there was one, the id.
LEMMA WriteKeeps ==
  ASSUME RegInv, Consistent, NEW a \in Agents, WriteSecret(a),
         secret # << >>, secret[1].key # NoKey
  PROVE  /\ secret' # << >> /\ secret'[1].key = secret[1].key
         /\ Complete(secret) => secret'[1].id = secret[1].id
<1>1. /\ secret' # << >> /\ secret'[1] = Written(a)
      /\ Written(a).id = conf[a].id
      /\ Written(a).key = IF conf[a].key # NoKey \/ secret = << >>
                          THEN conf[a].key ELSE secret[1].key
  BY WrittenFacts, OfOne DEF RegInv, PhaseInv, WriteSecret
<1>2. CASE then[a] = "up"
  <2>1. Shares(a)
    BY <1>2 DEF WriteSecret, Consistent, Settled, Persisting
  <2> QED
    BY <1>1, <2>1 DEF Shares
<1>3. CASE then[a] # "up"
  <2>1. Completes(a)
    BY <1>3 DEF WriteSecret, Consistent, Undecided
  <2> QED
    BY <1>1, <2>1 DEF Completes
<1> QED
  BY <1>2, <1>3

LEMMA IdentityKeptByStep ==
  ASSUME FullTypeInv, IdentityInv, [ClusterNext]_clusterVars
  PROVE  ~ raced' /\ secret # << >> /\ secret[1].key # NoKey =>
           /\ registered' = registered
           /\ secret' # << >> /\ secret'[1].key = secret[1].key
           /\ Complete(secret) => secret'[1].id = secret[1].id
<1> SUFFICES ASSUME ~ raced', secret # << >>, secret[1].key # NoKey
             PROVE  /\ registered' = registered
                    /\ secret' # << >> /\ secret'[1].key = secret[1].key
                    /\ Complete(secret) => secret'[1].id = secret[1].id
  OBVIOUS
<1>1. RegInv
  BY DEF FullTypeInv, TypeInv, ClusterTypeOK, RegInv
<1>2. CASE UNCHANGED <<registered, secret>>
  BY <1>2
<1>3. ASSUME NEW a \in Agents, WriteSecret(a)
      PROVE  /\ registered' = registered
             /\ secret' # << >> /\ secret'[1].key = secret[1].key
             /\ Complete(secret) => secret'[1].id = secret[1].id
  <2>1. Consistent /\ registered' = registered
    BY <1>3 DEF WriteSecret, IdentityInv
  <2> QED
    BY <1>1, <1>3, <2>1, WriteKeeps
<1>4. ASSUME NEW a \in Agents, RegisterAgent(a)
      PROVE  FALSE
  <2>1. Consistent /\ Undecided(a) /\ pc[a] = "register"
    BY <1>4 DEF RegisterAgent, IdentityInv, Undecided
  <2> QED
    BY <2>1 DEF Consistent, Completes
<1>5. \/ UNCHANGED <<registered, secret>>
      \/ \E a \in Agents : WriteSecret(a) \/ RegisterAgent(a)
  BY DEF ClusterNext, AgentStep, Step, Setup, Login, ReadSecret, WriteRefused,
         PersistUidFails, UpdateClusterResource, RegisterCluster, SendQueued, RestartAgent,
         Restart, StartFails, TickFails, RemoveCluster, clusterVars, vars
<1> QED
  BY <1>2, <1>3, <1>4, <1>5

\* The identity that the secret has is never replaced, and while it is there
\* none is registered, whatever fails, restarts or comes late, as long as two
\* agents have not completed the secret at once.
THEOREM IdentityKept == ClusterSpec => IdentityIsKept
<1>1. FullTypeInv /\ IdentityInv /\ [ClusterNext]_clusterVars =>
        [~ raced' /\ secret # << >> /\ secret[1].key # NoKey =>
           /\ registered' = registered
           /\ secret' # << >> /\ secret'[1].key = secret[1].key
           /\ Complete(secret) => secret'[1].id = secret[1].id]_vars
  BY IdentityKeptByStep
<1> QED
  BY <1>1, IdentityInit, IdentityStep, FullTypeInit, FullTypeStep, PTL
     DEF ClusterSpec, IdentityIsKept

-----------------------------------------------------------------------------
(* The uid *)

Known(n, uid) == uid = NoUid \/ uid \in ToSet(store[n])

StoreGrows == \A n \in Ids : ToSet(store[n]) \subseteq ToSet(store'[n])

\* Only a secret that is complete has a uid: one of the cluster of its key.
SecretUid ==
  secret # << >> /\ secret[1].uid # NoUid =>
    Complete(secret) /\ Known(registered[secret[1].key], secret[1].uid)

\* An agent has no uid before it has its identity, then the secret's or the
\* API's, and while it registers a cluster the one that it has made.
AgentUid(a) ==
  /\ Undecided(a) => conf[a].uid = NoUid
  /\ pc[a] = "login" => Known(registered[conf[a].key], conf[a].uid)
  /\ Settled(a) /\ pc[a] # "login" =>
       IF Registering(a) THEN conf[a].uid = owner[a] ELSE Known(self[a], conf[a].uid)

UidsKnown == SecretUid /\ \A a \in Agents : AgentUid(a)

UidInv == ~ raced /\ ~ removed => UidsKnown

LEMMA UidInit == ClusterInit => UidInv
<1> SUFFICES ASSUME ClusterInit PROVE UidInv
  OBVIOUS
<1>1. \A a \in Agents : ~ Undecided(a) /\ ~ Settled(a) /\ pc[a] # "login"
  BY DEF ClusterInit, Init, Undecided, Settled, Persisting
<1>2. secret # << >> => secret[1].uid = NoUid
  <2>1. [Unset EXCEPT !.key = 1].uid = NoUid
    BY DEF Unset
  <2> DEFINE first == [Unset EXCEPT !.key = 1]
  <2>2. <<first>>[1] = first
    OBVIOUS
  <2>3. secret # << >> => secret = <<first>>
    BY DEF ClusterInit, Init
  <2> HIDE DEF first
  <2>4. secret # << >> => secret[1] = first
    BY <2>2, <2>3
  <2> QED
    BY <2>1, <2>4 DEF first
<1> QED
  BY <1>1, <1>2 DEF UidInv, UidsKnown, SecretUid, AgentUid

\* What the API knows of a key it keeps.
KeysStay ==
  \A k \in 1 .. Len(registered) : registered[k] \in Ids /\ registered'[k] = registered[k]

LEMMA KeysOfStep ==
  ASSUME RegInv,
         registered' = registered \/ \E n \in Ids : registered' = Append(registered, n)
  PROVE  KeysStay
<1>1. registered \in Seq(Ids) /\ \A k \in 1 .. Len(registered) : registered[k] \in Ids
  BY ElementOfSeq DEF RegInv, TypeOK
<1>2. CASE registered' = registered
  BY <1>1, <1>2 DEF KeysStay
<1>3. ASSUME NEW n \in Ids, registered' = Append(registered, n) PROVE KeysStay
  <2>1. \A k \in 1 .. Len(registered) : registered'[k] = registered[k]
    BY <1>1, <1>3, AppendProperties
  <2> QED
    BY <1>1, <2>1 DEF KeysStay
<1> QED
  BY <1>2, <1>3

LEMMA KeyInRange ==
  ASSUME RegInv
  PROVE  /\ secret # << >> /\ secret[1].key # NoKey => secret[1].key \in 1 .. Len(registered)
         /\ \A a \in Agents : conf[a].key # NoKey => conf[a].key \in 1 .. Len(registered)
<1>1. /\ secret # << >> => secret[1] \in Identity
      /\ Len(registered) \in Nat /\ conf \in [Agents -> Identity]
  BY SecretFacts, LenProperties DEF RegInv, TypeOK
<1> QED
  BY <1>1 DEF RegInv, KeysInv, Identity, NoKey

LEMMA SecretUidKept ==
  ASSUME RegInv, SecretUid, StoreGrows, KeysStay, secret' = secret
  PROVE  SecretUid'
<1> SUFFICES ASSUME secret # << >>, secret[1].uid # NoUid
             PROVE  Complete(secret) /\ Known(registered[secret[1].key], secret[1].uid)'
  BY DEF SecretUid, Complete
<1>1. Complete(secret) /\ Known(registered[secret[1].key], secret[1].uid)
  BY DEF SecretUid
<1>2. /\ registered[secret[1].key] \in Ids
      /\ registered'[secret[1].key] = registered[secret[1].key]
  BY <1>1, KeyInRange DEF Complete, KeysStay
<1> QED
  BY <1>1, <1>2 DEF Known, StoreGrows

LEMMA AgentUidKept ==
  ASSUME RegInv, NEW b \in Agents, AgentUid(b), StoreGrows, KeysStay,
         pc'[b] = pc[b], conf'[b] = conf[b], then'[b] = then[b], self'[b] = self[b],
         Registering(b)' <=> Registering(b), owner'[b] = owner[b]
  PROVE  AgentUid(b)'
<1>1. /\ Undecided(b)' <=> Undecided(b)
      /\ Settled(b)' <=> Settled(b)
  BY DEF Undecided, Settled, Persisting
<1>2. /\ pc[b] = "login" => /\ registered[conf[b].key] \in Ids
                             /\ registered'[conf[b].key] = registered[conf[b].key]
      /\ Settled(b) /\ pc[b] # "login" => self[b] \in Ids
  BY KeyInRange DEF RegInv, TypeOK, PhaseInv, Settled, KeysStay
<1>3. /\ pc[b] = "login" => Known(registered[conf[b].key], conf[b].uid)'
      /\ Settled(b) /\ pc[b] # "login" =>
           IF Registering(b) THEN conf[b].uid = owner[b] ELSE Known(self[b], conf[b].uid)'
  BY <1>2 DEF AgentUid, Known, StoreGrows
<1> QED
  BY <1>1, <1>3 DEF AgentUid, Known

\* An agent without a uid, whatever it does, as long as it is not up.
LEMMA NoUidYet ==
  ASSUME NEW a \in Agents, conf[a].uid = NoUid, ~ Registering(a)
  PROVE  AgentUid(a)
BY DEF AgentUid, Known

LEMMA UidOfSetup ==
  ASSUME RegInv, IdentityInv, UidsKnown, NEW a \in Agents, Setup(a),
         handler' = handler, handler[a] = "off", store' = store
  PROVE  AgentUid(a)'
<1> DEFINE c == AuthFromSecret(a)
<1>1. ~ Registering(a)'
  BY DEF Registering
<1>2. secret # << >> => secret[1] \in Identity
  BY SecretFacts DEF RegInv, TypeOK
<1>3. conf \in [Agents -> Identity] /\ pc[a] = "boot"
      /\ pc \in [Agents -> {"boot", "register", "login", "persist", "write", "up"}]
  BY DEF RegInv, TypeOK, Setup
<1>4. CASE Complete(secret)
  <2>1. c = secret[1] /\ c.id # NoId /\ c.key # NoKey
    BY <1>4 DEF Complete, AuthFromSecret
  <2>2. conf' = [conf EXCEPT ![a] = c] /\ pc' = [pc EXCEPT ![a] = "login"]
    BY <2>1 DEF Setup, AfterSetup
  <2>3. conf'[a] = secret[1] /\ pc'[a] = "login"
    BY <1>3, <2>1, <2>2
  <2>4. Known(registered[secret[1].key], secret[1].uid)'
    BY <1>4 DEF UidsKnown, SecretUid, Known, Complete, Setup
  <2>5. secret' = secret
    BY DEF Setup
  <2> QED
    BY <2>3, <2>4, <2>5 DEF AgentUid, Undecided, Known
<1>5. CASE ~ Complete(secret)
  <2>1. c \in Identity /\ c.uid = NoUid
    <3>1. secret # << >> => secret[1].uid = NoUid
      BY <1>5 DEF UidsKnown, SecretUid
    <3>2. Unset \in Identity /\ Unset.uid = NoUid
      BY DEF Unset, Identity, NoKey, NoUid
    <3> QED
      BY <1>2, <3>1, <3>2 DEF AuthFromSecret
  <2> HIDE DEF c
  <2>2. conf'[a].uid = NoUid
    <3>1. CASE conf' = [conf EXCEPT ![a] = c]
      BY <1>3, <2>1, <3>1
    <3>2. CASE \E n \in NewId(c) : conf' = [conf EXCEPT ![a] = [c EXCEPT !.id = n]]
      <4>1. PICK n \in NewId(c) : conf' = [conf EXCEPT ![a] = [c EXCEPT !.id = n]]
        BY <3>2
      <4>2. conf'[a] = [c EXCEPT !.id = n]
        BY <1>3, <4>1
      <4> QED
        BY <2>1, <4>2 DEF Identity
    <3> QED
      BY <3>1, <3>2 DEF Setup, c
  <2> QED
    BY <1>1, <2>2 DEF AgentUid, Known
<1> QED
  BY <1>4, <1>5

LEMMA UidOfLogin ==
  ASSUME RegInv, Consistent, UidsKnown, NEW a \in Agents, Login(a),
         handler' = handler, handler[a] = "off", store' = store,
         StoreInv
  PROVE  AgentUid(a)'
<1> DEFINE n == registered[conf[a].key]
<1>1. /\ pc[a] = "login" /\ Settled(a) /\ ~ Registering(a)'
      /\ conf \in [Agents -> Identity] /\ self \in [Agents -> Ids \cup {NoId}]
      /\ pc \in [Agents -> {"boot", "register", "login", "persist", "write", "up"}]
      /\ then \in [Agents -> {"boot", "register", "login", "up"}]
  BY DEF Login, Settled, Registering, RegInv, TypeOK
<1>3. self'[a] = n
  BY <1>1 DEF Login
<1>4. n \in Ids
  <2>1. conf[a].key \in 1 .. Len(registered)
    BY <1>1, KeyInRange DEF RegInv, PhaseInv
  <2> QED
    BY <2>1, ElementOfSeq DEF RegInv, TypeOK
<1>5. ~ Undecided(a)' /\ pc'[a] # "login"
  BY <1>1 DEF Login, Persist, Undecided
<1> HIDE DEF n
<1>6. CASE store[n] = << >>
  <2>1. conf' = conf
    BY <1>6 DEF Login, n
  <2>2. Known(n, conf[a].uid)
    BY <1>1 DEF UidsKnown, AgentUid, n
  <2> QED
    BY <1>1, <1>3, <1>5, <2>1, <2>2 DEF AgentUid, Known
<1>7. CASE store[n] # << >>
  <2>1. conf'[a].uid = store[n][1]
    <3>1. conf' = [conf EXCEPT ![a].uid = store[n][1]]
      BY <1>7 DEF Login, n
    <3> QED
      BY <1>1, <3>1 DEF Identity
  <2>2. store[n] \in Seq(1 .. uuids)
    BY <1>4 DEF StoreInv
  <2>3. 1 \in DOMAIN store[n]
    BY <1>7, <2>2, EmptySeq, LenProperties
  <2>4. store[n][1] \in ToSet(store[n])
    BY <2>3 DEF ToSet
  <2> QED
    BY <1>1, <1>3, <1>5, <2>1, <2>4 DEF AgentUid, Known
<1> QED
  BY <1>6, <1>7

\* Going on with what it has.
LEMMA UidOfContinue ==
  ASSUME RegInv, UidsKnown, NEW a \in Agents, Persisting(a), Continue(a),
         UNCHANGED <<conf, self, store, handler, owner>>, handler[a] = "off"
  PROVE  AgentUid(a)'
<1>1. pc'[a] = then[a] /\ ~ Registering(a) /\ ~ Registering(a)'
  BY ContinueFacts DEF Registering
<1>2. CASE then[a] = "up"
  <2>1. Known(self[a], conf[a].uid)
    BY <1>1, <1>2 DEF UidsKnown, AgentUid, Settled, Persisting
  <2> QED
    BY <1>1, <1>2, <2>1 DEF AgentUid, Known, Undecided
<1>3. CASE then[a] # "up"
  <2>1. conf'[a].uid = NoUid
    BY <1>3 DEF UidsKnown, AgentUid, Undecided, Persisting
  <2> QED
    BY <1>1, <2>1 DEF AgentUid, Known
<1> QED
  BY <1>2, <1>3

LEMMA UidOfWrite ==
  ASSUME RegInv, Consistent, UidsKnown, NEW a \in Agents, WriteSecret(a),
         handler[a] = "off", store' = store
  PROVE  SecretUid'
<1>1. /\ pc[a] = "write" /\ secret' = <<Written(a)>> /\ Persisting(a) /\ ~ Registering(a)
  BY DEF WriteSecret, Persisting, Registering
<1>2. secret' # << >> /\ secret'[1] = Written(a)
  BY <1>1, OfOne, WrittenFacts DEF RegInv
<1>3. /\ conf[a] \in Identity
      /\ secret # << >> => secret[1] \in Identity
  BY SecretFacts DEF RegInv, TypeOK
<1>4. Written(a).uid = IF secret = << >> THEN NoUid
                       ELSE IF conf[a].uid # NoUid THEN conf[a].uid ELSE secret[1].uid
  BY <1>3 DEF Written, Updated, Identity
<1>5. CASE then[a] # "up"
  <2>1. Undecided(a) /\ ~ Complete(secret)
    BY <1>1, <1>5 DEF Undecided, Consistent, Completes
  <2>2. conf[a].uid = NoUid /\ (secret # << >> => secret[1].uid = NoUid)
    BY <2>1 DEF UidsKnown, AgentUid, SecretUid
  <2> QED
    BY <1>2, <1>4, <2>2 DEF SecretUid
<1>6. CASE then[a] = "up"
  <2>1. Settled(a) /\ Shares(a) /\ pc[a] # "login"
    BY <1>1, <1>6 DEF Settled, Consistent
  <2>2. /\ conf[a].key = secret[1].key /\ conf[a].id = secret[1].id
        /\ self[a] = registered[secret[1].key]
        /\ secret # << >> /\ secret[1].key # NoKey /\ secret[1].id # NoId
    BY <2>1 DEF Shares, Complete
  <2>3. Written(a).key = secret[1].key /\ Written(a).id = secret[1].id
    BY <2>2, WrittenFacts DEF RegInv
  <2>4. Known(self[a], conf[a].uid) /\ Known(self[a], secret[1].uid)
    <3>1. Known(self[a], conf[a].uid)
      BY <1>1, <2>1 DEF UidsKnown, AgentUid
    <3>2. Known(registered[secret[1].key], secret[1].uid)
      BY <2>2 DEF UidsKnown, SecretUid, Known
    <3> QED
      BY <2>2, <3>1, <3>2
  <2>5. Known(self[a], Written(a).uid)
    BY <1>4, <2>2, <2>4
  <2>6. registered' = registered
    BY DEF WriteSecret
  <2> QED
    BY <1>2, <2>2, <2>3, <2>5, <2>6 DEF SecretUid, Known, Complete
<1> QED
  BY <1>5, <1>6

LEMMA UidOfStep ==
  ASSUME RegInv, IdentityInv, HandlerInv, StoreInv, UidInv, NEW a \in Agents,
         AgentStep(a), ~ raced', ~ removed'
  PROVE  UidsKnown'
<1>1. /\ UNCHANGED <<store, handler, owner, removed, interregator>>
      /\ Step(a) /\ Frame(a) /\ pc[a] # "up"
  BY StepTypes, StepLeaves DEF AgentStep, outside, handlerVars, RegInv
<1>2. handler[a] = "off"
  BY <1>1 DEF HandlerInv
<1>3. UidsKnown /\ Consistent
  <2>1. ~ raced
    BY <1>1 DEF Step, Setup, RegisterAgent, Login, ReadSecret, WriteSecret, WriteRefused,
                PersistUidFails
  <2> QED
    BY <1>1, <2>1 DEF UidInv, IdentityInv
<1>4. StoreGrows /\ KeysStay
  <2>1. ASSUME RegisterAgent(a) PROVE KeysStay
    <3>1. PICK n \in {conf[a].id} \cup (Ids \ ToSet(registered)) :
            registered' = Append(registered, n)
      BY <2>1 DEF RegisterAgent
    <3>2. n \in Ids
      BY <2>1, ConstantsAssumption DEF RegisterAgent, RegInv, TypeOK, PhaseInv, Identity
    <3> QED
      BY <3>1, <3>2, KeysOfStep
  <2>2. ASSUME registered' = registered PROVE KeysStay
    BY <2>2, KeysOfStep
  <2>3. KeysStay
    BY <1>1, <2>1, <2>2
       DEF Step, Setup, Login, ReadSecret, WriteSecret, WriteRefused, PersistUidFails
  <2> QED
    BY <1>1, <2>3 DEF StoreGrows
<1>5. \A b \in Agents \ {a} : AgentUid(b)'
  <2> SUFFICES ASSUME NEW b \in Agents \ {a} PROVE AgentUid(b)'
    OBVIOUS
  <2>1. Registering(b)' <=> Registering(b)
    BY <1>1 DEF Registering
  <2> QED
    BY <1>1, <1>3, <1>4, <2>1, AgentUidKept DEF UidsKnown, Frame
<1>6. SecretUid'
  <2>1. CASE WriteSecret(a)
    BY <1>1, <1>2, <1>3, <2>1, UidOfWrite
  <2>2. CASE secret' = secret
    BY <1>3, <1>4, <2>2, SecretUidKept DEF UidsKnown
  <2> QED
    BY <1>1, <2>1, <2>2
       DEF Step, Setup, RegisterAgent, Login, ReadSecret, WriteRefused, PersistUidFails
<1>7. AgentUid(a)'
  <2>1. CASE Setup(a)
    BY <1>1, <1>2, <1>3, <2>1, UidOfSetup
  <2>2. CASE RegisterAgent(a)
    <3>1. conf[a].uid = NoUid
      BY <1>3, <2>2 DEF RegisterAgent, UidsKnown, AgentUid, Undecided
    <3>2. conf'[a].uid = conf[a].uid
      BY <2>2 DEF RegisterAgent, RegInv, TypeOK
    <3> QED
      BY <1>1, <1>2, <3>1, <3>2 DEF AgentUid, Known, Registering
  <2>3. CASE Login(a)
    BY <1>1, <1>2, <1>3, <2>3, UidOfLogin
  <2>4. CASE Persisting(a) /\ Continue(a) /\ UNCHANGED <<conf, self>>
    BY <1>1, <1>2, <1>3, <2>4, UidOfContinue
  <2>5. CASE /\ pc[a] = "persist" /\ pc' = [pc EXCEPT ![a] = "write"]
             /\ UNCHANGED <<then, conf, self>>
    <3>1. pc'[a] = "write" /\ ~ Registering(a) /\ ~ Registering(a)'
      BY <1>1, <1>2, <2>5 DEF RegInv, TypeOK, Registering
    <3>2. AgentUid(a)
      BY <1>3 DEF UidsKnown
    <3> QED
      BY <1>1, <2>5, <3>1, <3>2 DEF AgentUid, Undecided, Settled, Persisting, Known
  <2>6. CASE WriteRefused(a)
    <3>1. pc'[a] = "boot"
      BY <2>6 DEF WriteRefused, Reboot, RegInv, TypeOK
    <3> QED
      BY <3>1 DEF AgentUid, Undecided, Settled, Persisting
  <2>7. CASE ReadSecret(a)
    BY <2>4, <2>5, <2>7 DEF ReadSecret, Persisting
  <2>8. CASE WriteSecret(a) \/ PersistUidFails(a)
    BY <2>4, <2>8 DEF WriteSecret, PersistUidFails, Persisting
  <2> QED
    BY <1>1, <2>1, <2>2, <2>3, <2>6, <2>7, <2>8 DEF Step
<1> QED
  BY <1>5, <1>6, <1>7 DEF UidsKnown

LEMMA UidStep ==
  ASSUME FullTypeInv, OwnerIsKnown, IdentityInv, UidInv, [ClusterNext]_clusterVars
  PROVE  UidInv'
<1> SUFFICES ASSUME ~ raced', ~ removed' PROVE UidsKnown'
  BY DEF UidInv
<1>0. /\ RegInv /\ TypeInv /\ HandlerInv /\ StoreInv
      /\ handler \in [Agents -> {"off", "register", "running", "reregister"}]
      /\ owner \in [Agents -> 0 .. uuids] /\ queued \in [Agents -> 0 .. uuids]
      /\ uuids \in Nat /\ conf \in [Agents -> Identity]
  BY DEF FullTypeInv, TypeInv, ClusterTypeOK, RegInv, TypeOK
<1>1. ASSUME NEW a \in Agents, AgentStep(a) PROVE UidsKnown'
  BY <1>0, <1>1, UidOfStep
<1>2. ASSUME UNCHANGED <<registered, interregator, raced, removed>> PROVE UidsKnown
  BY <1>2 DEF UidInv
\* The secret is left alone, and so are all agents but a.
<1>3. ASSUME NEW a \in Agents, StoreGrows, AgentUid(a)',
             UNCHANGED <<registered, interregator, raced, removed, secret>>,
             \A b \in Agents \ {a} :
               /\ pc'[b] = pc[b] /\ conf'[b] = conf[b] /\ then'[b] = then[b]
               /\ self'[b] = self[b] /\ handler'[b] = handler[b] /\ owner'[b] = owner[b]
      PROVE  UidsKnown'
  <2>1. UidsKnown /\ KeysStay
    BY <1>0, <1>2, <1>3, KeysOfStep
  <2>2. SecretUid'
    BY <1>0, <1>3, <2>1, SecretUidKept DEF UidsKnown
  <2>3. ASSUME NEW b \in Agents \ {a} PROVE AgentUid(b)'
    <3>1. Registering(b)' <=> Registering(b)
      BY <1>3 DEF Registering
    <3> QED
      BY <1>0, <1>3, <2>1, <3>1, AgentUidKept DEF UidsKnown
  <2> QED
    BY <1>3, <2>2, <2>3 DEF UidsKnown
<1>4. ASSUME NEW a \in Agents, UpdateClusterResource(a) PROVE UidsKnown'
  <2> DEFINE new == store[self[a]] = << >>
             uid == IF new THEN uuids + 1 ELSE UidOfFirst(a)
  <2>1. /\ pc[a] = "up" /\ owner' = [owner EXCEPT ![a] = uid]
        /\ conf' = [conf EXCEPT ![a].uid = uid]
        /\ UNCHANGED <<registered, store, secret, interregator, raced, pc, self, then, removed>>
    BY <1>4 DEF UpdateClusterResource
  <2>2. /\ \E h : handler' = [handler EXCEPT ![a] = h]
        /\ IF new THEN Registering(a)' ELSE handler'[a] = "running"
    BY <1>0, <1>4 DEF UpdateClusterResource, AnswerNew, Registering
  <2>3. self[a] \in Ids
    BY <1>0, <2>1 DEF RegInv, TypeOK, PhaseInv, Settled
  <2>4. ~ new => uid \in ToSet(store[self[a]])
    <3> SUFFICES ASSUME ~ new PROVE store[self[a]][1] \in ToSet(store[self[a]])
      BY DEF UidOfFirst
    <3>1. store[self[a]] \in Seq(1 .. uuids)
      BY <1>0, <2>3 DEF StoreInv
    <3>2. 1 \in DOMAIN store[self[a]]
      BY <3>1, EmptySeq, LenProperties
    <3> QED
      BY <3>2 DEF ToSet
  <2> HIDE DEF uid, new
  <2>5. conf'[a].uid = uid /\ owner'[a] = uid
    BY <1>0, <2>1 DEF Identity
  <2>6. AgentUid(a)'
    BY <2>1, <2>2, <2>4, <2>5 DEF AgentUid, Undecided, Known, Registering
  <2>7. \A b \in Agents \ {a} : /\ conf'[b] = conf[b] /\ handler'[b] = handler[b]
                                 /\ owner'[b] = owner[b]
    BY <1>0, <2>1, <2>2
  <2> QED
    BY <1>3, <2>1, <2>6, <2>7 DEF StoreGrows
<1>5. ASSUME NEW a \in Agents, RegisterCluster(a) \/ TickFails(a) PROVE UidsKnown'
  <2>1. /\ Registering(a)
        /\ StoreCluster(a, owner[a]) \/ store' = store
        /\ handler' = [handler EXCEPT ![a] = "running"]
        /\ UNCHANGED <<registered, interregator, raced, removed, secret, pc, conf, then,
                       self, owner>>
    BY <1>5 DEF RegisterCluster, TickFails, local, Registering
  <2>2. self[a] \in Ids /\ owner[a] \in 1 .. uuids
    BY <1>0, <2>1, UpFacts DEF Registering
  <2>3. StoreGrows
    BY <1>0, <2>1, <2>2, StoreClusterFacts DEF StoreGrows
  <2>4. owner[a] \in ToSet(store'[self[a]])
    <3>1. CASE RegisterCluster(a)
      BY <1>0, <2>2, <3>1, StoreClusterFacts DEF RegisterCluster
    <3>2. CASE TickFails(a)
      <4>1. Watching(a) /\ ~ removed
        BY <2>1, <3>2 DEF TickFails, Watching
      <4> QED
        BY <2>2, <2>3, <4>1 DEF OwnerIsKnown, StoreGrows
    <3> QED
      BY <1>5, <3>1, <3>2
  <2>5. conf[a].uid = owner[a] /\ pc[a] = "up"
    <3>1. pc[a] = "up" /\ UidsKnown
      BY <1>0, <1>2, <2>1 DEF HandlerInv, Registering
    <3> QED
      BY <2>1, <3>1 DEF UidsKnown, AgentUid, Settled
  <2>6. AgentUid(a)'
    BY <1>0, <2>1, <2>4, <2>5 DEF AgentUid, Undecided, Known, Registering
  <2>7. \A b \in Agents \ {a} : handler'[b] = handler[b]
    BY <1>0, <2>1
  <2> QED
    BY <1>3, <2>1, <2>3, <2>6, <2>7
<1>6. ASSUME NEW a \in Agents, SendQueued(a) PROVE UidsKnown'
  <2>1. /\ queued[a] # NoUid /\ StoreCluster(a, queued[a])
        /\ UNCHANGED <<registered, interregator, raced, removed, secret, pc, conf, then,
                       self, owner, handler>>
    BY <1>6 DEF SendQueued, local
  <2>2. self[a] \in Ids /\ queued[a] \in 1 .. uuids
    BY <1>0, <2>1, UpFacts DEF FullTypeInv, QueuedInv, NoUid
  <2>3. StoreGrows
    BY <1>0, <2>1, <2>2, StoreClusterFacts DEF StoreGrows
  <2>4. AgentUid(a)'
    <3>1. AgentUid(a) /\ (Registering(a)' <=> Registering(a))
      BY <1>2, <2>1 DEF UidsKnown, Registering
    <3> QED
      BY <1>0, <2>1, <2>3, <3>1, KeysOfStep, AgentUidKept
  <2> QED
    BY <1>3, <2>1, <2>3, <2>4
<1>7. ASSUME NEW a \in Agents, RestartAgent(a) \/ StartFails(a) PROVE UidsKnown'
  <2>1. /\ Reboot(a) /\ StopHandler(a)
        /\ UNCHANGED <<registered, interregator, raced, removed, secret>>
    BY <1>7 DEF RestartAgent, Restart, StartFails
  <2>2. StoreGrows
    <3>1. CASE StartFails(a)
      <4>1. StoreCluster(a, owner[a]) \/ store' = store
        BY <3>1 DEF StartFails
      <4>2. handler[a] # "off"
        BY <3>1 DEF StartFails
      <4> QED
        BY <1>0, <4>1, <4>2, UpFacts, StoreClusterFacts DEF StoreGrows
    <3>2. CASE RestartAgent(a)
      BY <3>2 DEF RestartAgent, Restart, StoreGrows
    <3> QED
      BY <1>7, <3>1, <3>2
  <2>3. /\ pc'[a] = "boot"
        /\ \A b \in Agents \ {a} :
             /\ pc'[b] = pc[b] /\ conf'[b] = conf[b] /\ then'[b] = then[b]
             /\ self'[b] = self[b] /\ handler'[b] = handler[b] /\ owner'[b] = owner[b]
    BY <1>0, <2>1 DEF Reboot, StopHandler, RegInv, TypeOK
  <2>4. AgentUid(a)'
    BY <2>3 DEF AgentUid, Undecided, Settled, Persisting
  <2> QED
    BY <1>3, <2>1, <2>2, <2>3, <2>4
<1>8. ASSUME NEW n \in Ids, RemoveCluster(n) PROVE UidsKnown'
  BY <1>8 DEF RemoveCluster
<1>9. CASE UNCHANGED clusterVars
  <2>1. UidsKnown
    BY <1>2, <1>9 DEF clusterVars, vars, handlerVars
  <2> QED
    BY <1>9, <2>1 DEF clusterVars, vars, handlerVars, UidsKnown, SecretUid, AgentUid, Undecided,
       Settled, Persisting, Registering, Known, Complete
<1> QED
  BY <1>1, <1>4, <1>5, <1>6, <1>7, <1>8, <1>9 DEF ClusterNext

\* The uid that an agent reports and hands on in the secret is one that ROR
\* has for its cluster, unless two agents raced with the secret or a cluster
\* was removed -- also where an operator's key is for another cluster than the
\* one the provider names.
THEOREM UidTheirs == ClusterSpec => []UidIsTheirs
<1>1. UidInv => UidIsTheirs
  BY DEF UidInv, UidsKnown, AgentUid, Settled, Known, UidIsTheirs
<1>2. ClusterInit => OwnerIsKnown
  BY DEF ClusterInit, OwnerIsKnown, Watching
<1> QED
  BY <1>1, <1>2, UidInit, UidStep, OwnerStep, IdentityInit, IdentityStep, FullTypeInit,
     FullTypeStep, PTL DEF ClusterSpec
=============================================================================
