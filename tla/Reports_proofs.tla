--------------------------- MODULE Reports_proofs ---------------------------
(***************************************************************************)
(* For any pods, nodes, hosts and failures: the status of a cluster is of  *)
(* one version and keeps what was filled in once; each node is placed once *)
(* and each host reported with what was said of it.  The reports do what   *)
(* each job does by itself, so that the heartbeat's theorems are theirs.   *)
(***************************************************************************)
EXTENDS Reports, Heartbeat_proofs

-----------------------------------------------------------------------------
(* The status of the cluster *)

Whole(s) == s # NoStatus => s.static.by = s.version

\* What is not stale is what ROR has, until it is filled in, and then differs
\* in its static part only if it does in its version.
PodInv(p) ==
  /\ tick[p] # "off" => version[p] \in Versions
  /\ Whole(copy[p].status) /\ Whole(queued[p].status)
  /\ copy[p].status = NoStatus => copy[p] = Nothing
  /\ queued[p].status = NoStatus => queued[p] = Nothing
  /\ tick[p] = "fill" /\ copy[p] # Nothing /\ ~ copy[p].stale => copy[p].status = status
  /\ queued[p] # Nothing => status # NoStatus
  /\ tick[p] = "fill" /\ copy[p] # Nothing => status # NoStatus
  /\ queued[p] # Nothing /\ ~ queued[p].stale /\ queued[p].status.version = status.version
       => queued[p].status.static = status.static

StatusInv ==
  /\ StatusTypeOK
  /\ StatusIsWhole
  /\ \A p \in Pods : PodInv(p)

LEMMA NothingHeld ==
  /\ Nothing \in Holding /\ Nothing.status = NoStatus /\ ~ Nothing.stale
  /\ NoStatus \in Held
BY DEF Nothing, Holding, Held

LEMMA HeldFacts ==
  /\ \A s \in Held : s # NoStatus => s \in Statuses
  /\ \A s \in Statuses : s \in Held /\ s # NoStatus
  /\ \A s \in Held, stale \in BOOLEAN : [status |-> s, stale |-> stale] \in Holding
  /\ \A held \in Holding : held.status \in Held /\ held.stale \in BOOLEAN
BY StatusAssumption DEF Holding, Held

LEMMA StatusInitKeeps == StatusInit => StatusInv
<1> SUFFICES ASSUME StatusInit PROVE StatusInv
  OBVIOUS
<1>1. StatusTypeOK /\ StatusIsWhole
  BY NothingHeld DEF StatusInit, StatusTypeOK, StatusIsWhole
<1>2. ASSUME NEW p \in Pods PROVE PodInv(p)
  BY <1>2, NothingHeld DEF StatusInit, PodInv, Whole
<1> QED
  BY <1>1, <1>2 DEF StatusInv

LEMMA StartPodKeeps ==
  ASSUME StatusInv, NEW p \in Pods, NEW v \in Versions, StartPod(p, v)
  PROVE  StatusInv'
<1>1. StatusTypeOK'
  <2>1. restarts' \in Nat
    BY DEF StatusInv, StatusTypeOK, StartPod
  <2> QED
    BY <2>1, NothingHeld DEF StatusInv, StatusTypeOK, StartPod
<1>2. ASSUME NEW q \in Pods PROVE PodInv(q)'
  <2>1. PodInv(q)
    BY DEF StatusInv
  <2>2. CASE q = p
    BY <2>2, NothingHeld DEF StatusInv, StatusTypeOK, StartPod, PodInv, Whole
  <2>3. CASE q # p
    BY <2>1, <2>3 DEF StatusInv, StatusTypeOK, StartPod, PodInv, Whole
  <2> QED
    BY <2>2, <2>3
<1> QED
  BY <1>1, <1>2 DEF StatusInv, StartPod, StatusIsWhole

LEMMA GetStatusKeeps ==
  ASSUME StatusInv, NEW p \in Pods, GetStatus(p)
  PROVE  StatusInv'
<1>1. StatusTypeOK'
  BY HeldFacts DEF StatusInv, StatusTypeOK, GetStatus
<1>2. ASSUME NEW q \in Pods PROVE PodInv(q)'
  <2>1. PodInv(q) /\ StatusIsWhole
    BY DEF StatusInv
  <2>2. CASE q = p
    BY <2>1, <2>2, NothingHeld DEF Nothing, StatusInv, StatusTypeOK, GetStatus, PodInv, Whole, StatusIsWhole
  <2>3. CASE q # p
    BY <2>1, <2>3 DEF StatusInv, StatusTypeOK, GetStatus, PodInv, Whole
  <2> QED
    BY <2>2, <2>3
<1> QED
  BY <1>1, <1>2 DEF StatusInv, GetStatus, StatusIsWhole

\* A filled in status is of one version, and what is new in it shows by its
\* version.
LEMMA FillStatusKeeps ==
  ASSUME StatusInv, NEW p \in Pods, FillStatus(p)
  PROVE  StatusInv'
<1> DEFINE Good(s) ==
      /\ s \in Statuses
      /\ s.static.by = s.version
      /\ copy[p].status # NoStatus /\ s.version = copy[p].status.version
           => s.static = copy[p].status.static
<1>1. PICK s : Good(s) /\ Leave(p, s)
  <2>1. version[p] \in Versions /\ copy[p].status \in Held
    BY NothingHeld, HeldFacts DEF StatusInv, StatusTypeOK, PodInv, FillStatus
  <2>2. CASE NeedsFullUpdate(p)
    <3>1. PICK ip \in EgressIp(p), told \in BOOLEAN, hinted \in BOOLEAN :
            /\ egress' = [egress EXCEPT ![p] = ip]
            /\ Leave(p, FullStatus(p, ip, Environment(told, hinted)))
      BY <2>2 DEF FillStatus
    <3>2. ip \in {"none", "ip"}
      BY DEF EgressIp, StatusInv, StatusTypeOK
    <3>3. Environment(told, hinted) \in Environments
      BY DEF Environment, Environments
    <3>4. Good(FullStatus(p, ip, Environment(told, hinted)))
      BY <2>1, <2>2, <3>2, <3>3 DEF FullStatus, Statuses, NeedsFullUpdate
    <3> QED
      BY <3>1, <3>4
  <2>3. CASE ~ NeedsFullUpdate(p)
    <3>1. Leave(p, PartialStatus(p))
      BY <2>3 DEF FillStatus
    <3>2. copy[p].status \in Statuses /\ copy[p].status.version = version[p]
      BY <2>1, <2>3, NothingHeld, HeldFacts DEF NeedsFullUpdate
    <3>3. Good(PartialStatus(p))
      BY <3>2, NothingHeld, HeldFacts DEF PartialStatus, Statuses, StatusInv, PodInv, Whole
    <3> QED
      BY <3>1, <3>3
  <2> QED
    BY <2>2, <2>3
<1>2. egress' \in [Pods -> {"unasked", "none", "ip"}]
  BY DEF FillStatus, EgressIp, StatusInv, StatusTypeOK
<1>3. UNCHANGED <<status, version, restarts>> /\ tick[p] = "fill"
  BY DEF FillStatus
<1>4. s # NoStatus
  BY <1>1, NothingHeld, HeldFacts
<1>5. StatusTypeOK'
  <2>1. [status |-> s, stale |-> copy[p].stale] \in Holding
    BY <1>1, HeldFacts DEF StatusInv, StatusTypeOK
  <2> QED
    BY <1>1, <1>2, <1>3, <2>1, NothingHeld DEF Leave, StatusInv, StatusTypeOK
<1>6. ASSUME NEW q \in Pods PROVE PodInv(q)'
  <2>1. PodInv(q)
    BY DEF StatusInv
  <2>2. CASE q # p
    <3>1. UNCHANGED <<copy[q], queued[q], tick[q], version[q]>>
      BY <1>1, <1>3, <2>2 DEF Leave, StatusInv, StatusTypeOK
    <3> QED
      BY <1>3, <2>1, <3>1 DEF PodInv, Whole
  <2>3. CASE q = p /\ copy[p].status = NoStatus
    <3>1. /\ copy'[p] = [status |-> s, stale |-> copy[p].stale]
          /\ tick'[p] = "register"
          /\ UNCHANGED queued
      BY <1>1, <2>3 DEF Leave, StatusInv, StatusTypeOK
    <3> QED
      BY <1>1, <1>3, <1>4, <2>1, <2>3, <3>1 DEF PodInv, Whole
  <2>4. CASE q = p /\ copy[p].status # NoStatus
    <3>1. /\ copy'[p] = Nothing
          /\ queued'[p] = [status |-> s, stale |-> copy[p].stale]
          /\ tick'[p] = "wait"
      BY <1>1, <2>4 DEF Leave, StatusInv, StatusTypeOK
    <3>2. copy[p] # Nothing
      BY <2>4, NothingHeld
    <3> QED
      BY <1>1, <1>3, <1>4, <2>1, <2>4, <3>1, <3>2, NothingHeld DEF PodInv, Whole
  <2> QED
    BY <2>2, <2>3, <2>4
<1> QED
  BY <1>3, <1>5, <1>6 DEF StatusInv, StatusIsWhole

LEMMA OutdatedFacts ==
  ASSUME NEW held \in [Pods -> Holding]
  PROVE  /\ Outdated(held) \in [Pods -> Holding]
         /\ \A p \in Pods :
              /\ Outdated(held)[p].status = held[p].status
              /\ Outdated(held)[p] = Nothing <=> held[p] = Nothing
              /\ held[p] # Nothing => Outdated(held)[p].stale
<1>1. ASSUME NEW p \in Pods PROVE held[p] \in Holding /\ held[p].status \in Held
  BY HeldFacts
<1>2. \A p \in Pods :
        Outdated(held)[p] = IF held[p] = Nothing THEN Nothing
                            ELSE [status |-> held[p].status, stale |-> TRUE]
  BY DEF Outdated
<1>3. ASSUME NEW p \in Pods
      PROVE  /\ Outdated(held)[p].status = held[p].status
             /\ Outdated(held)[p] = Nothing <=> held[p] = Nothing
             /\ held[p] # Nothing => Outdated(held)[p].stale
  <2>1. CASE held[p] = Nothing
    BY <1>2, <2>1
  <2>2. CASE held[p] # Nothing
    <3>1. Outdated(held)[p] = [status |-> held[p].status, stale |-> TRUE]
      BY <1>2, <2>2
    <3>2. Outdated(held)[p].stale = TRUE /\ Nothing.stale = FALSE
      BY <3>1 DEF Nothing
    <3> QED
      BY <2>2, <3>1, <3>2
  <2> QED
    BY <2>1, <2>2
<1>4. Outdated(held) \in [Pods -> Holding]
  BY <1>1, HeldFacts, NothingHeld DEF Outdated
<1> QED
  BY <1>3, <1>4

LEMMA RegisterStatusKeeps ==
  ASSUME StatusInv, NEW p \in Pods, RegisterStatus(p)
  PROVE  StatusInv'
<1>1. CASE UNCHANGED <<status, queued>> /\ copy' = [copy EXCEPT ![p] = Nothing]
  <2>1. StatusTypeOK'
    BY <1>1, NothingHeld DEF StatusInv, StatusTypeOK, RegisterStatus
  <2>2. ASSUME NEW q \in Pods PROVE PodInv(q)'
    <3>1. PodInv(q)
      BY DEF StatusInv
    <3> QED
      BY <1>1, <3>1, NothingHeld DEF StatusInv, StatusTypeOK, RegisterStatus, PodInv, Whole
  <2> QED
    BY <1>1, <2>1, <2>2 DEF StatusInv, StatusIsWhole
<1>2. CASE /\ status = NoStatus
           /\ status' = copy[p].status
           /\ copy' = [Outdated(copy) EXCEPT ![p] = Nothing]
           /\ queued' = Outdated(queued)
  <2>1. StatusTypeOK'
    BY <1>2, OutdatedFacts, NothingHeld, HeldFacts DEF StatusInv, StatusTypeOK, RegisterStatus
  <2>2. ASSUME NEW q \in Pods PROVE PodInv(q)'
    <3>1. PodInv(q) /\ queued[q] = Nothing
      BY <1>2 DEF StatusInv, PodInv
    <3>2. queued'[q] = Nothing
      BY <1>2, <3>1, OutdatedFacts, NothingHeld DEF StatusInv, StatusTypeOK
    <3> QED
      BY <1>2, <3>1, <3>2, OutdatedFacts, NothingHeld
      DEF StatusInv, StatusTypeOK, RegisterStatus, PodInv, Whole
  <2>3. StatusIsWhole'
    BY <1>2 DEF StatusInv, PodInv, Whole, StatusIsWhole
  <2> QED
    BY <2>1, <2>2, <2>3 DEF StatusInv
<1> QED
  BY <1>1, <1>2 DEF RegisterStatus

LEMMA SendStatusKeeps ==
  ASSUME StatusInv, NEW p \in Pods, SendStatus(p)
  PROVE  StatusInv'
<1>1. StatusTypeOK'
  BY OutdatedFacts, NothingHeld, HeldFacts DEF StatusInv, StatusTypeOK, SendStatus
<1>2. PodInv(p) /\ status' = queued[p].status /\ status' # NoStatus
  BY DEF StatusInv, SendStatus, PodInv
<1>3. ASSUME NEW q \in Pods PROVE PodInv(q)'
  <2>1. PodInv(q)
    BY DEF StatusInv
  <2>2. /\ copy'[q].status = copy[q].status
        /\ copy'[q] = Nothing <=> copy[q] = Nothing
        /\ copy'[q] # Nothing => copy'[q].stale
    BY OutdatedFacts, NothingHeld DEF StatusInv, StatusTypeOK, SendStatus
  <2>3. \/ queued'[q] = Nothing
        \/ queued'[q].stale /\ queued'[q].status = queued[q].status
    <3>1. CASE q = p
      <4>1. queued' = [Outdated(queued) EXCEPT ![p] = Nothing]
        BY DEF SendStatus
      <4>2. Outdated(queued) \in [Pods -> Holding]
        BY OutdatedFacts DEF StatusInv, StatusTypeOK
      <4> QED
        BY <3>1, <4>1, <4>2
    <3>2. CASE q # p
      <4>1. queued'[q] = Outdated(queued)[q]
        BY <3>2 DEF StatusInv, StatusTypeOK, SendStatus
      <4> QED
        BY <4>1, OutdatedFacts DEF StatusInv, StatusTypeOK
    <3> QED
      BY <3>1, <3>2
  <2>4. queued'[q].status = NoStatus => queued'[q] = Nothing
    BY OutdatedFacts, NothingHeld, <2>1 DEF StatusInv, StatusTypeOK, SendStatus, PodInv
  <2>5. UNCHANGED <<tick, version>>
    BY DEF SendStatus
  <2> QED
    BY <1>2, <2>1, <2>2, <2>3, <2>4, <2>5, NothingHeld DEF PodInv, Whole
<1>4. StatusIsWhole'
  BY <1>2 DEF PodInv, Whole, StatusIsWhole
<1> QED
  BY <1>1, <1>3, <1>4 DEF StatusInv

LEMMA StatusStep == StatusInv /\ [StatusNext]_statusVars => StatusInv'
<1> SUFFICES ASSUME StatusInv, [StatusNext]_statusVars PROVE StatusInv'
  OBVIOUS
<1>1. CASE UNCHANGED statusVars
  BY <1>1 DEF statusVars, StatusInv, PodInv, StatusTypeOK, StatusIsWhole, Whole
<1>2. CASE StatusNext
  BY <1>2, StartPodKeeps, GetStatusKeeps, FillStatusKeeps, RegisterStatusKeeps,
     SendStatusKeeps DEF StatusNext
<1> QED
  BY <1>1, <1>2

\* Whatever pods of several versions write over each other, the status is of
\* one version.
THEOREM StatusWhole == StatusSpec => []StatusIsWhole
<1>1. StatusInv => StatusIsWhole
  BY DEF StatusInv
<1> QED
  BY StatusInitKeeps, StatusStep, <1>1, PTL DEF StatusSpec

\* Within a version only an update that was overtaken changes what is filled
\* in once.
THEOREM StaticKept == StatusSpec => StaticIsKept
<1>1. StatusInv /\ [StatusNext]_statusVars =>
        [\A p \in Pods :
           /\ status # NoStatus /\ status'.version = status.version
           /\ SendStatus(p) /\ ~ queued[p].stale
           => status'.static = status.static]_statusVars
  BY DEF StatusInv, PodInv, SendStatus
<1> QED
  BY StatusInitKeeps, StatusStep, <1>1, PTL DEF StatusSpec, StaticIsKept
-----------------------------------------------------------------------------
(* The nodes of the status *)

ListedNode ==
  [control : BOOLEAN, zone : Labels \cup {EmptyLabel},
   nodepool : Labels \cup {EmptyLabel, NoLabel}, measured : BOOLEAN]
Info == [name : Nat, used : Nat]

\* The entries of the control plane or of a pool are of the first n nodes.
OfFirst(n, seq) ==
  /\ seq \in Seq(Info)
  /\ \A k \in 1 .. Len(seq) : seq[k].name \in 1 .. n

NodesInv ==
  /\ listed \in Seq(ListedNode)
  /\ OfFirst(Len(listed), statusControl)
  /\ \A name \in DOMAIN statusPools : OfFirst(Len(listed), statusPools[name])
  /\ NodesArePlaced

LEMMA NoNodesKeep ==
  listed = << >> /\ statusControl = << >> /\ statusPools = << >> => NodesInv
BY DEF NodesInv, OfFirst, NodesArePlaced, Occurs, Distinct

LEMMA NoNodesKeepNext ==
  (listed = << >> /\ statusControl = << >> /\ statusPools = << >>)' => NodesInv'
BY DEF NodesInv, OfFirst, NodesArePlaced, Occurs, Distinct

\* A new node at the end of a sequence of others.
LEMMA AppendInfo ==
  ASSUME NEW seq \in Seq(Info), NEW n \in Nat,
         \A k \in 1 .. Len(seq) : seq[k].name \in 1 .. n,
         Distinct(seq), NEW info \in Info, info.name = n + 1
  PROVE  LET all == Append(seq, info) IN
         /\ all \in Seq(Info) /\ Distinct(all)
         /\ \A k \in 1 .. Len(all) : all[k].name \in 1 .. (n + 1)
         /\ Occurs(info, all)
         /\ \A other : Occurs(other, seq) => Occurs(other, all)
         /\ \A k \in 1 .. Len(all) :
              all[k] = info \/ (k \in 1 .. Len(seq) /\ all[k] = seq[k])
<1> DEFINE all == Append(seq, info)
<1>1. /\ all \in Seq(Info) /\ Len(all) = Len(seq) + 1 /\ Len(seq) \in Nat
      /\ \A k \in 1 .. Len(seq) : all[k] = seq[k]
      /\ all[Len(seq) + 1] = info
  OBVIOUS
<1>2. DOMAIN all = 1 .. (Len(seq) + 1) /\ DOMAIN seq = 1 .. Len(seq)
  BY <1>1
<1> HIDE DEF all
<1>3. \A k \in 1 .. (Len(seq) + 1) : k \in 1 .. Len(seq) \/ k = Len(seq) + 1
  BY <1>1
<1>4. \A k \in 1 .. Len(all) : all[k] = info \/ (k \in 1 .. Len(seq) /\ all[k] = seq[k])
  BY <1>1, <1>3
<1>5. \A k \in 1 .. Len(all) : all[k].name \in 1 .. (n + 1)
  BY <1>1, <1>4
<1>6. Distinct(all)
  <2> SUFFICES ASSUME NEW k \in 1 .. (Len(seq) + 1), NEW l \in 1 .. (Len(seq) + 1),
                      all[k].name = all[l].name
               PROVE  k = l
    BY <1>2 DEF Distinct
  <2>1. \A j \in 1 .. Len(seq) : all[j].name # n + 1
    BY <1>1
  <2>2. all[Len(seq) + 1].name = n + 1
    BY <1>1
  <2>3. CASE k \in 1 .. Len(seq) /\ l \in 1 .. Len(seq)
    BY <1>1, <1>2, <2>3 DEF Distinct
  <2>4. CASE k = Len(seq) + 1 \/ l = Len(seq) + 1
    BY <1>3, <2>1, <2>2, <2>4
  <2> QED
    BY <1>3, <2>3, <2>4
<1>7. Occurs(info, all) /\ \A other : Occurs(other, seq) => Occurs(other, all)
  BY <1>1, <1>2 DEF Occurs
<1> QED
  BY <1>1, <1>4, <1>5, <1>6, <1>7 DEF all

LEMMA PlaceNodeKeeps ==
  ASSUME NodesInv,
         NEW control \in BOOLEAN, NEW measured \in BOOLEAN,
         NEW zone \in Labels \cup {EmptyLabel},
         NEW nodepool \in Labels \cup {EmptyLabel, NoLabel},
         PlaceNode(control, zone, nodepool, measured)
  PROVE  NodesInv'
<1> DEFINE node == [control |-> control, zone |-> zone, nodepool |-> nodepool,
                    measured |-> measured]
           home == PoolName(node)
<1>0. PICK n \in Nat : n = Len(listed)
  BY DEF NodesInv
<1> DEFINE info == [name |-> n + 1, used |-> IF measured THEN n + 1 ELSE 0]
<1>1. /\ node \in ListedNode /\ info \in Info /\ info.name = n + 1
      /\ info = NodeInfo(n + 1, node)
  BY DEF ListedNode, NodeInfo, Info
<1>2. listed' = Append(listed, node) /\ Place(node)
  BY DEF PlaceNode
<1>3. /\ listed' \in Seq(ListedNode) /\ DOMAIN listed' = 1 .. (n + 1) /\ DOMAIN listed = 1 .. n
      /\ \A i \in 1 .. n : listed'[i] = listed[i]
      /\ listed'[n + 1] = node /\ Len(listed') = n + 1
  BY <1>0, <1>1, <1>2 DEF NodesInv
<1>4. /\ \A i \in 1 .. n : InfoOf(i)' = InfoOf(i)
      /\ InfoOf(n + 1)' = info
  BY <1>3 DEF InfoOf
<1>5. \A i \in 1 .. (n + 1) : i \in 1 .. n \/ i = n + 1
  OBVIOUS
<1>6. /\ OfFirst(n, statusControl) /\ Distinct(statusControl)
      /\ \A name \in DOMAIN statusPools :
           OfFirst(n, statusPools[name]) /\ Distinct(statusPools[name])
  BY <1>0 DEF NodesInv, NodesArePlaced
\* What a home that info is added to has, and what one that is left alone has.
<1>7. ASSUME NEW seq, OfFirst(n, seq), Distinct(seq)
      PROVE  LET all == Append(seq, info) IN
             /\ OfFirst(n + 1, all) /\ Distinct(all)
             /\ Occurs(info, all)
             /\ \A other : Occurs(other, seq) => Occurs(other, all)
             /\ \A k \in 1 .. Len(all) :
                  all[k] = info \/ (k \in 1 .. Len(seq) /\ all[k] = seq[k])
  BY <1>0, <1>1, <1>7, AppendInfo DEF OfFirst
<1>9. ASSUME NEW seq, OfFirst(n, seq)
      PROVE  /\ OfFirst(n + 1, seq)
             /\ \A k \in DOMAIN seq : listed'[seq[k].name] = listed[seq[k].name]
  BY <1>3, <1>9 DEF OfFirst
<1>10. /\ \A i \in 1 .. n :
            IF listed[i].control THEN Occurs(InfoOf(i), statusControl)
            ELSE /\ PoolName(listed[i]) \in DOMAIN statusPools
                 /\ Occurs(InfoOf(i), statusPools[PoolName(listed[i])])
       /\ \A k \in DOMAIN statusControl : listed'[statusControl[k].name].control
       /\ \A name \in DOMAIN statusPools : \A k \in DOMAIN statusPools[name] :
            LET other == listed'[statusPools[name][k].name] IN
            ~ other.control /\ PoolName(other) = name
  BY <1>3, <1>6, <1>9 DEF NodesInv, NodesArePlaced
<1>11. CASE control
  <2>1. /\ statusControl' = Append(statusControl, info)
        /\ statusPools' = statusPools
    BY <1>0, <1>1, <1>2, <1>11 DEF Place
  <2>2. OfFirst(n + 1, statusControl') /\ Distinct(statusControl')
    BY <1>6, <1>7, <2>1
  <2>3. \A name \in DOMAIN statusPools' :
          OfFirst(n + 1, statusPools'[name]) /\ Distinct(statusPools'[name])
    BY <1>6, <1>9, <2>1
  <2>4. ASSUME NEW k \in DOMAIN statusControl'
        PROVE  listed'[statusControl'[k].name].control
    <3>1. k \in 1 .. Len(statusControl')
      BY <2>2 DEF OfFirst
    <3>2. CASE statusControl'[k] = info
      BY <1>1, <1>3, <1>11, <3>2
    <3>3. CASE k \in 1 .. Len(statusControl) /\ statusControl'[k] = statusControl[k]
      BY <1>6, <1>10, <3>3 DEF OfFirst
    <3> QED
      BY <1>6, <1>7, <2>1, <3>1, <3>2, <3>3
  <2>5. ASSUME NEW i \in DOMAIN listed'
        PROVE  IF listed'[i].control THEN Occurs(InfoOf(i)', statusControl')
               ELSE /\ PoolName(listed'[i]) \in DOMAIN statusPools'
                    /\ Occurs(InfoOf(i)', statusPools'[PoolName(listed'[i])])
    <3>1. CASE i \in 1 .. n
      BY <1>3, <1>4, <1>6, <1>7, <1>10, <2>1, <3>1
    <3>2. CASE i = n + 1
      BY <1>3, <1>4, <1>6, <1>7, <1>11, <2>1, <3>2
    <3> QED
      BY <1>3, <1>5, <3>1, <3>2
  <2>6. \A name \in DOMAIN statusPools' : \A k \in DOMAIN statusPools'[name] :
          LET other == listed'[statusPools'[name][k].name] IN
          ~ other.control /\ PoolName(other) = name
    BY <1>10, <2>1
  <2> QED
    BY <1>3, <2>2, <2>3, <2>4, <2>5, <2>6 DEF NodesInv, NodesArePlaced
<1>12. CASE ~ control
  <2> DEFINE old == IF home \in DOMAIN statusPools THEN statusPools[home] ELSE << >>
  <2>1. /\ statusControl' = statusControl
        /\ statusPools' = WithPoolNode(home, info)
    BY <1>0, <1>1, <1>2, <1>12 DEF Place
  <2>2. OfFirst(n, old) /\ Distinct(old)
    BY <1>6 DEF OfFirst, Distinct
  <2>3. /\ DOMAIN statusPools' = DOMAIN statusPools \cup {home}
        /\ statusPools'[home] = Append(old, info)
        /\ \A name \in DOMAIN statusPools : name # home => statusPools'[name] = statusPools[name]
    <3>1. Append(<< >>, info) = <<info>>
      OBVIOUS
    <3>2. \A name \in DOMAIN statusPools \cup {home} : statusPools'[name] =
             IF name # home THEN statusPools[name]
             ELSE IF home \in DOMAIN statusPools THEN Append(statusPools[home], info)
             ELSE <<info>>
      BY <2>1 DEF WithPoolNode
    <3>3. DOMAIN statusPools' = DOMAIN statusPools \cup {home}
      BY <2>1 DEF WithPoolNode
    <3> QED
      BY <3>1, <3>2, <3>3
  <2>4. \A name \in DOMAIN statusPools' :
          OfFirst(n + 1, statusPools'[name]) /\ Distinct(statusPools'[name])
    <3> TAKE name \in DOMAIN statusPools'
    <3>1. CASE name = home
      BY <1>7, <2>2, <2>3, <3>1
    <3>2. CASE name # home
      BY <1>6, <1>9, <2>3, <3>2
    <3> QED
      BY <3>1, <3>2
  <2>5. OfFirst(n + 1, statusControl') /\ Distinct(statusControl')
    BY <1>6, <1>9, <2>1
  <2>6. ASSUME NEW name \in DOMAIN statusPools', NEW k \in DOMAIN statusPools'[name]
        PROVE  LET other == listed'[statusPools'[name][k].name] IN
               ~ other.control /\ PoolName(other) = name
    <3>1. CASE name # home
      BY <1>10, <2>3, <3>1
    <3>2. CASE name = home /\ statusPools'[name][k] = info
      BY <1>1, <1>3, <1>12, <3>2
    <3>3. CASE /\ name = home
               /\ k \in 1 .. Len(old) /\ statusPools'[name][k] = old[k]
      <4>1. home \in DOMAIN statusPools /\ k \in DOMAIN statusPools[home]
        BY <1>6, <3>3 DEF OfFirst
      <4> QED
        BY <1>10, <3>3, <4>1
    <3>4. name = home => k \in 1 .. Len(statusPools'[home])
      BY <1>7, <2>2, <2>3
    <3> QED
      BY <1>7, <2>2, <2>3, <3>1, <3>2, <3>3, <3>4
  <2>7. /\ Occurs(info, statusPools'[home])
        /\ \A other : Occurs(other, old) => Occurs(other, statusPools'[home])
    BY <1>7, <2>2, <2>3
  <2>8. ASSUME NEW i \in DOMAIN listed'
        PROVE  IF listed'[i].control THEN Occurs(InfoOf(i)', statusControl')
               ELSE /\ PoolName(listed'[i]) \in DOMAIN statusPools'
                    /\ Occurs(InfoOf(i)', statusPools'[PoolName(listed'[i])])
    <3>1. CASE i \in 1 .. n
      <4>1. CASE listed[i].control
        BY <1>3, <1>4, <1>10, <2>1, <3>1, <4>1
      <4>2. CASE ~ listed[i].control /\ PoolName(listed[i]) # home
        BY <1>3, <1>4, <1>10, <2>3, <3>1, <4>2
      <4>3. CASE ~ listed[i].control /\ PoolName(listed[i]) = home
        <5>1. home \in DOMAIN statusPools /\ Occurs(InfoOf(i), old)
          BY <1>10, <3>1, <4>3
        <5>2. Occurs(InfoOf(i)', statusPools'[home]) /\ home \in DOMAIN statusPools'
          BY <1>4, <2>3, <2>7, <3>1, <5>1
        <5> QED
          BY <1>3, <3>1, <4>3, <5>2
      <4> QED
        BY <4>1, <4>2, <4>3
    <3>2. CASE i = n + 1
      <4>1. listed'[i] = node /\ InfoOf(i)' = info
        BY <1>3, <1>4, <3>2
      <4>2. ~ node.control /\ PoolName(node) = home
        BY <1>12
      <4> HIDE DEF node, info, home
      <4> QED
        BY <2>3, <2>7, <4>1, <4>2
    <3> QED
      BY <1>3, <1>5, <3>1, <3>2
  <2> QED
    BY <1>3, <1>10, <2>1, <2>4, <2>5, <2>6, <2>8 DEF NodesInv, NodesArePlaced
<1> QED
  BY <1>11, <1>12

LEMMA NodesStep == NodesInv /\ [NodesNext]_listVars => NodesInv'
<1> SUFFICES ASSUME NodesInv, [NodesNext]_listVars PROVE NodesInv'
  OBVIOUS
<1>1. CASE UNCHANGED listVars
  BY <1>1 DEF listVars, NodesInv, OfFirst, NodesArePlaced, InfoOf
<1>2. ASSUME NEW read \in BOOLEAN, ListNodes(read) PROVE NodesInv'
  BY <1>2, NoNodesKeepNext DEF ListNodes
<1> QED
  BY <1>1, <1>2, PlaceNodeKeeps DEF NodesNext

\* Whatever the labels of the nodes, each of them is placed once.
THEOREM NodesPlaced == NodesSpec => []NodesArePlaced
<1>1. NodesInit => NodesInv
  BY NoNodesKeep DEF NodesInit
<1>2. NodesInv => NodesArePlaced
  BY DEF NodesInv
<1> QED
  BY NodesStep, <1>1, <1>2, PTL DEF NodesSpec
-----------------------------------------------------------------------------
(* The metrics of the node exporters *)

ResultsInv ==
  /\ DOMAIN results \subseteq Queries
  /\ \A query \in DOMAIN results :
       /\ DOMAIN results[query] \subseteq Hosts
       /\ \A host \in DOMAIN results[query] :
            results[query][host] \in Values(query, host)

\* What was said in this tick is what there is of it.
SaidInv ==
  /\ \A query \in DOMAIN results : \A host \in DOMAIN results[query] :
       <<query, host, results[query][host]>> \in said
  /\ \A answer \in said : \E query \in DOMAIN results : \E host \in DOMAIN results[query] :
       answer = <<query, host, results[query][host]>>

PostedInv ==
  /\ exporterPhase \in {"query", "posted"}
  /\ exporterPhase = "query" => DOMAIN posted = {}
  /\ exporterPhase = "posted" => posted = [host \in Instances |-> NodeMetric(host)]

ExporterInv == ResultsInv /\ SaidInv /\ PostedInv

LEMMA NoResultsKeep ==
  /\ exporterPhase = "query" /\ results = << >> /\ said = {} /\ posted = << >>
  => ExporterInv
BY DEF ExporterInv, ResultsInv, SaidInv, PostedInv

LEMMA NoResultsKeepNext ==
  (exporterPhase = "query" /\ results = << >> /\ said = {} /\ posted = << >>)'
  => ExporterInv'
BY DEF ExporterInv, ResultsInv, SaidInv, PostedInv

LEMMA AnswerKeeps ==
  ASSUME ExporterInv, NEW query \in Queries, QueryPrometheus(query)
  PROVE  ExporterInv'
<1>1. PICK hosts \in SUBSET Hosts :
        \E answer \in [hosts -> UNION {Values(query, host) : host \in hosts}] :
          /\ \A host \in hosts : answer[host] \in Values(query, host)
          /\ Answer(query, answer)
  BY DEF QueryPrometheus
<1>2. PICK answer \in [hosts -> UNION {Values(query, host) : host \in hosts}] :
        /\ \A host \in hosts : answer[host] \in Values(query, host)
        /\ Answer(query, answer)
  BY <1>1
<1>3. DOMAIN answer = hosts
  OBVIOUS
<1>4. /\ query \notin DOMAIN results
      /\ DOMAIN results' = DOMAIN results \cup {query}
      /\ results'[query] = answer
      /\ \A q \in DOMAIN results : results'[q] = results[q]
      /\ said' = said \cup {<<query, host, answer[host]>> : host \in hosts}
  BY <1>2, <1>3 DEF QueryPrometheus, Answer
<1>5. \A q \in DOMAIN results' : q = query \/ q \in DOMAIN results
  BY <1>4
<1>6. ResultsInv'
  <2>1. \A q, host : Values(q, host)' = Values(q, host)
    BY DEF Values
  <2> SUFFICES ASSUME NEW q \in DOMAIN results'
               PROVE  /\ DOMAIN results'[q] \subseteq Hosts
                      /\ \A host \in DOMAIN results'[q] : results'[q][host] \in Values(q, host)
    BY <1>4 DEF ExporterInv, ResultsInv
  <2>2. CASE q = query
    BY <1>2, <1>3, <1>4, <2>2
  <2>3. CASE q \in DOMAIN results
    BY <1>4, <2>3 DEF ExporterInv, ResultsInv
  <2> QED
    BY <1>5, <2>2, <2>3
<1>7. SaidInv'
  <2>1. ASSUME NEW q \in DOMAIN results', NEW host \in DOMAIN results'[q]
        PROVE  <<q, host, results'[q][host]>> \in said'
    <3>1. CASE q = query
      BY <1>3, <1>4, <3>1
    <3>2. CASE q \in DOMAIN results
      BY <1>4, <3>2 DEF ExporterInv, SaidInv
    <3> QED
      BY <1>5, <3>1, <3>2
  <2>2. ASSUME NEW told \in said'
        PROVE  \E q \in DOMAIN results' : \E host \in DOMAIN results'[q] :
                 told = <<q, host, results'[q][host]>>
    <3>1. CASE told \in said
      <4>1. PICK q \in DOMAIN results : \E host \in DOMAIN results[q] :
              told = <<q, host, results[q][host]>>
        BY <3>1 DEF ExporterInv, SaidInv
      <4>2. q \in DOMAIN results' /\ results'[q] = results[q]
        BY <1>4
      <4> QED
        BY <4>1, <4>2
    <3>2. CASE told \in {<<query, host, answer[host]>> : host \in hosts}
      BY <1>3, <1>4, <3>2
    <3> QED
      BY <1>4, <3>1, <3>2
  <2> QED
    BY <2>1, <2>2 DEF SaidInv
<1>8. PostedInv'
  BY DEF ExporterInv, PostedInv, QueryPrometheus
<1> QED
  BY <1>6, <1>7, <1>8 DEF ExporterInv

LEMMA PostReportKeeps == ExporterInv /\ PostReport => ExporterInv'
<1> SUFFICES ASSUME ExporterInv, PostReport PROVE ExporterInv'
  OBVIOUS
<1>1. UNCHANGED <<results, said>>
  BY DEF PostReport
<1>2. ResultsInv' /\ SaidInv'
  BY <1>1 DEF ExporterInv, ResultsInv, SaidInv, Values
<1>3. Instances' = Instances /\ \A host : NodeMetric(host)' = NodeMetric(host)
  BY <1>1 DEF Instances, NodeMetric, GetVal
<1>4. PostedInv'
  BY <1>3 DEF PostedInv, PostReport
<1> QED
  BY <1>2, <1>4 DEF ExporterInv

LEMMA ExporterStep == ExporterInv /\ [ExporterNext]_exporterVars => ExporterInv'
<1> SUFFICES ASSUME ExporterInv, [ExporterNext]_exporterVars PROVE ExporterInv'
  OBVIOUS
<1>1. CASE UNCHANGED exporterVars
  <2>1. Instances' = Instances /\ \A host : NodeMetric(host)' = NodeMetric(host)
    BY <1>1 DEF exporterVars, Instances, NodeMetric, GetVal
  <2> QED
    BY <1>1, <2>1 DEF exporterVars, ExporterInv, ResultsInv, SaidInv, PostedInv, Values
<1>2. CASE NextExporterTick
  BY <1>2, NoResultsKeepNext DEF NextExporterTick
<1> QED
  BY <1>1, <1>2, AnswerKeeps, PostReportKeeps DEF ExporterNext

LEMMA ExporterInvariant == ExporterSpec => []ExporterInv
<1>1. ExporterInit => ExporterInv
  BY NoResultsKeep DEF ExporterInit
<1> QED
  BY ExporterStep, <1>1, PTL DEF ExporterSpec

LEMMA HeardIsResult ==
  ASSUME ExporterInv, NEW query, NEW host
  PROVE  /\ Heard(query, host) <=>
              query \in DOMAIN results /\ host \in DOMAIN results[query]
         /\ Told(query, host, GetVal(query, host))
<1>1. Heard(query, host) => query \in DOMAIN results /\ host \in DOMAIN results[query]
  <2> SUFFICES ASSUME NEW answer \in said, answer[1] = query, answer[2] = host
               PROVE  query \in DOMAIN results /\ host \in DOMAIN results[query]
    BY DEF Heard
  <2>1. PICK q \in DOMAIN results : \E h \in DOMAIN results[q] :
          answer = <<q, h, results[q][h]>>
    BY DEF ExporterInv, SaidInv
  <2>2. PICK h \in DOMAIN results[q] : answer = <<q, h, results[q][h]>>
    BY <2>1
  <2> QED
    BY <2>2
<1>2. query \in DOMAIN results /\ host \in DOMAIN results[query] =>
        <<query, host, GetVal(query, host)>> \in said /\ Heard(query, host)
  BY DEF ExporterInv, SaidInv, GetVal, Heard
<1>3. ~ (query \in DOMAIN results /\ host \in DOMAIN results[query]) =>
        GetVal(query, host) = 0
  BY DEF GetVal
<1> QED
  BY <1>1, <1>2, <1>3 DEF Told

\* Whatever fails, each host of which any query was answered is reported.
THEOREM NodesPosted == ExporterSpec => []EveryNodeIsPosted
<1>1. ExporterInv => EveryNodeIsPosted
  <2> SUFFICES ASSUME ExporterInv, exporterPhase = "posted"
               PROVE  DOMAIN posted = {answer[2] : answer \in said}
    BY DEF EveryNodeIsPosted
  <2>1. DOMAIN posted = Instances
    BY DEF ExporterInv, PostedInv
  <2>2. ASSUME NEW answer \in said PROVE answer[2] \in Instances
    BY <2>2 DEF ExporterInv, SaidInv, Instances
  <2>3. ASSUME NEW host \in Instances PROVE \E answer \in said : answer[2] = host
    <3>1. PICK query \in DOMAIN results : host \in DOMAIN results[query]
      BY DEF Instances
    <3>2. <<query, host, results[query][host]>> \in said
      BY <3>1 DEF ExporterInv, SaidInv
    <3> QED
      BY <3>2
  <2> QED
    BY <2>1, <2>2, <2>3
<1> QED
  BY ExporterInvariant, <1>1, PTL

\* What is reported of a host was said of it in this tick.
THEOREM ReportedWasSaid == ExporterSpec => []PostedWasSaid
<1>1. ExporterInv => PostedWasSaid
  <2> SUFFICES ASSUME ExporterInv, NEW host \in DOMAIN posted
               PROVE  /\ Told("mem_used", host, posted[host].used)
                      /\ Told("mem_total", host, posted[host].total)
                      /\ Told("load1", host, posted[host].load1)
                      /\ posted[host].percent # 0 =>
                           Heard("mem_used", host) /\ Heard("mem_total", host)
    BY DEF PostedWasSaid
  <2>1. posted[host] = NodeMetric(host)
    BY DEF ExporterInv, PostedInv
  <2>2. Percent(GetVal("mem_used", host), GetVal("mem_total", host)) # 0 =>
          GetVal("mem_used", host) # 0 /\ GetVal("mem_total", host) # 0
    <3>1. ASSUME NEW total \in Nat, total > 0 PROVE (0 * 100) \div total = 0
      <4>1. 0 * 100 = 0 /\ 0 \div total = 0
        BY <3>1
      <4> QED
        BY <4>1
    <3>2. GetVal("mem_total", host) \in Nat
      BY ExporterAssumption DEF ExporterInv, ResultsInv, GetVal, Values
    <3> QED
      BY <3>1, <3>2 DEF Percent
  <2>3. GetVal("mem_used", host) # 0 => Heard("mem_used", host)
    BY HeardIsResult DEF GetVal
  <2>4. GetVal("mem_total", host) # 0 => Heard("mem_total", host)
    BY HeardIsResult DEF GetVal
  <2> QED
    BY <2>1, <2>2, <2>3, <2>4, HeardIsResult DEF NodeMetric
<1> QED
  BY ExporterInvariant, <1>1, PTL

LEMMA PartOfWhole ==
  ASSUME NEW total \in Nat, total > 0, NEW used \in 0 .. total
  PROVE  (used * 100) \div total \in 0 .. 100
<1> DEFINE d == (used * 100) \div total
<1>1. d \in Int /\ d * total <= used * 100 /\ used * 100 < (d + 1) * total
  OBVIOUS
<1>2. used * 100 <= 100 * total
  OBVIOUS
<1>3. 0 <= used * 100
  OBVIOUS
<1> HIDE DEF d
<1>4. d * total <= 100 * total
  BY <1>1, <1>2
<1>5. d <= 100
  BY <1>1, <1>4
<1>6. 0 <= d
  BY <1>1, <1>3
<1> QED
  BY <1>1, <1>5, <1>6 DEF d

\* Of a host with one exporter no more than all of it is used.
THEOREM PercentBounded == ExporterSpec => []PercentIsBounded
<1>1. ExporterInv => PercentIsBounded
  <2> SUFFICES ASSUME ExporterInv, NEW host \in DOMAIN posted,
                      NEW memory \in Totals[host], Totals[host] = {memory}
               PROVE  posted[host].percent \in 0 .. 100
    BY DEF PercentIsBounded
  <2> DEFINE used == GetVal("mem_used", host)
             total == GetVal("mem_total", host)
  <2>1. posted[host].percent = Percent(used, total) /\ host \in Hosts
    BY DEF ExporterInv, PostedInv, ResultsInv, NodeMetric, Instances
  <2>2. memory \in Nat
    BY <2>1, ExporterAssumption
  <2>3. Values("mem_used", host) = 0 .. memory /\ Values("mem_total", host) = {memory}
    <3>1. Values("mem_used", host) = UNION {0 .. t : t \in Totals[host]}
      BY DEF Values
    <3>2. UNION {0 .. t : t \in {memory}} = 0 .. memory
      <4>1. \A x : x \in UNION {0 .. t : t \in {memory}} <=> x \in 0 .. memory
        OBVIOUS
      <4> QED
        BY <4>1
    <3>3. Values("mem_used", host) = UNION {0 .. t : t \in {memory}}
      BY <3>1
    <3>4. Values("mem_total", host) = {memory}
      BY DEF Values
    <3> QED
      BY <3>2, <3>3, <3>4
  <2>4. used \in 0 .. memory
    BY <2>2, <2>3 DEF ExporterInv, ResultsInv, GetVal
  <2>5. total \in {0, memory}
    BY <2>3 DEF ExporterInv, ResultsInv, GetVal
  <2> HIDE DEF used, total
  <2> QED
    BY <2>1, <2>2, <2>4, <2>5, PartOfWhole DEF Percent
<1> QED
  BY ExporterInvariant, <1>1, PTL
-----------------------------------------------------------------------------
(* The jobs together *)

\* Each job does in Reports what it does alone.
THEOREM JobsAreAlone ==
  ReportsSpec => HeartbeatSpec /\ StatusSpec /\ NodesSpec /\ ExporterSpec
<1>1. ReportsInit => HeartbeatInit /\ StatusInit /\ NodesInit /\ ExporterInit
  BY DEF ReportsInit
<1>2. [ReportsNext]_reportsVars =>
        /\ [HeartbeatNext]_heartbeatVars /\ [StatusNext]_statusVars
        /\ [NodesNext]_listVars /\ [ExporterNext]_exporterVars
  BY DEF ReportsNext, reportsVars
<1> QED
  BY <1>1, <1>2, PTL DEF ReportsSpec, HeartbeatSpec, StatusSpec, NodesSpec, ExporterSpec

\* Every invariant of the reports holds when the jobs run together.
THEOREM ReportsAreRight ==
  ReportsSpec => /\ [](PoolsPartition /\ TotalsAddUp /\ HealthyIsRead /\ OneAnswer)
                 /\ [](StatusIsWhole /\ NodesArePlaced) /\ StaticIsKept
                 /\ [](EveryNodeIsPosted /\ PostedWasSaid /\ PercentIsBounded)
BY JobsAreAlone, PoolsArePartitioned, EveryNodeIsCounted, HealthyWasRead, ServiceHasOneAnswer,
   StatusWhole, NodesPlaced, StaticKept, NodesPosted, ReportedWasSaid, PercentBounded, PTL
=============================================================================
