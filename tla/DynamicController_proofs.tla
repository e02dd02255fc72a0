----------------------- MODULE DynamicController_proofs -----------------------
(***************************************************************************)
(* The LIST and WATCH loop for every set of objects, page size, number of  *)
(* revisions and of failures: the handler knows the objects as they are at *)
(* resourceVersion, is never shown an older state, and gets a Feed.        *)
(***************************************************************************)
EXTENDS DynamicController, WellFoundedInduction, SequenceTheorems, FiniteSetTheorems, TLAPS

\* A non-empty set of numbers has a least one.
LEMMA LeastNat ==
  ASSUME NEW T \in SUBSET Nat, T # {}
  PROVE  \E x \in T : \A y \in T : x <= y
<1>1. \E x \in T : \A y \in T : ~ (<<x, x>> # <<x, x>>) /\ <<y, x>> \notin OpToRel(<, Nat)
  BY NatLessThanWellFounded, WFMin
<1>2. PICK x \in T : \A y \in T : <<y, x>> \notin OpToRel(<, Nat)
  BY <1>1
<1>3. \A y \in T : x <= y
  <2> TAKE y \in T
  <2>1. <<y, x>> \in Nat \X Nat
    OBVIOUS
  <2>2. ~(y < x)
    BY <1>2, <2>1 DEF OpToRel
  <2> QED
    BY <2>2
<1> QED
  BY <1>3

Revision == [uid : Uids \cup {NoUid}, state : State]

\* A revision changes the state of its uid only.
RevisionsInv ==
  \A r \in 2 .. Newest, u \in Uids :
    u # revisions[r].uid => revisions[r].state[u] = revisions[r - 1].state[u]

\* What does not exist yet has never existed.
UnbornInv ==
  \A r \in 1 .. Newest, u \in Uids :
    live[u] = Unborn => revisions[r].state[u] = Unborn

\* What is gone has no more revisions.
GoneInv ==
  \A r \in 2 .. Newest, u \in Uids :
    revisions[r].uid = u => revisions[r - 1].state[u] # Gone

\* The loop's position, and how far the handler has been taken.
PositionInv ==
  /\ pc \in {"open", "watch"} => resourceVersion = position /\ page = {} /\ rest = {}
  /\ \A u \in Uids : shown[u] <= position

\* What the loop does not hold on a page or behind a token, and has not stepped
\* over, the handler knows as it is at the position.
KnownInv ==
  \A u \in Uids \ (missed \cup page \cup rest) :
    Exists(Known(u)) = Exists(revisions[position].state[u])

\* A deletion that a list has stepped over is behind the loop for good.
MissedInv ==
  \A u \in missed :
    /\ Known(u) \in Hashes
    /\ revisions[position].state[u] = Gone
    /\ u \notin page \cup rest

IInv ==
  /\ TypeOK /\ RevisionsInv /\ UnbornInv /\ GoneInv
  /\ PositionInv /\ MissedInv /\ KnownInv

LEMMA Positions ==
  ASSUME TypeOK
  PROVE  /\ Newest \in Nat /\ Newest >= 1
         /\ \A r \in 1 .. Newest :
              /\ revisions[r] \in Revision
              /\ revisions[r].state \in State
              /\ revisions[r].uid \in Uids \cup {NoUid}
         /\ live \in State
<1>1. revisions \in Seq(Revision) /\ revisions # << >>
  BY DEF TypeOK, Revision
<1>2. Newest \in Nat /\ Newest >= 1
  BY <1>1, EmptySeq DEF Newest
<1>3. \A r \in 1 .. Newest : revisions[r] \in Revision
  BY <1>1, ElementOfSeq DEF Newest
<1> QED
  BY <1>2, <1>3 DEF Revision, live

\* An object that none of the revisions up to r changes stays as it is.
LEMMA SameBetween ==
  ASSUME TypeOK, RevisionsInv,
         NEW p \in 1 .. Newest, NEW r \in p .. Newest, NEW u \in Uids,
         \A q \in (p + 1) .. r : revisions[q].uid # u
  PROVE  revisions[r].state[u] = revisions[p].state[u]
<1> DEFINE T == {q \in p .. r : revisions[q].state[u] # revisions[p].state[u]}
<1>0. Newest \in Nat
  BY Positions
<1>1. SUFFICES ASSUME T # {} PROVE FALSE
  BY <1>0
<1>2. T \in SUBSET Nat
  BY <1>0
<1>3. PICK x \in T : \A y \in T : x <= y
  <2> HIDE DEF T
  <2> QED  BY <1>1, <1>2, LeastNat
<1>4. x \in p .. r /\ revisions[x].state[u] # revisions[p].state[u]
  OBVIOUS
<1>5. x # p
  BY <1>4
<1>6. x - 1 \in p .. r /\ x \in (p + 1) .. r /\ x \in 2 .. Newest
  BY <1>0, <1>4, <1>5
<1>7. x - 1 \notin T
  BY <1>0, <1>3, <1>6
<1>8. revisions[x - 1].state[u] = revisions[p].state[u]
  BY <1>6, <1>7
<1>9. revisions[x].state[u] = revisions[x - 1].state[u]
  BY <1>6 DEF RevisionsInv
<1> QED
  BY <1>4, <1>8, <1>9

\* What is gone stays gone.
LEMMA StaysGone ==
  ASSUME TypeOK, RevisionsInv, GoneInv,
         NEW p \in 1 .. Newest, NEW r \in p .. Newest, NEW u \in Uids,
         revisions[p].state[u] = Gone
  PROVE  /\ revisions[r].state[u] = Gone
         /\ \A q \in (p + 1) .. r : revisions[q].uid # u
<1> DEFINE T == {q \in (p + 1) .. r : revisions[q].uid = u}
<1>0. Newest \in Nat
  BY Positions
<1>1. T = {}
  <2> SUFFICES ASSUME T # {} PROVE FALSE
    OBVIOUS
  <2>1. T \in SUBSET Nat
    BY <1>0
  <2>2. PICK x \in T : \A y \in T : x <= y
    <3> HIDE DEF T
    <3> QED  BY <2>1, LeastNat
  <2>3. x \in (p + 1) .. r /\ revisions[x].uid = u
    OBVIOUS
  <2>4. x - 1 \in p .. Newest /\ x \in 2 .. Newest /\ x \in Nat
    BY <1>0, <2>3
  <2>5. \A q \in (p + 1) .. (x - 1) : revisions[q].uid # u
    <3> SUFFICES ASSUME NEW q \in (p + 1) .. (x - 1), revisions[q].uid = u PROVE FALSE
      OBVIOUS
    <3>1. q \in T /\ q < x /\ q \in Nat
      BY <1>0, <2>3
    <3> QED
      BY <2>2, <2>4, <3>1
  <2>6. revisions[x - 1].state[u] = revisions[p].state[u]
    BY <2>4, <2>5, SameBetween
  <2> QED
    BY <2>3, <2>4, <2>6 DEF GoneInv
<1>2. \A q \in (p + 1) .. r : revisions[q].uid # u
  BY <1>1
<1> QED
  BY <1>2, SameBetween

LEMMA InitInv ==
  Init => IInv
<1> SUFFICES ASSUME Init PROVE IInv
  OBVIOUS
<1>1. /\ revisions \in [1 .. 1 -> [uid : {NoUid}, state : [Uids -> Hashes \cup {Unborn}]]]
      /\ compacted = 0
      /\ pc = "list" /\ resourceVersion = NoVersion
      /\ page = {} /\ rest = Existing(1) /\ position = 1
      /\ backoff = 1 /\ breaks = 0
      /\ shown = [u \in Uids |-> 0] /\ missed = {}
  BY DEF Init
<1>2. revisions \in Seq(Revision) /\ Newest = 1 /\ revisions # << >>
  <2>1. revisions \in [1 .. 1 -> Revision]
    BY <1>1 DEF Revision, State
  <2>2. revisions \in Seq(Revision)
    BY <2>1, SeqDef
  <2>3. Len(revisions) = 1
    <3>1. Len(revisions) \in Nat /\ DOMAIN revisions = 1 .. Len(revisions)
      BY <2>2, LenProperties
    <3>2. DOMAIN revisions = 1 .. 1
      BY <2>1
    <3>3. 1 \in 1 .. Len(revisions)
      BY <3>1, <3>2
    <3>4. Len(revisions) \in 1 .. Len(revisions)
      BY <3>1, <3>3
    <3>5. Len(revisions) \in 1 .. 1
      BY <3>1, <3>2, <3>4
    <3> QED
      BY <3>5
  <2> QED
    BY <2>2, <2>3 DEF Newest
<1>3. TypeOK
  <2>1. rest \subseteq Uids
    BY <1>1 DEF Existing
  <2>2. 0 \in 0 .. MaxBreaks
    BY ConstantsAssumption DEF ConstantsAssumption
  <2>3. shown \in [Uids -> 0 .. 1]
    BY <1>1
  <2>4. pc \in {"list", "items", "open", "watch"}
    BY <1>1
  <2>5. /\ compacted \in 0 .. 1 /\ resourceVersion \in 0 .. 1 /\ position \in 1 .. 1
        /\ backoff \in {1, 2, 4, 8, 16, 32} /\ breaks \in 0 .. MaxBreaks
    BY <1>1, <2>2 DEF NoVersion
  <2>6. page \subseteq Uids /\ missed \subseteq Uids
    BY <1>1
  <2> QED
    BY <1>2, <2>1, <2>3, <2>4, <2>5, <2>6 DEF TypeOK, Revision
<1>4. RevisionsInv
  BY <1>2 DEF RevisionsInv
<1>5. UnbornInv
  BY <1>2 DEF UnbornInv, live
<1>6. GoneInv
  BY <1>2 DEF GoneInv
<1>7. PositionInv /\ MissedInv
  BY <1>1 DEF PositionInv, MissedInv
<1>8. KnownInv
  BY <1>1, ConstantsAssumption DEF KnownInv, Known, Exists, Existing, ConstantsAssumption
<1> QED
  BY <1>3, <1>4, <1>5, <1>6, <1>7, <1>8 DEF IInv

\* The server's steps add a revision and leave the others alone.
LEMMA CommitInv ==
  ASSUME IInv, NEW uid \in Uids \cup {NoUid}, NEW state \in State, Commit(uid, state),
         \A u \in Uids : u # uid => state[u] = live[u],
         \A u \in Uids : state[u] = Unborn => live[u] = Unborn,
         uid \in Uids => live[uid] # Gone
  PROVE  IInv'
<1> DEFINE new == [uid |-> uid, state |-> state]
<1>1. TypeOK /\ Newest \in Nat /\ Newest >= 1 /\ revisions \in Seq(Revision)
  BY Positions DEF IInv, TypeOK, Revision
<1>2. new \in Revision
  BY DEF Revision
<1>3. /\ revisions' = Append(revisions, new)
      /\ UNCHANGED <<compacted, pc, resourceVersion, page, rest, position, backoff,
                     breaks, shown, missed>>
  BY DEF Commit, loop
<1> HIDE DEF new
<1>4. /\ revisions' \in Seq(Revision) /\ revisions' # << >>
      /\ Newest' = Newest + 1
      /\ \A r \in 1 .. Newest : revisions'[r] = revisions[r]
      /\ revisions'[Newest + 1] = new
  BY <1>1, <1>2, <1>3, AppendProperties DEF Newest
<1>5. live' = state
  BY <1>4 DEF live, new
<1>6. TypeOK'
  <2>1. 0 .. Newest \subseteq 0 .. Newest' /\ 1 .. Newest \subseteq 1 .. Newest'
    BY <1>1, <1>4
  <2>2. shown' \in [Uids -> 0 .. Newest']
    BY <1>3, <2>1 DEF IInv, TypeOK
  <2> QED
    BY <1>3, <1>4, <2>1, <2>2 DEF IInv, TypeOK, Revision
<1>7. RevisionsInv'
  <2> SUFFICES ASSUME NEW r \in 2 .. Newest', NEW u \in Uids, u # revisions'[r].uid
               PROVE  revisions'[r].state[u] = revisions'[r - 1].state[u]
    BY DEF RevisionsInv
  <2>1. CASE r = Newest + 1
    <3>1. revisions'[r - 1] = revisions[Newest] /\ revisions'[r] = new
      BY <1>1, <1>4, <2>1
    <3> QED
      BY <3>1 DEF new, live
  <2>2. CASE r # Newest + 1
    <3>1. r \in 2 .. Newest /\ r \in 1 .. Newest /\ r - 1 \in 1 .. Newest
      BY <1>1, <1>4, <2>2
    <3> QED
      BY <1>4, <3>1 DEF IInv, RevisionsInv
  <2> QED
    BY <2>1, <2>2
<1>8. UnbornInv'
  <2> SUFFICES ASSUME NEW r \in 1 .. Newest', NEW u \in Uids, state[u] = Unborn
               PROVE  revisions'[r].state[u] = Unborn
    BY <1>5 DEF UnbornInv
  <2>1. CASE r = Newest + 1
    BY <1>4, <2>1 DEF new
  <2>2. CASE r # Newest + 1
    <3>1. r \in 1 .. Newest
      BY <1>1, <1>4, <2>2
    <3> QED
      BY <1>4, <3>1 DEF IInv, UnbornInv
  <2> QED
    BY <2>1, <2>2
<1>9. \A u \in Uids : Known(u)' = Known(u)
  <2> TAKE u \in Uids
  <2>1. shown[u] \in 0 .. Newest
    BY DEF IInv, TypeOK
  <2>2. shown[u] # 0 => shown[u] \in 1 .. Newest
    BY <1>1, <2>1
  <2> QED
    BY <1>3, <1>4, <2>2 DEF Known
<1>10. PositionInv'
  BY <1>3 DEF IInv, PositionInv
<1>11. position \in 1 .. Newest /\ revisions'[position] = revisions[position]
  BY <1>4 DEF IInv, TypeOK
<1>12. KnownInv'
  BY <1>3, <1>9, <1>11 DEF IInv, KnownInv, Exists
<1>13. GoneInv'
  <2> SUFFICES ASSUME NEW r \in 2 .. Newest', NEW u \in Uids, revisions'[r].uid = u
               PROVE  revisions'[r - 1].state[u] # Gone
    BY DEF GoneInv
  <2>1. CASE r = Newest + 1
    <3>1. revisions'[r - 1] = revisions[Newest] /\ uid = u
      BY <1>1, <1>4, <2>1 DEF new
    <3> QED
      BY <3>1 DEF live
  <2>2. CASE r # Newest + 1
    <3>1. r \in 2 .. Newest /\ r \in 1 .. Newest /\ r - 1 \in 1 .. Newest
      BY <1>1, <1>4, <2>2
    <3> QED
      BY <1>4, <3>1 DEF IInv, GoneInv
  <2> QED
    BY <2>1, <2>2
<1>14. MissedInv'
  BY <1>3, <1>9, <1>11 DEF IInv, TypeOK, MissedInv
<1> QED
  BY <1>6, <1>7, <1>8, <1>10, <1>12, <1>13, <1>14 DEF IInv

\* Steps that leave the revisions alone leave what is true of them.
LEMMA SameRevisions ==
  ASSUME IInv, UNCHANGED revisions
  PROVE  RevisionsInv' /\ UnbornInv' /\ GoneInv' /\ Newest' = Newest /\ live' = live
<1>1. Newest' = Newest /\ live' = live
  BY DEF Newest, live
<1> QED
  BY <1>1 DEF IInv, RevisionsInv, UnbornInv, GoneInv

LEMMA ServerInv ==
  ASSUME IInv, Server
  PROVE  IInv'
<1>1. live \in State /\ Gone \notin Hashes /\ Unborn \notin Hashes /\ Gone # Unborn
  BY Positions, ConstantsAssumption DEF IInv, ConstantsAssumption
<1>2. ASSUME NEW u \in Uids, Delete(u)
      PROVE  IInv'
  <2> DEFINE state == [live EXCEPT ![u] = Gone]
  <2>1. /\ state \in State
        /\ \A v \in Uids : v # u => state[v] = live[v]
        /\ \A v \in Uids : state[v] = Unborn => live[v] = Unborn
        /\ live[u] # Gone
    BY <1>1, <1>2 DEF State, Delete
  <2>2. Commit(u, state)
    BY <1>2 DEF Delete
  <2> HIDE DEF state
  <2> QED
    BY <2>1, <2>2, CommitInv
<1>3. ASSUME NEW u \in Uids, NEW h \in Hashes, Change(u, h)
      PROVE  IInv'
  <2> DEFINE state == [live EXCEPT ![u] = h]
  <2>1. /\ state \in State
        /\ \A v \in Uids : v # u => state[v] = live[v]
        /\ \A v \in Uids : state[v] = Unborn => live[v] = Unborn
        /\ live[u] # Gone
    BY <1>1, <1>3 DEF State, Change
  <2>2. Commit(u, state)
    BY <1>3 DEF Change
  <2> HIDE DEF state
  <2> QED
    BY <2>1, <2>2, CommitInv
<1>4. ASSUME OtherKind
      PROVE  IInv'
  BY <1>1, <1>4, CommitInv, ConstantsAssumption DEF OtherKind, ConstantsAssumption
<1>5. ASSUME NEW r \in 1 .. MaxRevisions, Compact(r)
      PROVE  IInv'
  <2>1. UNCHANGED <<revisions, pc, resourceVersion, page, rest, position, backoff,
                    breaks, shown, missed>>
    BY <1>5 DEF Compact, loop
  <2>2. compacted' \in 0 .. Newest
    BY <1>5, Positions DEF Compact, IInv
  <2>3. TypeOK'
    BY <2>1, <2>2, SameRevisions DEF IInv, TypeOK
  <2>4. \A u \in Uids : Known(u)' = Known(u)
    BY <2>1 DEF Known
  <2> QED
    BY <2>1, <2>3, <2>4, SameRevisions
       DEF IInv, TypeOK, PositionInv, MissedInv, KnownInv, Exists
<1> QED
  BY <1>2, <1>3, <1>4, <1>5 DEF Server

\* What the handler knows lies at the position at the latest.
LEMMA KnownType ==
  ASSUME IInv, NEW u \in Uids
  PROVE  /\ Known(u) \in Hashes \cup {Unborn, Gone}
         /\ live[u] = Unborn => Known(u) = Unborn
<1>1. shown[u] \in 0 .. Newest /\ Newest \in Nat
  BY Positions DEF IInv, TypeOK
<1>2. CASE shown[u] = 0
  BY <1>2 DEF Known
<1>3. CASE shown[u] # 0
  <2>1. shown[u] \in 1 .. Newest
    BY <1>1, <1>3
  <2>2. revisions[shown[u]].state \in State
    BY <2>1, Positions DEF IInv
  <2> QED
    BY <1>3, <2>1, <2>2 DEF Known, State, IInv, UnbornInv
<1> QED
  BY <1>2, <1>3

LEMMA ListStep ==
  ASSUME IInv, List
  PROVE  IInv'
<1>1. /\ pc' = "items" /\ position' = Newest /\ backoff' = 1
      /\ page' \subseteq Existing(Newest) /\ rest' = Existing(Newest) \ page'
      /\ missed' = missed \cup {u \in Uids : Known(u) \in Hashes /\ live[u] = Gone}
      /\ UNCHANGED <<revisions, compacted, resourceVersion, breaks, shown>>
  BY DEF List, Page, server
<1>2. Newest \in 1 .. Newest /\ Newest \in Nat
  BY Positions DEF IInv
<1>3. TypeOK'
  <2>1. page' \subseteq Uids /\ rest' \subseteq Uids /\ missed' \subseteq Uids
    BY <1>1 DEF Existing, IInv, TypeOK
  <2> QED
    BY <1>1, <1>2, <2>1, SameRevisions DEF IInv, TypeOK
<1>4. PositionInv'
  <2>1. \A u \in Uids : shown[u] <= Newest
    BY <1>2 DEF IInv, TypeOK
  <2> QED
    BY <1>1, <2>1 DEF PositionInv
<1>5. \A u \in Uids : Known(u)' = Known(u)
  BY <1>1 DEF Known
<1>6. KnownInv'
  <2> SUFFICES ASSUME NEW u \in Uids, u \notin missed', u \notin Existing(Newest)
               PROVE  Exists(Known(u)) = Exists(revisions[Newest].state[u])
    BY <1>1, <1>5 DEF KnownInv, Exists
  <2>1. live[u] \notin Hashes /\ revisions[Newest].state[u] = live[u]
    BY DEF Existing, live
  <2>2. live[u] \in {Unborn, Gone}
    BY <2>1, Positions DEF IInv, State
  <2>3. Known(u) \notin Hashes
    <3>1. CASE live[u] = Unborn
      BY <3>1, KnownType, ConstantsAssumption DEF ConstantsAssumption
    <3>2. CASE live[u] = Gone
      BY <1>1, <3>2
    <3> QED
      BY <2>2, <3>1, <3>2
  <2> QED
    BY <2>1, <2>3 DEF Exists
<1>7. MissedInv'
  <2> SUFFICES ASSUME NEW u \in missed'
               PROVE  /\ Known(u) \in Hashes
                      /\ live[u] = Gone
                      /\ u \notin Existing(Newest)
    BY <1>1, <1>5, SameRevisions DEF MissedInv, live, IInv, TypeOK
  <2>1. u \in Uids
    BY <1>1 DEF IInv, TypeOK
  <2>2. Known(u) \in Hashes /\ live[u] = Gone
    <3>1. CASE u \in missed
      <4>1. Known(u) \in Hashes /\ revisions[position].state[u] = Gone
        BY <3>1 DEF IInv, MissedInv
      <4>2. position \in 1 .. Newest
        BY DEF IInv, TypeOK
      <4> QED
        BY <2>1, <4>1, <4>2, StaysGone, <1>2 DEF IInv, live
    <3>2. CASE u \notin missed
      BY <1>1, <3>2
    <3> QED
      BY <3>1, <3>2
  <2>3. live[u] \notin Hashes
    BY <2>2, ConstantsAssumption DEF ConstantsAssumption
  <2> QED
    BY <2>2, <2>3 DEF Existing, live
<1> QED
  BY <1>1, <1>3, <1>4, <1>6, <1>7, SameRevisions DEF IInv

LEMMA ItemStep ==
  ASSUME IInv, NEW u \in Uids, Item(u)
  PROVE  IInv'
<1>1. /\ pc = "items" /\ u \in page /\ page' = page \ {u}
      /\ shown' = [shown EXCEPT ![u] = position]
      /\ UNCHANGED <<revisions, compacted, pc, resourceVersion, rest, position,
                     backoff, breaks, missed>>
  BY DEF Item, server
<1>2. position \in 1 .. Newest /\ Newest \in Nat /\ shown \in [Uids -> 0 .. Newest]
  BY Positions DEF IInv, TypeOK
<1>3. TypeOK'
  <2>1. shown' \in [Uids -> 0 .. Newest]
    BY <1>1, <1>2
  <2> QED
    BY <1>1, <2>1, SameRevisions DEF IInv, TypeOK
<1>4. PositionInv'
  BY <1>1, <1>2 DEF IInv, PositionInv
<1>5. \A v \in Uids : Known(v)' = IF v = u THEN revisions[position].state[u] ELSE Known(v)
  BY <1>1, <1>2 DEF Known
<1>6. KnownInv'
  BY <1>1, <1>5 DEF IInv, KnownInv, Exists
<1>7. MissedInv'
  BY <1>1, <1>5 DEF IInv, TypeOK, MissedInv
<1> QED
  BY <1>1, <1>3, <1>4, <1>6, <1>7, SameRevisions DEF IInv

LEMMA ListRestSteps ==
  ASSUME IInv, NextPage \/ ListEnd \/ ListFails
  PROVE  IInv'
<1>1. /\ UNCHANGED <<revisions, compacted, position, shown, missed>>
      /\ \A u \in Uids : Known(u)' = Known(u)
  BY DEF NextPage, ListEnd, ListFails, server, Known
<1>2. position \in 1 .. Newest /\ Newest \in Nat
  BY Positions DEF IInv, TypeOK
<1>3. page' \cup rest' = page \cup rest => MissedInv'
  BY <1>1 DEF IInv, TypeOK, MissedInv
<1>4. CASE NextPage
  <2>1. /\ pc = "items" /\ pc' = "items" /\ page = {} /\ backoff' = 1
        /\ page' \subseteq rest /\ rest' = rest \ page'
        /\ UNCHANGED <<resourceVersion, breaks>>
    BY <1>4 DEF NextPage, Page
  <2>2. TypeOK'
    <3>1. page' \subseteq Uids /\ rest' \subseteq Uids
      BY <2>1 DEF IInv, TypeOK
    <3> QED
      BY <1>1, <2>1, <3>1, SameRevisions DEF IInv, TypeOK
  <2>3. page' \cup rest' = page \cup rest
    BY <2>1
  <2>4. KnownInv'
    <3>1. Uids \ (missed \cup page' \cup rest') = Uids \ (missed \cup page \cup rest)
      BY <2>3
    <3> QED
      BY <1>1, <2>1, <3>1 DEF IInv, KnownInv, Exists
  <2> QED
    BY <1>1, <1>3, <2>1, <2>2, <2>3, <2>4, SameRevisions DEF IInv, PositionInv
<1>5. CASE ListEnd
  <2>1. /\ pc = "items" /\ pc' = "open" /\ page = {} /\ rest = {}
        /\ resourceVersion' = position
        /\ UNCHANGED <<page, rest, backoff, breaks>>
    BY <1>5 DEF ListEnd
  <2>2. TypeOK'
    BY <1>1, <1>2, <2>1, SameRevisions DEF IInv, TypeOK
  <2> QED
    BY <1>1, <1>3, <2>1, <2>2, SameRevisions
       DEF IInv, TypeOK, PositionInv, KnownInv, Exists
<1>6. CASE ListFails
  <2>1. /\ pc' = "list" /\ backoff' = IncreaseBackoff(backoff)
        /\ UNCHANGED <<resourceVersion, page, rest>>
    BY <1>6 DEF ListFails
  <2>2. backoff' \in {1, 2, 4, 8, 16, 32}
    BY <2>1 DEF IncreaseBackoff, IInv, TypeOK
  <2>3. breaks' \in 0 .. MaxBreaks
    BY <1>6, ConstantsAssumption DEF ListFails, IInv, TypeOK, ConstantsAssumption
  <2>4. TypeOK'
    BY <1>1, <2>1, <2>2, <2>3, SameRevisions DEF IInv, TypeOK
  <2> QED
    BY <1>1, <1>3, <2>1, <2>4, SameRevisions
       DEF IInv, TypeOK, PositionInv, KnownInv, Exists
<1> QED
  BY <1>4, <1>5, <1>6

\* Opening, failing and ending a watch: the version stays or the loop lists.
LEMMA WatchSteps ==
  ASSUME IInv, WatchFails \/ Watch \/ WatchEnds
  PROVE  IInv'
<1>1. /\ UNCHANGED <<revisions, compacted, page, rest, position, shown, missed>>
      /\ \A u \in Uids : Known(u)' = Known(u)
  BY DEF WatchFails, Watch, WatchEnds, ForceRelist, server, loop, Known
<1>2. \/ pc' \in {"open", "watch"} /\ pc \in {"open", "watch"}
         /\ resourceVersion' = resourceVersion
      \/ pc' = "list" /\ resourceVersion' = NoVersion
  BY DEF WatchFails, Watch, WatchEnds, ForceRelist, loop
<1>3. backoff' \in {1, 2, 4, 8, 16, 32}
  <2>1. backoff' \in {1, backoff, IncreaseBackoff(backoff)}
    BY DEF WatchFails, Watch, WatchEnds, ForceRelist
  <2> QED
    BY <2>1 DEF IncreaseBackoff, IInv, TypeOK
<1>4. breaks' \in 0 .. MaxBreaks
  <2>1. breaks' = breaks \/ (breaks < MaxBreaks /\ breaks' = breaks + 1)
    BY DEF WatchFails, Watch, WatchEnds
  <2> QED
    BY <2>1, ConstantsAssumption DEF IInv, TypeOK, ConstantsAssumption
<1>5. TypeOK'
  <2>1. resourceVersion' \in 0 .. Newest
    BY <1>2, Positions DEF IInv, TypeOK, NoVersion
  <2>2. pc' \in {"list", "items", "open", "watch"}
    BY <1>2
  <2> QED
    BY <1>1, <1>3, <1>4, <2>1, <2>2, SameRevisions DEF IInv, TypeOK
<1>6. MissedInv'
  BY <1>1 DEF IInv, TypeOK, MissedInv
<1> QED
  BY <1>1, <1>2, <1>5, <1>6, SameRevisions
     DEF IInv, TypeOK, PositionInv, KnownInv, Exists

\* The stream moves on to r, of whose revision and those before it the
\* handler is told everything: the state of r's uid, if r is an event.
LEMMA StreamStep ==
  ASSUME IInv, pc = "watch", NEW r \in (resourceVersion + 1) .. Newest,
         \A q \in (resourceVersion + 1) .. (r - 1) : revisions[q].uid = NoUid,
         resourceVersion' = r, position' = r,
         UNCHANGED <<server, pc, page, rest, backoff, breaks, missed>>,
         \/ revisions[r].uid = NoUid /\ shown' = shown
         \/ revisions[r].uid # NoUid /\ shown' = [shown EXCEPT ![revisions[r].uid] = r]
  PROVE  IInv'
<1>1. /\ resourceVersion = position /\ position \in 1 .. Newest /\ Newest \in Nat
      /\ shown \in [Uids -> 0 .. Newest]
      /\ \A u \in Uids : shown[u] <= position
  BY Positions DEF IInv, TypeOK, PositionInv
<1>2. r \in 1 .. Newest /\ r \in position .. Newest /\ position < r
  BY <1>1
<1>3. revisions[r].uid \in Uids \cup {NoUid}
  BY <1>2, Positions DEF IInv
<1>4. UNCHANGED revisions /\ UNCHANGED compacted
  BY DEF server
<1>5. TypeOK'
  <2>1. shown' \in [Uids -> 0 .. Newest]
    BY <1>1, <1>2, <1>3
  <2> QED
    BY <1>2, <1>4, <2>1, SameRevisions DEF IInv, TypeOK
<1>6. \A u \in Uids : shown'[u] <= r
  BY <1>1, <1>2, <1>3
<1>7. ASSUME NEW u \in Uids \ (missed \cup page \cup rest)
      PROVE  Exists(Known(u)') = Exists(revisions[r].state[u])
  <2>1. CASE revisions[r].uid = u
    <3>1. shown'[u] = r
      BY <1>1, <2>1, ConstantsAssumption DEF ConstantsAssumption
    <3> QED
      BY <1>2, <1>4, <3>1 DEF Known
  <2>2. CASE revisions[r].uid # u
    <3>1. shown'[u] = shown[u]
      BY <1>1, <2>2
    <3>2. Known(u)' = Known(u)
      BY <1>4, <3>1 DEF Known
    <3>3. \A q \in (position + 1) .. r : revisions[q].uid # u
      BY <1>1, <1>2, <2>2, ConstantsAssumption DEF ConstantsAssumption
    <3>4. revisions[r].state[u] = revisions[position].state[u]
      BY <1>1, <1>2, <3>3, SameBetween DEF IInv
    <3> QED
      BY <1>1, <3>2, <3>4 DEF IInv, KnownInv
  <2> QED
    BY <2>1, <2>2
<1>8. ASSUME NEW u \in missed
      PROVE  /\ Known(u)' \in Hashes
             /\ revisions[r].state[u] = Gone
             /\ u \notin page \cup rest
  <2>1. u \in Uids
    BY DEF IInv, TypeOK
  <2>2. /\ Known(u) \in Hashes
        /\ revisions[position].state[u] = Gone
        /\ u \notin page \cup rest
    BY <1>8 DEF IInv, MissedInv
  <2>3. /\ revisions[r].state[u] = Gone
        /\ \A q \in (position + 1) .. r : revisions[q].uid # u
    BY <1>1, <1>2, <2>1, <2>2, StaysGone DEF IInv
  <2>4. revisions[r].uid # u
    BY <1>1, <1>2, <2>3
  <2>5. shown'[u] = shown[u]
    BY <1>1, <1>3, <2>1, <2>4
  <2>6. Known(u)' = Known(u)
    BY <1>4, <2>5 DEF Known
  <2> QED
    BY <2>2, <2>3, <2>6
<1>9. MissedInv'
  BY <1>4, <1>8 DEF MissedInv
<1>10. KnownInv'
  BY <1>4, <1>7 DEF KnownInv, Exists
<1> QED
  BY <1>4, <1>5, <1>6, <1>9, <1>10, SameRevisions DEF IInv, PositionInv

LEMMA EventStep ==
  ASSUME IInv, Event
  PROVE  IInv'
<1>1. PICK r \in NextEvent : /\ resourceVersion' = r /\ position' = r
                             /\ shown' = [shown EXCEPT ![revisions[r].uid] = r]
  BY DEF Event
<1>2. /\ r \in (resourceVersion + 1) .. Newest
      /\ revisions[r].uid # NoUid
      /\ \A q \in (resourceVersion + 1) .. (r - 1) : revisions[q].uid = NoUid
  BY DEF NextEvent
<1>3. pc = "watch" /\ UNCHANGED <<server, pc, page, rest, backoff, breaks, missed>>
  BY DEF Event
<1> QED
  BY <1>1, <1>2, <1>3, StreamStep

LEMMA BookmarkStep ==
  ASSUME IInv, Bookmark
  PROVE  IInv'
<1>1. PICK r \in (resourceVersion + 1) .. Newest :
        /\ \A q \in (resourceVersion + 1) .. r : revisions[q].uid = NoUid
        /\ resourceVersion' = r /\ position' = r
  BY DEF Bookmark
<1>2. /\ revisions[r].uid = NoUid
      /\ \A q \in (resourceVersion + 1) .. (r - 1) : revisions[q].uid = NoUid
  BY <1>1, Positions DEF IInv, TypeOK
<1>3. /\ pc = "watch" /\ shown' = shown
      /\ UNCHANGED <<server, pc, page, rest, backoff, breaks, missed>>
  BY DEF Bookmark
<1> QED
  BY <1>1, <1>2, <1>3, StreamStep

LEMMA StepInv ==
  ASSUME IInv, [Next]_vars
  PROVE  IInv'
<1>1. CASE Next
  BY <1>1, ServerInv, ListStep, ItemStep, ListRestSteps, WatchSteps, EventStep, BookmarkStep
     DEF Next, Loop, Progress
<1>2. CASE UNCHANGED vars
  <2>1. UNCHANGED <<revisions, compacted, pc, resourceVersion, page, rest, position,
                    backoff, breaks, shown, missed>>
    BY <1>2 DEF vars, server, loop
  <2>2. \A u \in Uids : Known(u)' = Known(u)
    BY <2>1 DEF Known
  <2>3. TypeOK'
    BY <2>1, SameRevisions DEF IInv, TypeOK
  <2> QED
    BY <2>1, <2>2, <2>3, SameRevisions
       DEF IInv, TypeOK, PositionInv, MissedInv, KnownInv, Exists
<1> QED
  BY <1>1, <1>2

\* Every reachable state satisfies the inductive invariant.
THEOREM Invariance == Spec => []IInv
  BY InitInv, StepInv, PTL DEF Spec

\* The loop keeps its types; the backoff never passes 32 seconds.
\* (increaseBackoff)
THEOREM TypeCorrect == Spec => []TypeOK
<1>1. IInv => TypeOK
  BY DEF IInv
<1> QED
  BY <1>1, Invariance, PTL

\* Between lists the handler knows every object as it is at resourceVersion, or
\* believes in it where a list has stepped over its deletion.
\* (runNoCacheWatcher)
THEOREM HandlerKnowsVersion == Spec => []KnowsVersion
<1>1. IInv => KnowsVersion
  BY DEF IInv, TypeOK, PositionInv, MissedInv, KnownInv, KnowsVersion
<1> QED
  BY <1>1, Invariance, PTL

\* The handler is never shown an older state than it has seen.
\* (noCacheInitialList, noCacheWatch)
THEOREM NeverShownOlder == Spec => NeverOlder
<1>1. ASSUME IInv, [Next]_vars
      PROVE  [\A u \in Uids : shown'[u] >= shown[u]]_vars
  <2>1. /\ shown \in [Uids -> 0 .. Newest] /\ Newest \in Nat
        /\ position \in 1 .. Newest
        /\ \A u \in Uids : shown[u] <= position
        /\ pc = "watch" => resourceVersion = position
    BY <1>1, Positions DEF IInv, TypeOK, PositionInv
  <2>2. CASE shown' = shown
    BY <2>1, <2>2
  <2>3. CASE \E u \in Uids : Item(u)
    BY <2>1, <2>3 DEF Item
  <2>4. CASE Event
    <3>1. PICK r \in NextEvent : shown' = [shown EXCEPT ![revisions[r].uid] = r]
      BY <2>4 DEF Event
    <3>2. r > position /\ r \in Nat
      BY <2>1, <2>4 DEF NextEvent, Event
    <3> QED
      BY <2>1, <3>1, <3>2
  <2>5. shown' = shown \/ (\E u \in Uids : Item(u)) \/ Event \/ UNCHANGED vars
    BY <1>1 DEF Next, Server, Loop, Progress, Change, Delete, OtherKind, Commit, Compact,
                List, NextPage, ListEnd, ListFails, WatchFails, Watch, ForceRelist,
                Bookmark, WatchEnds
  <2> QED
    BY <2>2, <2>3, <2>4, <2>5 DEF vars
<1> QED
  BY <1>1, Invariance, PTL DEF Spec, NeverOlder
-----------------------------------------------------------------------------
(* The refinement of Feed *)

\* A sequence holds the elements of a set of numbers in their order.
Ordered(s, S) ==
  /\ s \in Seq(S)
  /\ \A i, j \in 1 .. Len(s) : i < j => s[i] < s[j]
  /\ \A r \in S : \E i \in 1 .. Len(s) : s[i] = r

\* Up to the end of the shorter one, two such sequences are the same.
LEMMA OrderAgrees ==
  ASSUME NEW S \in SUBSET Nat, NEW s, NEW t, Ordered(s, S), Ordered(t, S),
         NEW i \in 1 .. Len(s), i <= Len(t)
  PROVE  s[i] = t[i]
<1> DEFINE T == {k \in 1 .. Len(s) : k <= Len(t) /\ s[k] # t[k]}
<1>0. /\ Len(s) \in Nat /\ Len(t) \in Nat
      /\ \A k \in 1 .. Len(s) : s[k] \in S /\ s[k] \in Nat
      /\ \A k \in 1 .. Len(t) : t[k] \in S /\ t[k] \in Nat
  BY LenProperties, ElementOfSeq DEF Ordered
<1>1. SUFFICES ASSUME T # {} PROVE FALSE
  BY <1>0
<1>2. T \in SUBSET Nat
  BY <1>0
<1>3. PICK x \in T : \A y \in T : x <= y
  <2> HIDE DEF T
  <2> QED  BY <1>1, <1>2, LeastNat
<1>4. x \in 1 .. Len(s) /\ x \in 1 .. Len(t) /\ s[x] # t[x]
  BY <1>0
<1>5. \A y \in 1 .. (x - 1) : s[y] = t[y]
  BY <1>0, <1>3, <1>4
<1>6. PICK j \in 1 .. Len(t) : t[j] = s[x]
  BY <1>0, <1>4 DEF Ordered
<1>7. PICK k \in 1 .. Len(s) : s[k] = t[x]
  BY <1>0, <1>4 DEF Ordered
<1>8. j > x
  <2>1. j < x => j \in 1 .. (x - 1) /\ j \in 1 .. Len(s)
    BY <1>0, <1>4
  <2>2. j < x => s[j] < s[x]
    BY <1>4, <2>1 DEF Ordered
  <2> QED
    BY <1>0, <1>4, <1>5, <1>6, <2>1, <2>2
<1>9. k > x
  <2>1. k < x => k \in 1 .. (x - 1) /\ k \in 1 .. Len(t)
    BY <1>0, <1>4
  <2>2. k < x => t[k] < t[x]
    BY <1>4, <2>1 DEF Ordered
  <2> QED
    BY <1>0, <1>4, <1>5, <1>7, <2>1, <2>2
<1>10. t[x] < s[x] /\ s[x] < t[x]
  BY <1>4, <1>6, <1>7, <1>8, <1>9 DEF Ordered
<1> QED
  BY <1>0, <1>4, <1>10

\* None is longer than the other.
LEMMA OrderNotLonger ==
  ASSUME NEW S \in SUBSET Nat, NEW s, NEW t, Ordered(s, S), Ordered(t, S)
  PROVE  Len(t) <= Len(s)
<1>0. /\ Len(s) \in Nat /\ Len(t) \in Nat
      /\ \A k \in 1 .. Len(s) : s[k] \in S /\ s[k] \in Nat
      /\ \A k \in 1 .. Len(t) : t[k] \in S /\ t[k] \in Nat
  BY LenProperties, ElementOfSeq DEF Ordered
<1>1. SUFFICES ASSUME Len(s) < Len(t) PROVE FALSE
  BY <1>0
<1>2. Len(t) \in 1 .. Len(t)
  BY <1>0, <1>1
<1>3. PICK k \in 1 .. Len(s) : s[k] = t[Len(t)]
  BY <1>0, <1>2 DEF Ordered
<1>4. s[k] = t[k]
  BY <1>0, <1>1, OrderAgrees
<1>5. t[k] < t[Len(t)]
  BY <1>0, <1>1, <1>2 DEF Ordered
<1> QED
  BY <1>0, <1>2, <1>3, <1>4, <1>5

LEMMA OrderUnique ==
  ASSUME NEW S \in SUBSET Nat, NEW s, NEW t, Ordered(s, S), Ordered(t, S)
  PROVE  s = t
<1>1. s \in Seq(S) /\ t \in Seq(S) /\ Len(s) \in Nat /\ Len(t) \in Nat
  BY LenProperties DEF Ordered
<1>2. Len(s) = Len(t)
  BY <1>1, OrderNotLonger
<1>3. \A i \in 1 .. Len(s) : s[i] = t[i]
  BY <1>1, <1>2, OrderAgrees
<1> QED
  BY <1>1, <1>2, <1>3, SeqEqual

\* InOrder finds it.
LEMMA InOrderIs ==
  ASSUME NEW S \in SUBSET Nat, NEW s, Ordered(s, S)
  PROVE  InOrder(S) = s
<1> DEFINE n == Len(s)
           P(t) == \A i, j \in DOMAIN t : i < j => t[i] < t[j]
<1>1. n \in Nat /\ s \in [1 .. n -> S] /\ DOMAIN s = 1 .. n
  BY LenProperties DEF Ordered
<1>2. \A t \in [1 .. n -> S] : P(t) => t \in Injection(1 .. n, S)
  <2> SUFFICES ASSUME NEW t \in [1 .. n -> S], P(t),
                      NEW i \in 1 .. n, NEW j \in 1 .. n, t[i] = t[j]
               PROVE  i = j
    BY DEF Injection, IsInjective
  <2>1. t[i] \in Nat /\ t[j] \in Nat
    OBVIOUS
  <2>2. ~ (i < j) /\ ~ (j < i)
    BY <2>1
  <2> QED
    BY <1>1, <2>2
<1>3. P(s)
  BY <1>1 DEF Ordered
<1>4. s \in Surjection(1 .. n, S)
  BY <1>1 DEF Surjection, Ordered
<1>5. ExistsBijection(1 .. n, S)
  BY <1>1, <1>2, <1>3, <1>4 DEF ExistsBijection, Bijection
<1>6. IsFiniteSet(S) /\ Cardinality(S) = n
  BY <1>1, <1>5, FS_NatBijection, FS_CountingElements
<1>7. InOrder(S) = CHOOSE t \in [1 .. n -> S] : P(t)
  BY <1>6 DEF InOrder
<1>8. InOrder(S) \in [1 .. n -> S] /\ P(InOrder(S))
  BY <1>1, <1>3, <1>7
<1> DEFINE t == InOrder(S)
<1> HIDE DEF t
<1>9. t \in [1 .. n -> S] /\ P(t)
  BY <1>8 DEF t
<1>10. t \in Surjection(1 .. n, S)
  <2>1. Cardinality(1 .. n) = n
    BY <1>1, FS_Interval
  <2>2. t \in Injection(1 .. n, S)
    BY <1>2, <1>9
  <2> QED
    BY <1>6, <2>1, <2>2, FS_Injection
<1>11. t \in Seq(S) /\ DOMAIN t = 1 .. n /\ Len(t) = n
  <2>1. t \in Seq(S)
    BY <1>1, <1>9, SeqDef
  <2>2. Len(t) \in Nat /\ DOMAIN t = 1 .. Len(t) /\ DOMAIN t = 1 .. n
    BY <1>9, <2>1, LenProperties
  <2>3. 1 .. Len(t) = 1 .. n
    BY <2>2
  <2>4. Len(t) = n
    <3>1. Len(t) >= 1 => Len(t) <= n
      <4>1. Len(t) >= 1 => Len(t) \in 1 .. Len(t)
        BY <2>2
      <4>2. Len(t) >= 1 => Len(t) \in 1 .. n
        BY <2>3, <4>1, Zenon
      <4> QED
        BY <1>1, <2>2, <4>2
    <3>2. n >= 1 => n <= Len(t)
      <4>1. n >= 1 => n \in 1 .. n
        BY <1>1
      <4>2. n >= 1 => n \in 1 .. Len(t)
        BY <2>3, <4>1, Zenon
      <4> QED
        BY <1>1, <2>2, <4>2
    <3>3. Len(t) \in Nat /\ n \in Nat
      BY <1>1, <2>2
    <3> HIDE DEF n
    <3> QED
      BY <3>1, <3>2, <3>3
  <2> QED
    BY <2>1, <2>2, <2>4
<1>12. Ordered(t, S)
  BY <1>9, <1>10, <1>11 DEF Ordered, Surjection
<1>13. t = s
  BY <1>12, OrderUnique
<1> QED
  BY <1>13 DEF t

LEMMA OrderOfNone == Ordered(<< >>, {})
BY EmptySeq DEF Ordered

LEMMA OrderOfMore ==
  ASSUME NEW S \in SUBSET Nat, NEW s, Ordered(s, S), NEW r \in Nat, \A q \in S : q < r
  PROVE  Ordered(Append(s, r), S \cup {r})
<1> DEFINE t == Append(s, r)
<1>1. s \in Seq(S \cup {r}) /\ Len(s) \in Nat
  BY LenProperties, SeqMonotonic DEF Ordered
<1>2. /\ t \in Seq(S \cup {r}) /\ Len(t) = Len(s) + 1
      /\ \A i \in 1 .. Len(s) : t[i] = s[i]
      /\ t[Len(s) + 1] = r
  BY <1>1, AppendProperties
<1>3. \A i \in 1 .. Len(s) : s[i] \in S /\ s[i] < r
  BY ElementOfSeq DEF Ordered
<1> HIDE DEF t
<1>4. \A i, j \in 1 .. Len(t) : i < j => t[i] < t[j]
  <2> SUFFICES ASSUME NEW i \in 1 .. Len(t), NEW j \in 1 .. Len(t), i < j
               PROVE  t[i] < t[j]
    OBVIOUS
  <2>1. i \in 1 .. Len(s)
    BY <1>1, <1>2
  <2>2. CASE j = Len(s) + 1
    BY <1>2, <1>3, <2>1, <2>2
  <2>3. CASE j # Len(s) + 1
    <3>1. j \in 1 .. Len(s)
      BY <1>1, <1>2, <2>3
    <3> QED
      BY <1>2, <2>1, <3>1 DEF Ordered
  <2> QED
    BY <2>2, <2>3
<1>5. \A q \in S \cup {r} : \E i \in 1 .. Len(t) : t[i] = q
  <2> TAKE q \in S \cup {r}
  <2>1. CASE q = r
    BY <1>1, <1>2, <2>1
  <2>2. CASE q \in S
    <3>1. PICK i \in 1 .. Len(s) : s[i] = q
      BY <2>2 DEF Ordered
    <3> QED
      BY <1>1, <1>2, <3>1
  <2> QED
    BY <2>1, <2>2
<1>6. Ordered(t, S \cup {r})
  BY <1>2, <1>4, <1>5 DEF Ordered
<1> QED
  BY <1>6 DEF t

LEMMA OrderOfLess ==
  ASSUME NEW S \in SUBSET Nat, NEW s, Ordered(s, S), NEW r \in S, \A q \in S : r <= q
  PROVE  s # << >> /\ s[1] = r /\ Ordered(Tail(s), S \ {r})
<1>0. s \in Seq(S) /\ Len(s) \in Nat /\ \A i \in 1 .. Len(s) : s[i] \in S /\ s[i] \in Nat
  BY LenProperties, ElementOfSeq DEF Ordered
<1>1. PICK k \in 1 .. Len(s) : s[k] = r
  BY DEF Ordered
<1>2. s # << >> /\ 1 \in 1 .. Len(s)
  BY <1>0, <1>1, EmptySeq
<1>3. k = 1
  <2>1. 1 < k => s[1] < s[k]
    BY <1>2 DEF Ordered
  <2>2. r <= s[1]
    BY <1>0, <1>2
  <2> QED
    BY <1>0, <1>1, <1>2, <2>1, <2>2
<1> DEFINE t == Tail(s)
<1>4. /\ t \in Seq(S) /\ Len(t) = Len(s) - 1
      /\ \A i \in 1 .. Len(t) : t[i] = s[i + 1]
  BY <1>0, <1>2, HeadTailProperties
<1> HIDE DEF t
<1>5. \A i \in 1 .. Len(t) : t[i] \in S \ {r}
  <2> TAKE i \in 1 .. Len(t)
  <2>1. i + 1 \in 1 .. Len(s) /\ 1 < i + 1
    BY <1>0, <1>4
  <2>2. s[1] < s[i + 1]
    BY <1>2, <2>1 DEF Ordered
  <2> QED
    BY <1>0, <1>1, <1>3, <1>4, <2>1, <2>2
<1>6. t \in Seq(S \ {r})
  <2>1. Len(t) \in Nat /\ t \in [1 .. Len(t) -> S]
    BY <1>4, LenProperties
  <2>2. t \in [1 .. Len(t) -> S \ {r}]
    BY <1>5, <2>1
  <2> QED
    BY <2>1, <2>2, SeqDef
<1>7. \A i, j \in 1 .. Len(t) : i < j => t[i] < t[j]
  <2> TAKE i, j \in 1 .. Len(t)
  <2>1. i + 1 \in 1 .. Len(s) /\ j + 1 \in 1 .. Len(s)
    BY <1>0, <1>4
  <2>2. i < j => s[i + 1] < s[j + 1]
    BY <2>1 DEF Ordered
  <2> QED
    BY <1>4, <2>2
<1>8. \A q \in S \ {r} : \E i \in 1 .. Len(t) : t[i] = q
  <2> TAKE q \in S \ {r}
  <2>1. PICK i \in 1 .. Len(s) : s[i] = q
    BY DEF Ordered
  <2>2. i # 1
    BY <1>1, <1>3, <2>1
  <2>3. i - 1 \in 1 .. Len(t) /\ (i - 1) + 1 = i
    BY <1>0, <1>4, <2>2
  <2>4. t[i - 1] = q
    BY <1>4, <2>1, <2>3
  <2> QED
    BY <2>3, <2>4
<1>9. Ordered(t, S \ {r})
  BY <1>6, <1>7, <1>8 DEF Ordered
<1> QED
  BY <1>1, <1>2, <1>3, <1>9 DEF t

\* The feed of the handler: what it has been shown is not on the list any
\* more, and what it has yet to see has an order.
FeedInv ==
  /\ page \cap rest = {}
  /\ pc \in {"open", "watch"} => page = {} /\ rest = {}
  /\ \A u \in Uids :
       Ordered(InOrder(ChangesAfter(u, position)), ChangesAfter(u, position))

Happening ==
  [uid : Uids \cup {NoUid}, action : {"Add", "Update", "Delete"},
   hash : Hashes \cup {Unborn, Gone}]

\* The revisions that are events of some object.
Changing == {r \in 2 .. Newest : revisions[r].uid \in Uids}

LEMMA EventType ==
  ASSUME TypeOK, NEW r \in Changing
  PROVE  EventAt(r) \in Happening
<1>1. /\ Newest \in Nat /\ r \in 1 .. Newest /\ r - 1 \in 1 .. Newest
      /\ revisions[r].uid \in Uids
  BY Positions DEF Changing
<1>2. revisions[r].state \in State /\ revisions[r - 1].state \in State
  BY <1>1, Positions
<1> DEFINE u == revisions[r].uid
<1>3. /\ revisions[r].state[u] \in Hashes \cup {Unborn, Gone}
      /\ revisions[r - 1].state[u] \in Hashes \cup {Unborn, Gone}
  BY <1>1, <1>2 DEF State
<1> QED
  BY <1>1, <1>3 DEF EventAt, Happening

LEMMA Changes ==
  ASSUME TypeOK, NEW u \in Uids
  PROVE  /\ ChangesAfter(u, position) \in SUBSET Nat
         /\ ChangesAfter(u, position) \subseteq Changing
BY Positions DEF TypeOK, ChangesAfter, Changing

\* A function on 1 .. n is a sequence of length n.
LEMMA SequenceOfFunction ==
  ASSUME NEW n \in Nat, NEW H, NEW f \in [1 .. n -> H]
  PROVE  f \in Seq(H) /\ Len(f) = n
<1>1. f \in Seq(H)
  BY SeqDef
<1>2. Len(f) \in Nat /\ DOMAIN f = 1 .. Len(f)
  BY <1>1, LenProperties
<1>3. 1 .. Len(f) = 1 .. n
  BY <1>2
<1>4. Len(f) >= 1 => Len(f) \in 1 .. n
  <2>1. Len(f) >= 1 => Len(f) \in 1 .. Len(f)
    BY <1>2
  <2> QED
    BY <1>3, <2>1, Zenon
<1>5. n >= 1 => n \in 1 .. Len(f)
  <2>1. n >= 1 => n \in 1 .. n
    OBVIOUS
  <2> QED
    BY <1>3, <2>1, Zenon
<1>6. Len(f) = n
  BY <1>2, <1>4, <1>5
<1> QED
  BY <1>1, <1>6

\* The events of an order are a sequence of the same length.
LEMMA EventsOfOrder ==
  ASSUME TypeOK, NEW s \in Seq(Changing)
  PROVE  LET events == [i \in DOMAIN s |-> EventAt(s[i])]
         IN  /\ events \in [1 .. Len(s) -> Happening]
             /\ events \in Seq(Happening) /\ Len(events) = Len(s)
             /\ \A i \in 1 .. Len(s) : events[i] = EventAt(s[i])
<1> DEFINE events == [i \in DOMAIN s |-> EventAt(s[i])]
<1>1. Len(s) \in Nat /\ DOMAIN s = 1 .. Len(s)
  BY LenProperties
<1>2. \A i \in 1 .. Len(s) : EventAt(s[i]) \in Happening
  BY ElementOfSeq, EventType
<1>3. events \in [1 .. Len(s) -> Happening]
  BY <1>1, <1>2
<1>4. \A i \in 1 .. Len(s) : events[i] = EventAt(s[i])
  BY <1>1
<1> HIDE DEF events
<1>5. events \in Seq(Happening) /\ Len(events) = Len(s)
  BY <1>1, <1>3, SequenceOfFunction
<1> QED
  BY <1>3, <1>4, <1>5 DEF events

LEMMA ComingType ==
  ASSUME TypeOK, FeedInv, NEW u \in Uids
  PROVE  /\ InOrder(ChangesAfter(u, position)) \in Seq(Changing)
         /\ EventsAfter(u, position) \in Seq(Happening)
         /\ Listed(u) \in Seq(Happening)
<1> DEFINE C == ChangesAfter(u, position)
<1>0. InOrder(C) \in Seq(C) /\ C \subseteq Changing
  BY Changes DEF FeedInv, Ordered
<1>1. InOrder(C) \in Seq(Changing)
  <2> HIDE DEF C
  <2> QED
    BY <1>0, SeqMonotonic
<1>2. EventsAfter(u, position) \in Seq(Happening)
  BY <1>1, EventsOfOrder DEF EventsAfter
<1>3. Listed(u) \in Seq(Happening)
  <2>1. [uid |-> u, action |-> "Add", hash |-> revisions[position].state[u]] \in Happening
    <3>1. position \in 1 .. Newest
      BY DEF TypeOK
    <3>2. revisions[position].state[u] \in Hashes \cup {Unborn, Gone}
      BY <3>1, Positions DEF State
    <3> QED
      BY <3>2 DEF Happening
  <2> QED
    BY <2>1, EmptySeq DEF Listed
<1> QED
  BY <1>1, <1>2, <1>3

LEMMA FeedInit ==
  ASSUME Init
  PROVE  FeedInv /\ F!Init
<1>1. TypeOK /\ Newest = 1
  <2>1. IInv
    BY InitInv
  <2>2. revisions \in [1 .. 1 -> [uid : {NoUid}, state : [Uids -> Hashes \cup {Unborn}]]]
    BY DEF Init
  <2>3. Newest = 1
    <3>1. DOMAIN revisions = 1 .. Len(revisions) /\ Len(revisions) \in Nat
      BY <2>1, LenProperties DEF IInv, TypeOK
    <3>2. Len(revisions) \in DOMAIN revisions
      BY <2>1, <3>1, Positions DEF IInv, Newest
    <3> QED
      BY <2>2, <3>2 DEF Newest
  <2> QED
    BY <2>1, <2>3 DEF IInv
<1>2. position = 1 /\ page = {} /\ rest = Existing(1)
  BY DEF Init
<1>3. \A u \in Uids : ChangesAfter(u, position) = {}
  BY <1>1, <1>2 DEF ChangesAfter
<1>4. InOrder({}) = << >>
  BY OrderOfNone, InOrderIs
<1>5. FeedInv
  BY <1>2, <1>3, <1>4, OrderOfNone DEF FeedInv, Init
<1>6. \A u \in Uids : EventsAfter(u, position) = << >>
  BY <1>3, <1>4 DEF EventsAfter
<1>7. \A u \in Uids : Listed(u) = F!Listing(u)
  BY <1>1, <1>2 DEF Listed, F!Listing, Existing, live
<1>8. \A u \in Uids : Listed(u) \o EventsAfter(u, position) = F!Listing(u)
  BY <1>1, <1>5, <1>6, <1>7, ComingType, ConcatEmptySeq
<1>9. live \in [Uids -> Hashes \cup {Unborn, Gone}]
  BY <1>1, Positions DEF State
<1> QED
  BY <1>5, <1>8, <1>9 DEF F!Init, ToCome

\* A revision more is one event more of its object.
Occurrence(u, before, after) ==
  [uid    |-> u,
   action |-> IF after = Gone THEN "Delete"
              ELSE IF before = Unborn THEN "Add" ELSE "Update",
   hash   |-> IF after = Gone THEN before ELSE after]

LEMMA CommitFeed ==
  ASSUME IInv, FeedInv, NEW uid \in Uids \cup {NoUid}, NEW state \in State,
         Commit(uid, state),
         \A u \in Uids : u # uid => state[u] = live[u],
         \A u \in Uids : state[u] = Unborn => live[u] = Unborn
  PROVE  /\ FeedInv' /\ live' = state
         /\ \A u \in Uids : u # uid => ToCome'[u] = ToCome[u]
         /\ uid \in Uids =>
              ToCome'[uid] = Append(ToCome[uid], Occurrence(uid, live[uid], state[uid]))
<1> DEFINE new  == [uid |-> uid, state |-> state]
           C(u) == ChangesAfter(u, position)
<1>1. TypeOK /\ Newest \in Nat /\ Newest >= 1 /\ revisions \in Seq(Revision)
  BY Positions DEF IInv, TypeOK, Revision
<1>0. PICK n \in Nat : n = Newest + 1
  BY <1>1
<1>2. new \in Revision
  BY DEF Revision
<1>3. /\ revisions' = Append(revisions, new)
      /\ UNCHANGED <<pc, page, rest, position>>
  BY DEF Commit, loop
<1> HIDE DEF new
<1>4. /\ Newest' = n
      /\ \A r \in 1 .. Newest : revisions'[r] = revisions[r]
      /\ revisions'[n] = new
  BY <1>0, <1>1, <1>2, <1>3, AppendProperties DEF Newest
<1>5. new.uid = uid /\ new.state = state
  BY DEF new
<1>6. live' = state
  BY <1>0, <1>4, <1>5 DEF live
<1>7. position \in 1 .. Newest
  BY <1>0, <1>1 DEF TypeOK
<1>8. \A u \in Uids : ChangesAfter(u, position)' = IF u = uid THEN C(u) \cup {n} ELSE C(u)
  <2> TAKE u \in Uids
  <2>1. ChangesAfter(u, position)' = {r \in (position + 1) .. n : revisions'[r].uid = u}
    BY <1>3, <1>4 DEF ChangesAfter
  <2>2. (position + 1) .. n = ((position + 1) .. Newest) \cup {n}
    BY <1>0, <1>1, <1>7
  <2>3. \A r \in (position + 1) .. Newest : revisions'[r] = revisions[r]
    BY <1>0, <1>1, <1>4, <1>7
  <2> QED
    BY <1>0, <1>4, <1>5, <2>1, <2>2, <2>3 DEF ChangesAfter
<1>9. \A u \in Uids :
        /\ Ordered(InOrder(C(u)), C(u)) /\ C(u) \in SUBSET Nat
        /\ \A q \in C(u) : q < n
  <2> TAKE u \in Uids
  <2>1. \A q \in C(u) : q \in 2 .. Newest
    BY <1>0, <1>1, Changes DEF Changing
  <2> QED
    BY <1>0, <1>1, <2>1, Changes DEF FeedInv
<1>10. ASSUME NEW u \in Uids, u = uid
       PROVE  /\ Ordered(Append(InOrder(C(u)), n), C(u) \cup {n})
              /\ InOrder(C(u) \cup {n}) = Append(InOrder(C(u)), n)
  <2> HIDE DEF C
  <2>1. n \in Nat
    BY <1>0, <1>1
  <2>2. Ordered(Append(InOrder(C(u)), n), C(u) \cup {n})
    BY <1>9, <2>1, OrderOfMore
  <2>3. C(u) \cup {n} \in SUBSET Nat
    BY <1>9, <2>1
  <2> QED
    BY <2>2, <2>3, InOrderIs
<1>11. FeedInv'
  <2>1. \A u \in Uids : Ordered(InOrder(ChangesAfter(u, position)'), ChangesAfter(u, position)')
    <3> TAKE u \in Uids
    <3>1. CASE u = uid
      BY <1>8, <1>10, <3>1
    <3>2. CASE u # uid
      BY <1>8, <1>9, <3>2
    <3> QED
      BY <3>1, <3>2
  <2> QED
    BY <1>3, <2>1 DEF FeedInv
<1>12. \A r \in Changing : EventAt(r)' = EventAt(r)
  <2> TAKE r \in Changing
  <2>1. r \in 1 .. Newest /\ r - 1 \in 1 .. Newest
    BY <1>0, <1>1 DEF Changing
  <2> QED
    BY <1>0, <1>4, <2>1 DEF EventAt
<1>13. \A u \in Uids : Listed(u)' = Listed(u)
  BY <1>3, <1>4, <1>7 DEF Listed
<1>14. ASSUME NEW u \in Uids, u # uid
       PROVE  EventsAfter(u, position)' = EventsAfter(u, position)
  <2>1. PICK s : s = InOrder(C(u))
    OBVIOUS
  <2>2. s \in Seq(Changing) /\ DOMAIN s = 1 .. Len(s)
    BY <1>0, <1>1, <2>1, ComingType, LenProperties
  <2>3. \A i \in DOMAIN s : s[i] \in Changing
    BY <2>2, ElementOfSeq
  <2>4. \A i \in DOMAIN s : EventAt(s[i])' = EventAt(s[i])
    BY <1>12, <2>3
  <2>5. EventsAfter(u, position)' = [i \in DOMAIN s |-> EventAt(s[i])']
    BY <1>8, <1>14, <2>1 DEF EventsAfter
  <2>6. EventsAfter(u, position) = [i \in DOMAIN s |-> EventAt(s[i])]
    BY <2>1 DEF EventsAfter
  <2> QED
    BY <2>4, <2>5, <2>6
<1>15. ASSUME uid \in Uids
       PROVE  EventsAfter(uid, position)'
                = Append(EventsAfter(uid, position), Occurrence(uid, live[uid], state[uid]))
  <2> DEFINE e == Occurrence(uid, live[uid], state[uid])
             events == EventsAfter(uid, position)
  <2>1. PICK s : s = InOrder(C(uid))
    OBVIOUS
  <2>2. s \in Seq(Changing) /\ DOMAIN s = 1 .. Len(s) /\ Len(s) \in Nat
    BY <1>0, <1>1, <1>15, <2>1, ComingType, LenProperties
  <2>3. \A i \in DOMAIN s : s[i] \in Changing /\ EventAt(s[i])' = EventAt(s[i])
    BY <1>12, <2>2, ElementOfSeq
  <2>4. events = [i \in DOMAIN s |-> EventAt(s[i])]
    BY <2>1 DEF EventsAfter
  <2>5. events \in Seq(Happening) /\ Len(events) = Len(s)
    BY <1>0, <1>1, <2>2, <2>4, EventsOfOrder
  <2>6. e \in Happening
    <3>1. state[uid] \in Hashes \cup {Unborn, Gone} /\ live[uid] \in Hashes \cup {Unborn, Gone}
      BY <1>0, <1>1, <1>15, Positions DEF State
    <3> QED
      BY <1>15, <3>1 DEF Occurrence, Happening
  <2>7. EventAt(n)' = e
    <3>1. revisions'[n] = new /\ revisions'[n - 1] = revisions[Newest]
      BY <1>0, <1>1, <1>4
    <3> QED
      BY <1>5, <3>1 DEF EventAt, Occurrence, live
  <2>8. PICK t : t = Append(s, n)
    OBVIOUS
  <2>9. DOMAIN t = 1 .. (Len(s) + 1) /\ (\A i \in DOMAIN s : t[i] = s[i]) /\ t[Len(s) + 1] = n
    <3>1. s \in Seq(Nat) /\ n \in Nat
      <4>1. Changing \subseteq Nat
        BY <1>0, <1>1 DEF Changing
      <4> QED
        BY <1>0, <1>1, <2>2, <4>1, SeqMonotonic
    <3>2. /\ t \in Seq(Nat) /\ Len(t) = Len(s) + 1
          /\ \A i \in 1 .. Len(s) : t[i] = s[i]
          /\ t[Len(s) + 1] = n
      BY <2>8, <3>1, AppendProperties
    <3> QED
      BY <2>2, <3>2, LenProperties
  <2>10. EventsAfter(uid, position)' = [i \in DOMAIN t |-> EventAt(t[i])']
    <3>1. InOrder(ChangesAfter(uid, position)') = t
      BY <1>8, <1>10, <1>15, <2>1, <2>8
    <3> QED
      BY <3>1 DEF EventsAfter
  <2>11. /\ Append(events, e) \in [1 .. (Len(s) + 1) -> Happening]
         /\ \A i \in 1 .. Len(s) : Append(events, e)[i] = events[i]
         /\ Append(events, e)[Len(s) + 1] = e
    <3> HIDE DEF e, events
    <3>1. /\ Append(events, e) \in Seq(Happening)
          /\ Len(Append(events, e)) = Len(s) + 1
          /\ \A i \in 1 .. Len(s) : Append(events, e)[i] = events[i]
          /\ Append(events, e)[Len(s) + 1] = e
      BY <2>5, <2>6, AppendProperties
    <3> QED
      BY <3>1, LenProperties
  <2>12. \A i \in 1 .. (Len(s) + 1) : EventAt(t[i])' = Append(events, e)[i]
    <3> TAKE i \in 1 .. (Len(s) + 1)
    <3>1. CASE i = Len(s) + 1
      BY <2>7, <2>9, <2>11, <3>1
    <3>2. CASE i # Len(s) + 1
      <4>1. i \in 1 .. Len(s)
        BY <2>2, <3>2
      <4>2. t[i] = s[i] /\ events[i] = EventAt(s[i])
        BY <2>2, <2>4, <2>9, <4>1
      <4> QED
        BY <2>2, <2>3, <2>11, <4>1, <4>2
    <3> QED
      BY <3>1, <3>2
  <2> HIDE DEF e, events
  <2>13. [i \in DOMAIN t |-> EventAt(t[i])'] = Append(events, e)
    BY <2>9, <2>11, <2>12
  <2> QED
    BY <2>10, <2>13 DEF e, events
<1>16. \A u \in Uids : u # uid => ToCome'[u] = ToCome[u]
  BY <1>13, <1>14 DEF ToCome
<1>17. ASSUME uid \in Uids
       PROVE  ToCome'[uid] = Append(ToCome[uid], Occurrence(uid, live[uid], state[uid]))
  <2> DEFINE e == Occurrence(uid, live[uid], state[uid])
  <2>1. EventsAfter(uid, position) \in Seq(Happening) /\ Listed(uid) \in Seq(Happening)
    BY <1>0, <1>1, <1>17, ComingType
  <2>2. e \in Happening
    <3>1. state[uid] \in Hashes \cup {Unborn, Gone} /\ live[uid] \in Hashes \cup {Unborn, Gone}
      BY <1>0, <1>1, <1>17, Positions DEF State
    <3> QED
      BY <1>17, <3>1 DEF Occurrence, Happening
  <2>3. /\ ToCome'[uid] = Listed(uid)' \o EventsAfter(uid, position)'
        /\ ToCome[uid] = Listed(uid) \o EventsAfter(uid, position)
    BY <1>17 DEF ToCome
  <2> HIDE DEF e
  <2>4. Listed(uid) \o Append(EventsAfter(uid, position), e)
          = Append(Listed(uid) \o EventsAfter(uid, position), e)
    <3> DEFINE a == Listed(uid)
               b == EventsAfter(uid, position)
    <3> HIDE DEF a, b
    <3>0. a \in Seq(Happening) /\ b \in Seq(Happening) /\ <<e>> \in Seq(Happening)
      BY <2>1, <2>2 DEF a, b
    <3>1. a \o b \in Seq(Happening)
      BY <3>0, ConcatProperties
    <3>2. Append(b, e) = b \o <<e>> /\ Append(a \o b, e) = (a \o b) \o <<e>>
      BY <2>2, <3>0, <3>1, AppendIsConcat
    <3>3. a \o (b \o <<e>>) = (a \o b) \o <<e>>
      BY <3>0, ConcatAssociative
    <3> QED
      BY <3>2, <3>3 DEF a, b
  <2> QED
    BY <1>13, <1>15, <1>17, <2>3, <2>4 DEF e
<1> QED
  BY <1>6, <1>11, <1>16, <1>17

LEMMA ToComeFunction ==
  /\ ToCome = [u \in Uids |-> ToCome[u]]
  /\ ToCome' = [u \in Uids |-> ToCome'[u]]
BY DEF ToCome

\* Steps that leave what the feed is made of alone leave it alone.
LEMMA SameFeed ==
  ASSUME FeedInv, UNCHANGED <<revisions, position>>, page' \cup rest' = page \cup rest
  PROVE  UNCHANGED <<live, ToCome>>
<1>1. Newest' = Newest /\ live' = live
  BY DEF Newest, live
<1>2. \A u \in Uids : ChangesAfter(u, position)' = ChangesAfter(u, position)
  BY <1>1 DEF ChangesAfter
<1>3. \A u \in Uids : EventsAfter(u, position)' = EventsAfter(u, position)
  BY <1>2 DEF EventsAfter, EventAt
<1>4. \A u \in Uids : Listed(u)' = Listed(u)
  BY DEF Listed
<1> QED
  BY <1>1, <1>3, <1>4 DEF ToCome

\* The order of what is to come stays with it.
LEMMA SameOrder ==
  ASSUME FeedInv, UNCHANGED <<revisions, position>>
  PROVE  \A u \in Uids :
           Ordered(InOrder(ChangesAfter(u, position)'), ChangesAfter(u, position)')
<1>1. Newest' = Newest
  BY DEF Newest
<1>2. \A u \in Uids : ChangesAfter(u, position)' = ChangesAfter(u, position)
  BY <1>1 DEF ChangesAfter
<1> QED
  BY <1>2 DEF FeedInv

LEMMA ServerFeed ==
  ASSUME IInv, FeedInv, Server
  PROVE  FeedInv' /\ [F!Next]_(F!vars)
<1>1. live \in State /\ Gone \notin Hashes /\ Unborn \notin Hashes /\ Gone # Unborn
  BY Positions, ConstantsAssumption DEF IInv, ConstantsAssumption
<1>2. ASSUME NEW u \in Uids, Delete(u)
      PROVE  FeedInv' /\ F!Next
  <2> DEFINE state == [live EXCEPT ![u] = Gone]
  <2>1. /\ state \in State /\ state[u] = Gone
        /\ \A v \in Uids : v # u => state[v] = live[v]
        /\ \A v \in Uids : state[v] = Unborn => live[v] = Unborn
    BY <1>1 DEF State
  <2>2. Commit(u, state) /\ live[u] \in Hashes
    BY <1>2 DEF Delete
  <2>3. live' = state
    BY <2>1, <2>2, CommitFeed
  <2> HIDE DEF state
  <2>4. /\ FeedInv'
        /\ \A v \in Uids : v # u => ToCome'[v] = ToCome[v]
        /\ ToCome'[u] = Append(ToCome[u], Occurrence(u, live[u], state[u]))
    BY <2>1, <2>2, CommitFeed
  <2>5. Occurrence(u, live[u], state[u]) = [uid |-> u, action |-> "Delete", hash |-> live[u]]
    BY <2>1 DEF Occurrence
  <2>6. F!Append1(u, "Delete", live[u])
    BY <2>4, <2>5, ToComeFunction DEF F!Append1
  <2>7. F!Delete(u)
    BY <2>2, <2>3, <2>6 DEF F!Delete, state
  <2> QED
    BY <2>4, <2>7 DEF F!Next
<1>3. ASSUME NEW u \in Uids, NEW h \in Hashes, Change(u, h)
      PROVE  FeedInv' /\ F!Next
  <2> DEFINE state == [live EXCEPT ![u] = h]
  <2>1. /\ state \in State /\ state[u] = h
        /\ \A v \in Uids : v # u => state[v] = live[v]
        /\ \A v \in Uids : state[v] = Unborn => live[v] = Unborn
    BY <1>1 DEF State
  <2>2. Commit(u, state) /\ live[u] # Gone
    BY <1>3 DEF Change
  <2>3. live' = state
    BY <2>1, <2>2, CommitFeed
  <2> HIDE DEF state
  <2>4. /\ FeedInv'
        /\ \A v \in Uids : v # u => ToCome'[v] = ToCome[v]
        /\ ToCome'[u] = Append(ToCome[u], Occurrence(u, live[u], state[u]))
    BY <2>1, <2>2, CommitFeed
  <2> DEFINE action == IF live[u] = Unborn THEN "Add" ELSE "Update"
  <2>5. Occurrence(u, live[u], state[u]) = [uid |-> u, action |-> action, hash |-> h]
    BY <1>1, <2>1 DEF Occurrence
  <2>6. F!Append1(u, action, h)
    BY <2>4, <2>5, ToComeFunction DEF F!Append1
  <2>7. F!Change(u, h)
    BY <2>2, <2>3, <2>6 DEF F!Change, state
  <2> QED
    BY <2>4, <2>7 DEF F!Next
<1>4. ASSUME OtherKind
      PROVE  FeedInv' /\ UNCHANGED <<live, ToCome>>
  <2>1. Commit(NoUid, live) /\ NoUid \in Uids \cup {NoUid}
    BY <1>4 DEF OtherKind
  <2>2. /\ FeedInv' /\ live' = live
        /\ \A v \in Uids : v # NoUid => ToCome'[v] = ToCome[v]
    BY <1>1, <2>1, CommitFeed
  <2> QED
    BY <2>2, ToComeFunction, ConstantsAssumption DEF ConstantsAssumption
<1>5. ASSUME NEW r \in 1 .. MaxRevisions, Compact(r)
      PROVE  FeedInv' /\ UNCHANGED <<live, ToCome>>
  <2>1. UNCHANGED <<revisions, pc, page, rest, position>>
    BY <1>5 DEF Compact, loop
  <2> QED
    BY <2>1, SameFeed, SameOrder DEF FeedInv
<1> QED
  BY <1>2, <1>3, <1>4, <1>5 DEF Server, F!vars

\* A list makes the feed anew.
LEMMA ListFeed ==
  ASSUME IInv, FeedInv, List
  PROVE  FeedInv' /\ F!Next
<1>1. TypeOK /\ Newest \in Nat
  BY Positions DEF IInv
<1>2. /\ UNCHANGED revisions /\ position' = Newest /\ pc' = "items"
      /\ page' \in SUBSET Existing(Newest) /\ rest' = Existing(Newest) \ page'
  BY DEF List, server, Page
<1>3. Newest' = Newest /\ live' = live
  BY <1>2 DEF Newest, live
<1>4. \A u \in Uids : ChangesAfter(u, position)' = {}
  BY <1>1, <1>2, <1>3 DEF ChangesAfter
<1>5. InOrder({}) = << >>
  BY OrderOfNone, InOrderIs
<1>6. \A u \in Uids : EventsAfter(u, position)' = << >>
  BY <1>4, <1>5 DEF EventsAfter
<1>7. \A u \in Uids : Listed(u)' = F!Listing(u)
  <2> TAKE u \in Uids
  <2>1. u \in page' \cup rest' <=> live[u] \in Hashes
    BY <1>2 DEF Existing, live
  <2>2. revisions'[position'].state[u] = live[u]
    BY <1>2 DEF live
  <2>3. CASE live[u] \in Hashes
    BY <2>1, <2>2, <2>3 DEF Listed, F!Listing
  <2>4. CASE live[u] \notin Hashes
    BY <2>1, <2>4 DEF Listed, F!Listing
  <2> QED
    BY <2>3, <2>4
<1>8. \A u \in Uids : F!Listing(u) \in Seq(Happening)
  <2> TAKE u \in Uids
  <2>1. CASE live[u] \in Hashes
    <3>1. [uid |-> u, action |-> "Add", hash |-> live[u]] \in Happening
      BY <2>1 DEF Happening
    <3> QED
      BY <2>1, <3>1 DEF F!Listing
  <2>2. CASE live[u] \notin Hashes
    BY <2>2, EmptySeq DEF F!Listing
  <2> QED
    BY <2>1, <2>2
<1>9. \A u \in Uids : F!Listing(u) \o << >> = F!Listing(u)
  BY <1>8, ConcatEmptySeq
<1>10. ToCome' = [u \in Uids |-> F!Listing(u)]
  BY <1>6, <1>7, <1>9 DEF ToCome
<1>11. F!Relist(Uids)
  BY <1>3, <1>10 DEF F!Relist
<1>12. FeedInv'
  <2>1. \A u \in Uids :
          Ordered(InOrder(ChangesAfter(u, position)'), ChangesAfter(u, position)')
    BY <1>4, <1>5, OrderOfNone
  <2> QED
    BY <1>2, <2>1 DEF FeedInv
<1>13. Uids \in SUBSET Uids
  OBVIOUS
<1> QED
  BY <1>11, <1>12, <1>13 DEF F!Next

\* An item of a list is the one event its object has from it.
LEMMA ItemFeed ==
  ASSUME IInv, FeedInv, NEW u \in Uids, Item(u)
  PROVE  FeedInv' /\ F!Next
<1>1. TypeOK
  BY DEF IInv
<1>2. /\ UNCHANGED <<revisions, pc, rest, position>> /\ page' = page \ {u}
      /\ pc = "items" /\ u \in page /\ u \notin rest
  BY DEF Item, server, FeedInv
<1>3. FeedInv'
  BY <1>2, SameOrder DEF FeedInv
<1>4. Newest' = Newest /\ live' = live
  BY <1>2 DEF Newest, live
<1>5. \A v \in Uids : EventsAfter(v, position)' = EventsAfter(v, position)
  <2>1. \A v \in Uids : ChangesAfter(v, position)' = ChangesAfter(v, position)
    BY <1>2, <1>4 DEF ChangesAfter
  <2> QED
    BY <1>2, <2>1 DEF EventsAfter, EventAt
<1>6. \A v \in Uids : v # u => Listed(v)' = Listed(v)
  BY <1>2 DEF Listed
<1> DEFINE e == [uid |-> u, action |-> "Add", hash |-> revisions[position].state[u]]
<1>7. Listed(u) = <<e>> /\ Listed(u)' = << >>
  BY <1>2 DEF Listed
<1>8. PICK es : es = EventsAfter(u, position)
  OBVIOUS
<1>9. es \in Seq(Happening) /\ <<e>> \in Seq(Happening)
  BY <1>1, <1>7, <1>8, ComingType
<1>10. ToCome[u] = <<e>> \o es /\ ToCome'[u] = << >> \o es
  BY <1>5, <1>7, <1>8 DEF ToCome
<1> HIDE DEF e
<1>11. ToCome[u] # << >> /\ ToCome'[u] = Tail(ToCome[u])
  <2>1. << >> \o es = es
    BY <1>9, ConcatEmptySeq
  <2>2. /\ <<e>> \o es \in Seq(Happening) /\ Len(<<e>> \o es) = 1 + Len(es)
        /\ \A i \in 1 .. (1 + Len(es)) :
             (<<e>> \o es)[i] = IF i <= 1 THEN <<e>>[i] ELSE es[i - 1]
    BY <1>9, ConcatProperties
  <2>3. PICK all : all = <<e>> \o es
    OBVIOUS
  <2>4. Len(es) \in Nat
    BY <1>9, LenProperties
  <2>5. all # << >>
    BY <2>2, <2>3, <2>4, EmptySeq
  <2>6. /\ Tail(all) \in Seq(Happening) /\ Len(Tail(all)) = Len(es)
        /\ \A i \in 1 .. Len(es) : Tail(all)[i] = all[i + 1]
    BY <2>2, <2>3, <2>4, <2>5, HeadTailProperties
  <2>7. \A i \in 1 .. Len(es) : Tail(all)[i] = es[i]
    BY <2>2, <2>3, <2>4, <2>6
  <2>8. Tail(all) = es
    BY <1>9, <2>6, <2>7, SeqEqual
  <2> QED
    BY <1>10, <2>1, <2>3, <2>5, <2>8
<1>12. \A v \in Uids : v # u => ToCome'[v] = ToCome[v]
  BY <1>5, <1>6 DEF ToCome
<1>13. F!Handle(u)
  BY <1>4, <1>11, <1>12, ToComeFunction DEF F!Handle
<1> QED
  BY <1>3, <1>13 DEF F!Next

\* While the loop watches, the feed is what happened after its version.
LEMMA WatchingFeed ==
  ASSUME IInv, FeedInv, pc = "watch", UNCHANGED <<revisions, pc, page, rest>>,
         NEW r \in (resourceVersion + 1) .. Newest, position' = r,
         NEW u \in Uids,
         \A q \in (resourceVersion + 1) .. r : revisions[q].uid # u
  PROVE  /\ ChangesAfter(u, position)' = ChangesAfter(u, position)
         /\ ToCome'[u] = ToCome[u]
<1>1. TypeOK /\ Newest \in Nat /\ resourceVersion = position /\ position \in Nat
  BY Positions DEF IInv, PositionInv, TypeOK
<1>2. Newest' = Newest
  BY DEF Newest
<1>3. ChangesAfter(u, position)' = {q \in (r + 1) .. Newest : revisions[q].uid = u}
  BY <1>2 DEF ChangesAfter
<1>4. ChangesAfter(u, position)' = ChangesAfter(u, position)
  <2>1. (position + 1) .. Newest = ((position + 1) .. r) \cup ((r + 1) .. Newest)
    BY <1>1
  <2> QED
    BY <1>1, <1>3, <2>1 DEF ChangesAfter
<1>5. EventsAfter(u, position)' = EventsAfter(u, position)
  BY <1>4 DEF EventsAfter, EventAt
<1>6. Listed(u)' = << >> /\ Listed(u) = << >>
  BY DEF Listed, FeedInv
<1> QED
  BY <1>4, <1>5, <1>6 DEF ToCome

LEMMA BookmarkFeed ==
  ASSUME IInv, FeedInv, Bookmark
  PROVE  FeedInv' /\ UNCHANGED <<live, ToCome>>
<1>1. PICK r \in (resourceVersion + 1) .. Newest :
        /\ \A q \in (resourceVersion + 1) .. r : revisions[q].uid = NoUid
        /\ position' = r
  BY DEF Bookmark
<1>2. pc = "watch" /\ UNCHANGED <<revisions, pc, page, rest>>
  BY DEF Bookmark, server
<1>3. \A u \in Uids : u # NoUid
  BY ConstantsAssumption DEF ConstantsAssumption
<1>4. \A u \in Uids : /\ ChangesAfter(u, position)' = ChangesAfter(u, position)
                      /\ ToCome'[u] = ToCome[u]
  <2> TAKE u \in Uids
  <2>1. \A q \in (resourceVersion + 1) .. r : revisions[q].uid # u
    BY <1>1, <1>3
  <2> QED
    BY <1>1, <1>2, <2>1, WatchingFeed
<1>5. FeedInv'
  BY <1>2, <1>4 DEF FeedInv
<1>6. live' = live
  BY <1>2 DEF live, Newest
<1> QED
  BY <1>4, <1>5, <1>6, ToComeFunction

\* An event is the first one of its object.
LEMMA EventFeed ==
  ASSUME IInv, FeedInv, Event
  PROVE  FeedInv' /\ F!Next
<1>1. TypeOK /\ Newest \in Nat /\ resourceVersion = position /\ position \in 1 .. Newest
  BY Positions DEF IInv, PositionInv, TypeOK, Event
<1>2. PICK r \in NextEvent : position' = r
  BY DEF Event
<1>3. /\ r \in (resourceVersion + 1) .. Newest /\ revisions[r].uid # NoUid
      /\ \A q \in (resourceVersion + 1) .. (r - 1) : revisions[q].uid = NoUid
  BY DEF NextEvent
<1>4. pc = "watch" /\ UNCHANGED <<revisions, pc, page, rest>>
  BY DEF Event, server
<1>5. PICK u \in Uids : u = revisions[r].uid
  <2>1. r \in 1 .. Newest
    BY <1>1, <1>3
  <2> QED
    BY <1>1, <1>3, <2>1, Positions
<1>6. \A v \in Uids : v # NoUid
  BY ConstantsAssumption DEF ConstantsAssumption
<1>7. \A v \in Uids : v # u => /\ ChangesAfter(v, position)' = ChangesAfter(v, position)
                              /\ ToCome'[v] = ToCome[v]
  <2> SUFFICES ASSUME NEW v \in Uids, v # u
               PROVE  /\ ChangesAfter(v, position)' = ChangesAfter(v, position)
                      /\ ToCome'[v] = ToCome[v]
    OBVIOUS
  <2>1. \A q \in (resourceVersion + 1) .. r : revisions[q].uid # v
    <3> TAKE q \in (resourceVersion + 1) .. r
    <3>1. q = r \/ q \in (resourceVersion + 1) .. (r - 1)
      BY <1>1, <1>3
    <3> QED
      BY <1>3, <1>5, <1>6, <3>1
  <2> QED
    BY <1>2, <1>3, <1>4, <2>1, WatchingFeed
<1>8. Newest' = Newest /\ live' = live
  BY <1>4 DEF Newest, live
<1>9. PICK C : C = ChangesAfter(u, position)
  OBVIOUS
<1>10. C \in SUBSET Nat /\ C \subseteq Changing /\ r \in C /\ \A q \in C : r <= q
  <2>1. C = {q \in (position + 1) .. Newest : revisions[q].uid = u}
    BY <1>9 DEF ChangesAfter
  <2>2. \A q \in C : r <= q
    <3> TAKE q \in C
    <3>1. q \in (position + 1) .. Newest /\ revisions[q].uid # NoUid
      BY <1>6, <2>1
    <3>2. q \notin (position + 1) .. (r - 1)
      BY <1>1, <1>3, <3>1
    <3> QED
      BY <1>1, <1>3, <3>1, <3>2
  <2> QED
    BY <1>1, <1>3, <1>5, <1>9, <2>1, <2>2, Changes
<1>11. ChangesAfter(u, position)' = C \ {r}
  <2>1. ChangesAfter(u, position)' = {q \in (r + 1) .. Newest : revisions[q].uid = u}
    BY <1>2, <1>4, <1>8 DEF ChangesAfter
  <2>2. C = {q \in (position + 1) .. Newest : revisions[q].uid = u}
    BY <1>9 DEF ChangesAfter
  <2>3. \A q \in C : q # r => q \in (r + 1) .. Newest
    BY <1>1, <1>3, <1>10, <2>2
  <2>4. \A q \in (r + 1) .. Newest : q \in (position + 1) .. Newest /\ q # r
    BY <1>1, <1>3
  <2> QED
    BY <2>1, <2>2, <2>3, <2>4
<1>12. PICK s : s = InOrder(C)
  OBVIOUS
<1>13. s # << >> /\ s[1] = r /\ Ordered(Tail(s), C \ {r})
  <2>1. Ordered(s, C)
    BY <1>9, <1>12 DEF FeedInv
  <2> QED
    BY <1>10, <2>1, OrderOfLess
<1>14. InOrder(C \ {r}) = Tail(s)
  BY <1>10, <1>13, InOrderIs
<1>15. FeedInv'
  <2>1. \A v \in Uids :
          Ordered(InOrder(ChangesAfter(v, position)'), ChangesAfter(v, position)')
    <3> TAKE v \in Uids
    <3>1. CASE v = u
      BY <1>11, <1>13, <1>14, <3>1
    <3>2. CASE v # u
      BY <1>7, <3>2 DEF FeedInv
    <3> QED
      BY <3>1, <3>2
  <2> QED
    BY <1>4, <2>1 DEF FeedInv
<1> DEFINE EventsOf(order) == [i \in DOMAIN order |-> EventAt(order[i])]
<1>16. PICK t : t = Tail(s)
  OBVIOUS
<1>17. EventsAfter(u, position) = EventsOf(s) /\ EventsAfter(u, position)' = EventsOf(t)
  <2>1. \A q : EventAt(q)' = EventAt(q)
    BY <1>4 DEF EventAt
  <2>2. InOrder(ChangesAfter(u, position)') = t
    BY <1>11, <1>14, <1>16
  <2>3. EventsAfter(u, position)' = [i \in DOMAIN t |-> EventAt(t[i])']
    BY <2>2 DEF EventsAfter
  <2> QED
    BY <1>9, <1>12, <2>1, <2>3 DEF EventsAfter
<1>18. s \in Seq(Changing) /\ t \in Seq(Changing) /\ Len(s) \in Nat /\ Len(t) = Len(s) - 1
       /\ \A i \in 1 .. Len(t) : t[i] = s[i + 1]
  <2>1. s \in Seq(Changing)
    BY <1>1, <1>9, <1>12, ComingType
  <2> QED
    BY <1>13, <1>16, <2>1, HeadTailProperties, LenProperties
<1>19. /\ EventsOf(s) \in Seq(Happening) /\ Len(EventsOf(s)) = Len(s)
       /\ \A i \in 1 .. Len(s) : EventsOf(s)[i] = EventAt(s[i])
       /\ EventsOf(t) \in Seq(Happening) /\ Len(EventsOf(t)) = Len(t)
       /\ \A i \in 1 .. Len(t) : EventsOf(t)[i] = EventAt(t[i])
  BY <1>1, <1>18, EventsOfOrder
<1>20. PICK before : before = EventsOf(s)
  OBVIOUS
<1>21. PICK after : after = EventsOf(t)
  OBVIOUS
<1> HIDE DEF EventsOf
<1>22. before # << >> /\ after = Tail(before)
  <2>1. Len(s) >= 1
    BY <1>13, <1>18, EmptySeq
  <2>2. before # << >>
    BY <1>19, <1>20, <2>1, EmptySeq
  <2>3. /\ Tail(before) \in Seq(Happening) /\ Len(Tail(before)) = Len(s) - 1
        /\ \A i \in 1 .. (Len(s) - 1) : Tail(before)[i] = before[i + 1]
    BY <1>19, <1>20, <2>2, HeadTailProperties
  <2>4. \A i \in 1 .. (Len(s) - 1) : after[i] = before[i + 1]
    <3> TAKE i \in 1 .. (Len(s) - 1)
    <3>1. i \in 1 .. Len(t) /\ i + 1 \in 1 .. Len(s)
      BY <1>18
    <3> QED
      BY <1>18, <1>19, <1>20, <1>21, <3>1
  <2>5. \A i \in 1 .. (Len(s) - 1) : after[i] = Tail(before)[i]
    BY <2>3, <2>4
  <2>6. after \in Seq(Happening) /\ Len(after) = Len(s) - 1
    BY <1>18, <1>19, <1>21
  <2>7. after = Tail(before)
    BY <2>3, <2>5, <2>6, SeqEqual
  <2> QED
    BY <2>2, <2>7
<1>23. ToCome[u] = before /\ ToCome'[u] = after
  <2>1. Listed(u) = << >> /\ Listed(u)' = << >>
    BY <1>4 DEF Listed, FeedInv
  <2>2. << >> \o before = before /\ << >> \o after = after
    BY <1>19, <1>20, <1>21, ConcatEmptySeq
  <2> QED
    BY <1>17, <1>20, <1>21, <2>1, <2>2 DEF ToCome
<1>24. F!Handle(u)
  BY <1>7, <1>8, <1>22, <1>23, ToComeFunction DEF F!Handle
<1> QED
  BY <1>15, <1>24 DEF F!Next

LEMMA FeedStep ==
  ASSUME IInv, FeedInv, [Next]_vars
  PROVE  FeedInv' /\ [F!Next]_(F!vars)
<1>1. CASE Server
  BY <1>1, ServerFeed
<1>2. CASE List
  BY <1>2, ListFeed
<1>3. CASE \E u \in Uids : Item(u)
  BY <1>3, ItemFeed
<1>4. CASE Event
  BY <1>4, EventFeed
<1>5. CASE Bookmark
  BY <1>5, BookmarkFeed DEF F!vars
<1>6. ASSUME \/ NextPage \/ ListEnd \/ ListFails
             \/ Watch \/ WatchFails \/ WatchEnds \/ UNCHANGED vars
      PROVE  FeedInv' /\ [F!Next]_(F!vars)
  <2>1. UNCHANGED <<revisions, position>>
    BY <1>6 DEF NextPage, ListEnd, ListFails, Watch, WatchFails, WatchEnds, ForceRelist,
                server, loop, vars
  <2>2. /\ page' \cup rest' = page \cup rest
        /\ page' \cap rest' = {}
        /\ pc' \in {"open", "watch"} => page' = {} /\ rest' = {}
    <3>1. CASE NextPage
      <4>1. /\ pc' = "items" /\ page = {} /\ page' \in SUBSET rest
            /\ rest' = rest \ page'
        BY <1>6, <3>1 DEF NextPage, Page
      <4> QED
        BY <4>1
    <3>2. CASE ListEnd
      BY <3>2 DEF ListEnd
    <3>3. CASE ListFails
      BY <3>3 DEF ListFails, FeedInv
    <3>4. CASE Watch \/ WatchFails \/ WatchEnds \/ UNCHANGED vars
      BY <3>4 DEF Watch, WatchFails, WatchEnds, ForceRelist, loop, vars, FeedInv
    <3> QED
      BY <1>6, <3>1, <3>2, <3>3, <3>4
  <2>3. FeedInv'
    BY <2>1, <2>2, SameOrder DEF FeedInv
  <2>4. UNCHANGED <<live, ToCome>>
    BY <2>1, <2>2, SameFeed
  <2> QED
    BY <2>3, <2>4 DEF F!vars
<1> QED
  BY <1>1, <1>2, <1>3, <1>4, <1>5, <1>6 DEF Next, Loop, Progress

\* The loop delivers every object's events in their order and loses none of
\* them but where a list starts: over pages, reconnects, bookmarks, compacted
\* revisions and failed calls it implements Feed.  (runNoCacheWatcher,
\* noCacheInitialList, noCacheWatch)
THEOREM LoopImplementsFeed == Spec => ImplementsFeed
<1>1. Init => FeedInv /\ F!Init
  BY FeedInit
<1>2. IInv /\ FeedInv /\ [Next]_vars => FeedInv' /\ [F!Next]_(F!vars)
  BY FeedStep
<1> QED
  BY <1>1, <1>2, Invariance, PTL DEF Spec, ImplementsFeed, F!Spec

\* A handler that is yet to be called for nothing knows how the object is, or
\* the object is gone.  (noCacheInitialList, noCacheWatch)
THEOREM NothingIsLost == Spec => []NothingLost
<1>0. ASSUME IInv, NEW u \in missed PROVE live[u] = Gone
  <2>1. /\ TypeOK /\ u \in Uids /\ Newest \in position .. Newest
        /\ position \in 1 .. Newest /\ revisions[position].state[u] = Gone
    BY <1>0, Positions DEF IInv, TypeOK, MissedInv
  <2> QED
    BY <1>0, <2>1, StaysGone DEF IInv, live
<1>1. IInv /\ FeedInv => NothingLost
  <2> SUFFICES ASSUME IInv, FeedInv, NEW u \in Uids, u \notin missed, ToCome[u] = << >>
               PROVE  Exists(Known(u)) = Exists(live[u])
    BY <1>0 DEF NothingLost
  <2> DEFINE C       == ChangesAfter(u, position)
             changes == InOrder(C)
  <2>1. TypeOK /\ position \in 1 .. Newest /\ Newest \in Nat
    BY Positions DEF IInv, TypeOK
  <2>2. Listed(u) = << >> /\ EventsAfter(u, position) = << >>
    <3>1. Listed(u) \o EventsAfter(u, position) = << >>
      BY DEF ToCome
    <3>2. /\ Listed(u) \in Seq(Happening) /\ EventsAfter(u, position) \in Seq(Happening)
      BY <2>1, ComingType
    <3>3. Len(Listed(u)) + Len(EventsAfter(u, position)) = 0
      BY <3>1, <3>2, ConcatProperties, EmptySeq
    <3>4. Len(Listed(u)) \in Nat /\ Len(EventsAfter(u, position)) \in Nat
      BY <3>2, LenProperties
    <3>5. Len(Listed(u)) = 0 /\ Len(EventsAfter(u, position)) = 0
      BY <3>3, <3>4
    <3> QED
      BY <3>2, <3>5, EmptySeq
  <2>3. u \notin page \cup rest
    BY <2>2 DEF Listed
  <2>4. C = {}
    <3>1. Ordered(changes, C)
      BY DEF FeedInv
    <3>2. changes \in Seq(Changing)
      BY <2>1, ComingType
    <3>3. DOMAIN changes = DOMAIN EventsAfter(u, position)
      BY DEF EventsAfter
    <3>4. DOMAIN changes = {}
      BY <2>2, <3>3
    <3> HIDE DEF changes, C
    <3> QED
      BY <3>1, <3>4 DEF Ordered
  <2>5. \A q \in (position + 1) .. Newest : revisions[q].uid # u
    BY <2>4 DEF ChangesAfter
  <2>6. live[u] = revisions[position].state[u]
    BY <2>1, <2>5, SameBetween DEF IInv, live
  <2> QED
    BY <2>3, <2>6 DEF IInv, KnownInv
<1>2. Init => FeedInv
  BY FeedInit
<1>3. IInv /\ FeedInv /\ [Next]_vars => FeedInv'
  BY FeedStep
<1> QED
  BY <1>1, <1>2, <1>3, Invariance, PTL DEF Spec

LEMMA EventsTellStep ==
  ASSUME ToCome \in [Uids -> Seq(Happening)], live \in State, F!EventsTell,
         [F!Next]_(F!vars)
  PROVE  F!EventsTell'
<1> DEFINE Says(l, s) ==
             /\ \A i \in DOMAIN s : i = Len(s) \/ s[i].action # "Delete"
             /\ l = Unborn => s = << >>
           Last(u, l, s) ==
             s # << >> =>
               /\ s[Len(s)].uid = u
               /\ IF l = Gone THEN s[Len(s)].action = "Delete"
                              ELSE s[Len(s)].action # "Delete" /\ s[Len(s)].hash = l
           Right(u, l, s) == Says(l, s) /\ Last(u, l, s)
<1>1. F!EventsTell <=> \A u \in Uids : Right(u, live[u], ToCome[u])
  BY DEF F!EventsTell, F!Tells
<1>2. F!EventsTell' <=> \A u \in Uids : Right(u, live'[u], ToCome'[u])
  BY DEF F!EventsTell, F!Tells
<1>3. \A u \in Uids : /\ ToCome[u] \in Seq(Happening)
                      /\ Right(u, live[u], ToCome[u])
                      /\ live[u] \in Hashes \cup {Unborn, Gone}
  BY <1>1 DEF State
<1>4. Unborn \notin Hashes /\ Gone \notin Hashes /\ Unborn # Gone
  BY ConstantsAssumption DEF ConstantsAssumption
<1>5. ASSUME NEW u \in Uids, NEW e, NEW l \in Hashes \cup {Gone}, live[u] # Gone,
             e.uid = u,
             IF l = Gone THEN e.action = "Delete" ELSE e.action # "Delete" /\ e.hash = l
      PROVE  Right(u, l, Append(ToCome[u], e))
  <2> DEFINE s == ToCome[u]
  <2>1. s \in Seq(Happening) /\ Len(s) \in Nat /\ DOMAIN s = 1 .. Len(s)
    BY <1>3, LenProperties
  <2>2. \A i \in DOMAIN s : s[i].action # "Delete"
    BY <1>3, <1>5, <2>1, EmptySeq
  <2>3. /\ Len(Append(s, e)) = Len(s) + 1 /\ DOMAIN Append(s, e) = 1 .. (Len(s) + 1)
        /\ \A i \in 1 .. Len(s) : Append(s, e)[i] = s[i]
        /\ Append(s, e)[Len(s) + 1] = e
    <3>1. s \in Seq(Happening \cup {e}) /\ e \in Happening \cup {e}
      BY <2>1, SeqMonotonic
    <3> QED
      BY <2>1, <3>1, AppendProperties, LenProperties
  <2> HIDE DEF s
  <2>4. Says(l, Append(s, e))
    BY <1>4, <2>1, <2>2, <2>3
  <2>5. Last(u, l, Append(s, e))
    BY <1>5, <2>3
  <2> QED
    BY <2>4, <2>5 DEF s
<1>6. ASSUME NEW u \in Uids, NEW l \in Hashes \cup {Gone}, NEW e,
             live[u] # Gone, live' = [live EXCEPT ![u] = l],
             ToCome' = [ToCome EXCEPT ![u] = Append(@, e)],
             e.uid = u,
             IF l = Gone THEN e.action = "Delete" ELSE e.action # "Delete" /\ e.hash = l
      PROVE  F!EventsTell'
  <2> SUFFICES ASSUME NEW v \in Uids PROVE Right(v, live'[v], ToCome'[v])
    BY <1>2
  <2>1. CASE v = u
    <3>1. live'[u] = l /\ ToCome'[u] = Append(ToCome[u], e)
      BY <1>6 DEF State
    <3> HIDE DEF Right
    <3>2. Right(u, l, Append(ToCome[u], e))
      BY <1>5, <1>6
    <3> QED
      BY <2>1, <3>1, <3>2
  <2>2. CASE v # u
    <3>1. live'[v] = live[v] /\ ToCome'[v] = ToCome[v]
      BY <1>6, <2>2 DEF State
    <3> HIDE DEF Right
    <3> QED
      BY <1>3, <3>1
  <2> QED
    BY <2>1, <2>2
<1>7. ASSUME NEW u \in Uids, NEW h \in Hashes, F!Change(u, h) PROVE F!EventsTell'
  <2> DEFINE e == [uid |-> u, hash |-> h,
                   action |-> IF live[u] = Unborn THEN "Add" ELSE "Update"]
  <2>1. /\ live[u] # Gone /\ live' = [live EXCEPT ![u] = h]
        /\ ToCome' = [ToCome EXCEPT ![u] = Append(@, e)]
    BY <1>7 DEF F!Change, F!Append1
  <2>2. e.uid = u /\ e.action # "Delete" /\ e.hash = h
    OBVIOUS
  <2> HIDE DEF e
  <2> QED
    BY <1>4, <1>6, <2>1, <2>2
<1>8. ASSUME NEW u \in Uids, F!Delete(u) PROVE F!EventsTell'
  <2> DEFINE e == [uid |-> u, action |-> "Delete", hash |-> live[u]]
  <2>1. /\ live[u] \in Hashes /\ live' = [live EXCEPT ![u] = Gone]
        /\ ToCome' = [ToCome EXCEPT ![u] = Append(@, e)]
    BY <1>8 DEF F!Delete, F!Append1
  <2>2. e.uid = u /\ e.action = "Delete"
    OBVIOUS
  <2> HIDE DEF e
  <2> QED
    BY <1>4, <1>6, <2>1, <2>2
<1>9. ASSUME NEW u \in Uids, F!Handle(u) PROVE F!EventsTell'
  <2> DEFINE s == ToCome[u]
  <2>1. /\ s # << >> /\ live' = live
        /\ ToCome' = [ToCome EXCEPT ![u] = Tail(s)]
    BY <1>9 DEF F!Handle
  <2>2. s \in Seq(Happening) /\ Len(s) \in Nat /\ Len(s) > 0 /\ DOMAIN s = 1 .. Len(s)
    BY <1>3, <2>1, LenProperties, EmptySeq
  <2>3. Right(u, live[u], s)
    BY <1>3
  <2>4. live[u] # Unborn
    BY <2>1, <2>3
  <2>5. /\ Len(Tail(s)) = Len(s) - 1 /\ DOMAIN Tail(s) = 1 .. (Len(s) - 1)
        /\ \A i \in 1 .. (Len(s) - 1) : Tail(s)[i] = s[i + 1]
        /\ Tail(s) # << >> => Len(s) > 1
    BY <2>1, <2>2, HeadTailProperties, LenProperties, EmptySeq
  <2> HIDE DEF s
  <2>6. Says(live[u], Tail(s))
    <3>1. ASSUME NEW i \in DOMAIN Tail(s)
          PROVE  i = Len(Tail(s)) \/ Tail(s)[i].action # "Delete"
      <4>1. i \in 1 .. (Len(s) - 1) /\ i + 1 \in DOMAIN s /\ Tail(s)[i] = s[i + 1]
        BY <2>2, <2>5
      <4>2. i + 1 = Len(s) \/ s[i + 1].action # "Delete"
        BY <2>3, <4>1
      <4> QED
        BY <2>2, <2>5, <4>1, <4>2
    <3> QED
      BY <2>4, <3>1
  <2>7. Last(u, live[u], Tail(s))
    <3>1. CASE Len(s) > 1
      <4>1. Tail(s)[Len(s) - 1] = s[Len(s)]
        BY <2>2, <2>5, <3>1
      <4> QED
        BY <2>1, <2>3, <2>5, <4>1
    <3>2. CASE ~(Len(s) > 1)
      BY <2>5, <3>2
    <3> QED
      BY <3>1, <3>2
  <2>8. Right(u, live[u], Tail(s))
    BY <2>6, <2>7
  <2> HIDE DEF Right
  <2>9. \A v \in Uids : ToCome'[v] = IF v = u THEN Tail(s) ELSE ToCome[v]
    BY <2>1
  <2> QED
    BY <1>2, <1>3, <2>1, <2>8, <2>9
<1>10. ASSUME NEW listed \in SUBSET Uids, F!Relist(listed) PROVE F!EventsTell'
  <2>1. /\ live' = live
        /\ \A u \in Uids : ToCome'[u] = IF u \in listed THEN F!Listing(u) ELSE ToCome[u]
    BY <1>10 DEF F!Relist
  <2>2. ASSUME NEW u \in Uids PROVE Right(u, live[u], F!Listing(u))
    BY <1>3, <1>4 DEF F!Listing
  <2> HIDE DEF Right
  <2> QED
    BY <1>2, <1>3, <2>1, <2>2
<1>11. CASE UNCHANGED F!vars
  <2>1. live' = live /\ ToCome' = ToCome
    BY <1>11 DEF F!vars
  <2> HIDE DEF Right
  <2> QED
    BY <1>2, <1>3, <2>1
<1> QED
  BY <1>7, <1>8, <1>9, <1>10, <1>11 DEF F!Next

\* Of the events that a handler is yet to be called for a deletion is the last,
\* and the last says how the object is now: through relists, compactions and
\* failures nothing that is pending can leave the handler with an older state.
\* (runNoCacheWatcher, noCacheInitialList, noCacheWatch)
THEOREM PendingEventsTell == Spec => []F!EventsTell
<1>1. IInv /\ FeedInv => ToCome \in [Uids -> Seq(Happening)] /\ live \in State
  <2> SUFFICES ASSUME IInv, FeedInv PROVE ToCome \in [Uids -> Seq(Happening)]
    BY Positions DEF IInv
  <2>1. \A u \in Uids : Listed(u) \o EventsAfter(u, position) \in Seq(Happening)
    BY ComingType, ConcatProperties DEF IInv
  <2> QED
    BY <2>1 DEF ToCome
<1>2. F!Init => F!EventsTell
  BY ConstantsAssumption DEF F!Init, F!EventsTell, F!Tells, F!Listing, ConstantsAssumption
<1>3. Init => FeedInv /\ F!EventsTell
  BY <1>2, FeedInit
<1>4. IInv /\ FeedInv /\ F!EventsTell /\ [Next]_vars => FeedInv' /\ F!EventsTell'
  BY <1>1, FeedStep, EventsTellStep
<1> QED
  BY <1>3, <1>4, Invariance, PTL DEF Spec
=============================================================================
