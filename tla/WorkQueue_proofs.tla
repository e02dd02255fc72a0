-------------------------- MODULE WorkQueue_proofs --------------------------
(***************************************************************************)
(* What the operators of the retry queue return, for every queue.          *)
(***************************************************************************)
EXTENDS WorkQueue, WellFoundedInduction, SequenceTheorems, TLAPS

\* A non-empty set of numbers has a least one.
LEMMA LeastNat ==
  ASSUME NEW T \in SUBSET Nat, T # {}
  PROVE  \E x \in T : \A y \in T : x <= y
<1>1. \E x \in T : \A y \in T : ~ (<<x, x>> # <<x, x>>) /\ <<y, x>> \notin OpToRel(<, Nat)
  BY NatLessThanWellFounded, WFMin
<1>2. PICK x \in T : \A y \in T : <<y, x>> \notin OpToRel(<, Nat)
  BY <1>1
<1>3. \A y \in T : x <= y
  <2> TAKE y \in T
  <2>1. <<y, x>> \in Nat \X Nat
    OBVIOUS
  <2>2. ~(y < x)
    BY <1>2, <2>1 DEF OpToRel
  <2> QED
    BY <2>2
<1> QED
  BY <1>3

\* For a uid that is in the queue GetByUid returns the position of its first
\* entry; for any other uid it returns 0.
LEMMA GetByUidFirst ==
  ASSUME NEW S, NEW wq \in Seq(S), NEW uid
  PROVE  /\ HoldsUid(wq, uid) =>
              /\ GetByUid(wq, uid) \in 0 .. (Len(wq) - 1)
              /\ wq[GetByUid(wq, uid) + 1].update.uid = uid
              /\ \A j \in 1 .. GetByUid(wq, uid) : wq[j].update.uid # uid
         /\ ~HoldsUid(wq, uid) => GetByUid(wq, uid) = 0
<1>1. ASSUME HoldsUid(wq, uid)
      PROVE  /\ GetByUid(wq, uid) \in 0 .. (Len(wq) - 1)
             /\ wq[GetByUid(wq, uid) + 1].update.uid = uid
             /\ \A j \in 1 .. GetByUid(wq, uid) : wq[j].update.uid # uid
  <2> DEFINE T == {i \in DOMAIN wq : wq[i].update.uid = uid}
             First(i) == /\ wq[i].update.uid = uid
                         /\ \A j \in 1 .. (i - 1) : wq[j].update.uid # uid
  <2>1. DOMAIN wq = 1 .. Len(wq) /\ Len(wq) \in Nat
    OBVIOUS
  <2>2. T \in SUBSET Nat /\ T # {}
    BY <1>1, <2>1 DEF HoldsUid
  <2>3. PICK x \in T : \A y \in T : x <= y
    <3> HIDE DEF T
    <3> QED  BY <2>2, LeastNat
  <2>4. x \in DOMAIN wq /\ First(x)
    <3>1. ASSUME NEW j \in 1 .. (x - 1), wq[j].update.uid = uid
          PROVE  FALSE
      <4>1. j \in T
        BY <2>1, <2>3, <3>1
      <4> QED
        BY <2>1, <2>3, <4>1
    <3> QED
      BY <2>3, <3>1
  <2> DEFINE c == CHOOSE i \in DOMAIN wq : First(i)
  <2>5. c \in DOMAIN wq /\ First(c)
    <3> HIDE DEF First
    <3> QED  BY <2>4
  <2>6. GetByUid(wq, uid) = c - 1
    BY <1>1 DEF GetByUid
  <2> HIDE DEF c
  <2> QED
    BY <2>1, <2>5, <2>6
<1>2. ~HoldsUid(wq, uid) => GetByUid(wq, uid) = 0
  BY DEF GetByUid
<1> QED
  BY <1>1, <1>2

\* The position is one that DeleteByUid and Add may index: 0, or inside.
LEMMA GetByUidRange ==
  ASSUME NEW S, NEW wq \in Seq(S), NEW uid
  PROVE  /\ GetByUid(wq, uid) \in Nat
         /\ GetByUid(wq, uid) > 0 => /\ GetByUid(wq, uid) + 1 \in DOMAIN wq
                                     /\ GetByUid(wq, uid) + 1 \in 1 .. Len(wq)
                                     /\ HoldsUid(wq, uid)
         /\ wq # << >> => GetByUid(wq, uid) + 1 \in 1 .. Len(wq)
<1>1. DOMAIN wq = 1 .. Len(wq) /\ Len(wq) \in Nat
  OBVIOUS
<1>2. wq # << >> => Len(wq) > 0
  BY EmptySeq
<1> QED
  BY <1>1, <1>2, GetByUidFirst

LEMMA NewEntryType ==
  ASSUME NEW U, NEW wq \in Seq(EntryOf(U)), NEW update \in U
  PROVE  /\ NewEntry(wq, update) \in EntryOf(U)
         /\ NewEntry(wq, update).update = update
<1> DEFINE id == GetByUid(wq, update.uid)
<1>1. ASSUME id > 0 PROVE wq[id + 1].retryCount \in Nat
  <2>1. id + 1 \in 1 .. Len(wq)
    BY <1>1, GetByUidRange
  <2>2. wq[id + 1] \in EntryOf(U)
    BY <2>1, ElementOfSeq
  <2> QED
    BY <2>2 DEF EntryOf
<1> QED
  BY <1>1 DEF NewEntry, EntryOf

LEMMA AddType ==
  ASSUME NEW U, NEW wq \in Seq(EntryOf(U)), NEW update \in U
  PROVE  Add(wq, update) \in Seq(EntryOf(U))
<1> DEFINE id == GetByUid(wq, update.uid)
<1>1. CASE id > 0
  <2>1. id + 1 \in 1 .. Len(wq)
    BY <1>1, GetByUidRange
  <2> QED
    BY <1>1, <2>1, NewEntryType, ExceptSeq DEF Add, ReplaceAt
<1>2. CASE ~(id > 0)
  BY <1>2, NewEntryType, AppendProperties DEF Add
<1> QED
  BY <1>1, <1>2

\* Add leaves the uid of every position as it is.
LEMMA AddPositions ==
  ASSUME NEW U, NEW wq \in Seq(EntryOf(U)), NEW update \in U
  PROVE  /\ Len(Add(wq, update)) \in Nat
         /\ Len(Add(wq, update)) >= Len(wq)
         /\ \A i \in 1 .. Len(wq) : Add(wq, update)[i].update.uid = wq[i].update.uid
<1> DEFINE id == GetByUid(wq, update.uid)
           e  == NewEntry(wq, update)
<1>0. e \in EntryOf(U) /\ e.update = update
  BY NewEntryType
<1>1. DOMAIN wq = 1 .. Len(wq) /\ Len(wq) \in Nat
  OBVIOUS
<1>2. CASE id > 0
  <2>1. id + 1 \in 1 .. Len(wq) /\ wq[id + 1].update.uid = update.uid
    BY <1>2, GetByUidRange, GetByUidFirst
  <2>2. Add(wq, update) = [wq EXCEPT ![id + 1] = e]
    BY <1>2 DEF Add, ReplaceAt
  <2> HIDE DEF e, id
  <2>3. Len(Add(wq, update)) = Len(wq)
    BY <1>0, <2>1, <2>2, ExceptSeq
  <2> QED
    BY <1>0, <1>1, <2>1, <2>2, <2>3
<1>3. CASE ~(id > 0)
  <2>1. Add(wq, update) = Append(wq, e)
    BY <1>3 DEF Add
  <2> HIDE DEF e, id
  <2> QED
    BY <1>0, <1>1, <2>1, AppendProperties
<1> QED
  BY <1>2, <1>3

\* Where Add writes: at the place of an entry of the same uid that is not the
\* first, or behind the last one.
LEMMA AddPlace ==
  ASSUME NEW U, NEW wq \in Seq(EntryOf(U)), NEW update \in U,
         NEW id, id = GetByUid(wq, update.uid),
         NEW place, place = IF id > 0 THEN id + 1 ELSE Len(wq) + 1
  PROVE  /\ id \in Nat /\ place \in Nat /\ place >= 1
         /\ id > 0 => place \in 2 .. Len(wq) /\ wq[place].update.uid = update.uid
         /\ id > 0 => Add(wq, update) = ReplaceAt(wq, place, NewEntry(wq, update))
         /\ ~(id > 0) => place = Len(wq) + 1
         /\ id > 0 => Add(wq, update)[place] = NewEntry(wq, update)
         /\ \A i \in 1 .. Len(wq) : i # place => Add(wq, update)[i] = wq[i]
<1> DEFINE e == NewEntry(wq, update)
<1>0. e \in EntryOf(U)
  BY NewEntryType
<1>1. DOMAIN wq = 1 .. Len(wq) /\ Len(wq) \in Nat /\ id \in Nat
  BY GetByUidRange
<1>2. CASE id > 0
  <2>1. place = id + 1
    BY <1>2
  <2>2. id + 1 \in 2 .. Len(wq) /\ wq[id + 1].update.uid = update.uid
    BY <1>1, <1>2, GetByUidRange, GetByUidFirst
  <2>3. Add(wq, update) = ReplaceAt(wq, place, e)
    BY <1>2, <2>1 DEF Add
  <2> HIDE DEF e
  <2>4. ReplaceAt(wq, place, e) = [wq EXCEPT ![place] = e]
    BY DEF ReplaceAt
  <2>5. place \in DOMAIN wq
    BY <1>1, <2>1, <2>2
  <2>6. Add(wq, update)[place] = e
    BY <2>3, <2>4, <2>5
  <2>7. \A i \in 1 .. Len(wq) : i # place => Add(wq, update)[i] = wq[i]
    BY <1>1, <2>3, <2>4
  <2> QED
    BY <1>1, <1>2, <2>1, <2>2, <2>3, <2>6, <2>7 DEF e
<1>3. CASE ~(id > 0)
  <2>1. place = Len(wq) + 1 /\ Add(wq, update) = Append(wq, e)
    BY <1>3 DEF Add
  <2> HIDE DEF e
  <2>2. \A i \in 1 .. Len(wq) : Append(wq, e)[i] = wq[i]
    BY <1>0, AppendProperties
  <2> QED
    BY <1>1, <1>3, <2>1, <2>2
<1> QED
  BY <1>2, <1>3

\* A write through an array changes no length, and an entry only where it goes.
LEMMA WrittenAt ==
  ASSUME NEW U, NEW wq \in Seq(EntryOf(U)), NEW k \in Nat, NEW entry \in EntryOf(U)
  PROVE  /\ Written(wq, k, entry) \in Seq(EntryOf(U))
         /\ Len(Written(wq, k, entry)) = Len(wq)
         /\ DOMAIN Written(wq, k, entry) = DOMAIN wq
         /\ k \in DOMAIN wq => Written(wq, k, entry)[k] = entry
         /\ \A j \in DOMAIN wq : j # k => Written(wq, k, entry)[j] = wq[j]
<1>1. DOMAIN wq = 1 .. Len(wq) /\ Len(wq) \in Nat
  OBVIOUS
<1>2. CASE k \in DOMAIN wq
  <2>1. Written(wq, k, entry) = [wq EXCEPT ![k] = entry]
    BY <1>2 DEF Written, ReplaceAt
  <2>2. k \in 1 .. Len(wq)
    BY <1>1, <1>2
  <2>3. /\ [wq EXCEPT ![k] = entry] \in Seq(EntryOf(U))
        /\ Len([wq EXCEPT ![k] = entry]) = Len(wq)
    BY <2>2, ExceptSeq
  <2> QED
    BY <1>2, <2>1, <2>3
<1>3. CASE k \notin DOMAIN wq
  BY <1>3 DEF Written
<1> QED
  BY <1>2, <1>3

\* Add puts the update in the queue and loses the uid of no entry: an update
\* that was to be retried is replaced by a later one of its uid or stays.
THEOREM AddKeepsUids ==
  ASSUME NEW U, NEW wq \in Seq(EntryOf(U)), NEW update \in U
  PROVE  /\ \E i \in DOMAIN Add(wq, update) : Add(wq, update)[i].update = update
         /\ HoldsUid(Add(wq, update), update.uid)
         /\ \A uid : HoldsUid(wq, uid) => HoldsUid(Add(wq, update), uid)
<1> DEFINE id == GetByUid(wq, update.uid)
           e  == NewEntry(wq, update)
<1>0. e \in EntryOf(U) /\ e.update = update
  BY NewEntryType
<1>1. DOMAIN wq = 1 .. Len(wq) /\ Len(wq) \in Nat
  OBVIOUS
<1>2. CASE id > 0
  <2>1. id + 1 \in 1 .. Len(wq) /\ wq[id + 1].update.uid = update.uid
    BY <1>2, GetByUidRange, GetByUidFirst
  <2>2. Add(wq, update) = [wq EXCEPT ![id + 1] = e]
    BY <1>2 DEF Add, ReplaceAt
  <2> HIDE DEF e, id
  <2>3. /\ DOMAIN Add(wq, update) = DOMAIN wq
        /\ Add(wq, update)[id + 1].update = update
        /\ \A i \in DOMAIN wq : Add(wq, update)[i].update.uid = wq[i].update.uid
    BY <1>0, <1>1, <2>1, <2>2
  <2> QED
    BY <1>1, <2>1, <2>3 DEF HoldsUid
<1>3. CASE ~(id > 0)
  <2>1. Add(wq, update) = Append(wq, e)
    BY <1>3 DEF Add
  <2> HIDE DEF e, id
  <2>2. /\ DOMAIN Add(wq, update) = 1 .. (Len(wq) + 1)
        /\ \A i \in 1 .. Len(wq) : Add(wq, update)[i] = wq[i]
        /\ Add(wq, update)[Len(wq) + 1].update = update
    BY <1>0, <2>1, AppendProperties, LenProperties
  <2> QED
    BY <1>1, <2>2 DEF HoldsUid
<1> QED
  BY <1>2, <1>3

\* DeleteByUid of a queue that is not empty takes exactly one entry out --
\* also when no entry has that uid.
THEOREM DeleteByUidTakesOne ==
  ASSUME NEW S, NEW wq \in Seq(S), NEW uid, uid # NoUid, wq # << >>
  PROVE  /\ DeleteByUid(wq, uid) \in Seq(S)
         /\ Len(DeleteByUid(wq, uid)) = Len(wq) - 1
<1> DEFINE k == GetByUid(wq, uid) + 1
           front == SubSeq(wq, 1, k - 1)
           back  == SubSeq(wq, k + 1, Len(wq))
<1>1. /\ Len(wq) \in Nat
      /\ k \in 1 .. Len(wq)
      /\ \A i \in 1 .. Len(wq) : wq[i] \in S
  <2>1. Len(wq) \in Nat /\ \A i \in 1 .. Len(wq) : wq[i] \in S
    BY LenProperties, ElementOfSeq
  <2>2. GetByUid(wq, uid) + 1 \in 1 .. Len(wq)
    BY GetByUidRange
  <2> QED
    BY <2>1, <2>2
<1>2. DeleteByUid(wq, uid) = front \o back
  BY DEF DeleteByUid, RemoveAt
<1> HIDE DEF k
<1>3. front \in Seq(S) /\ Len(front) = k - 1
  <2>1. \A i \in 1 .. (k - 1) : wq[i] \in S
    BY <1>1
  <2>2. k - 1 \in Int /\ k - 1 >= 0
    BY <1>1
  <2>3. /\ SubSeq(wq, 1, k - 1) \in Seq(S)
        /\ Len(SubSeq(wq, 1, k - 1)) = IF 1 <= k - 1 THEN (k - 1) - 1 + 1 ELSE 0
    BY <2>1, <2>2, SubSeqProperties
  <2> QED
    BY <1>1, <2>2, <2>3
<1>4. back \in Seq(S) /\ Len(back) = Len(wq) - k
  <2>1. \A i \in (k + 1) .. Len(wq) : wq[i] \in S
    BY <1>1
  <2>2. k + 1 \in Int /\ Len(wq) \in Int
    BY <1>1
  <2>3. /\ SubSeq(wq, k + 1, Len(wq)) \in Seq(S)
        /\ Len(SubSeq(wq, k + 1, Len(wq)))
             = IF k + 1 <= Len(wq) THEN Len(wq) - (k + 1) + 1 ELSE 0
    BY <2>1, <2>2, SubSeqProperties
  <2> QED
    BY <1>1, <2>2, <2>3
<1> HIDE DEF front, back
<1>5. front \o back \in Seq(S) /\ Len(front \o back) = Len(front) + Len(back)
  BY <1>3, <1>4, ConcatProperties
<1>6. Len(front) + Len(back) = Len(wq) - 1
  BY <1>1, <1>3, <1>4
<1> QED
  BY <1>2, <1>5, <1>6

\* The first entry's uid takes the first entry out, and so does a uid that has
\* no entry.
THEOREM DeleteByUidOfFirst ==
  ASSUME NEW S, NEW wq \in Seq(S), NEW uid, uid # NoUid, wq # << >>,
         wq[1].update.uid = uid \/ ~HoldsUid(wq, uid)
  PROVE  DeleteByUid(wq, uid) = Tail(wq)
<1>1. Len(wq) \in Nat \ {0}
  BY EmptySeq
<1>2. GetByUid(wq, uid) = 0
  <2>1. CASE ~HoldsUid(wq, uid)
    BY <2>1, GetByUidFirst
  <2>2. CASE HoldsUid(wq, uid)
    <3>1. wq[1].update.uid = uid
      BY <2>2
    <3>2. /\ GetByUid(wq, uid) \in 0 .. (Len(wq) - 1)
          /\ \A j \in 1 .. GetByUid(wq, uid) : wq[j].update.uid # uid
      BY <2>2, GetByUidFirst
    <3>3. GetByUid(wq, uid) > 0 => 1 \in 1 .. GetByUid(wq, uid)
      BY <1>1, <3>2
    <3> QED
      BY <1>1, <3>1, <3>2, <3>3
  <2> QED
    BY <2>1, <2>2
<1>3. DeleteByUid(wq, uid) = SubSeq(wq, 1, 0) \o SubSeq(wq, 2, Len(wq))
  <2>1. DeleteByUid(wq, uid) = RemoveAt(wq, 0 + 1)
    BY <1>2 DEF DeleteByUid
  <2>2. 0 + 1 = 1 /\ 1 - 1 = 0 /\ 1 + 1 = 2
    OBVIOUS
  <2> QED
    BY <2>1, <2>2 DEF RemoveAt
<1>4. SubSeq(wq, 1, 0) = << >>
  <2>1. 1 \in Int /\ 0 \in Int /\ 0 < 1
    OBVIOUS
  <2> QED
    BY <2>1, SubSeqEmpty
<1>5. SubSeq(wq, 2, Len(wq)) = Tail(wq) /\ Tail(wq) \in Seq(S)
  BY <1>1, TailIsSubSeq, HeadTailProperties
<1> QED
  BY <1>3, <1>4, <1>5, ConcatEmptySeq
=============================================================================
