--------------------------- MODULE Shutdown_proofs ---------------------------
(***************************************************************************)
(* For any number of kinds and signals: once main waits it stays in the    *)
(* queue of receivers, so no send blocks and no shouldStop gets a stop;    *)
(* and a watcher that took a stop from it queues up behind it.             *)
(***************************************************************************)
EXTENDS Shutdown, SequenceTheorems, TLAPS

\* While main waits it is among the receivers, and no sender is blocked.
WaitInv ==
  main = "waiting" =>
    /\ \E i \in 1 .. Len(recvq) : recvq[i] = Main
    /\ Senders = {}

IInv == TypeOK /\ WaitInv

\* The place of main in the queue: nobody queues twice, a watcher that has
\* taken a stop from main is behind it, and none does so a second time.
OrderInv ==
  /\ \A i, j \in 1 .. Len(recvq) : recvq[i] = recvq[j] => i = j
  /\ \A i \in 1 .. Len(recvq) :
       /\ recvq[i] = Main => main = "waiting"
       /\ recvq[i] # Main => watcher[recvq[i]] = "select"
  /\ main = "starting" => \A g \in Gvrs : taken[g] = 0
  /\ \A g \in Gvrs : taken[g] <= 1
  /\ main = "waiting" =>
       \A g \in Gvrs : \A i, j \in 1 .. Len(recvq) :
         taken[g] = 1 /\ recvq[i] = Main /\ recvq[j] = g => i < j

\* The elements behind the one that is removed move up.
LEMMA RemoveAtMoves ==
  ASSUME NEW S, NEW s \in Seq(S), NEW i \in 1 .. Len(s)
  PROVE  /\ RemoveAt(s, i) \in Seq(S)
         /\ Len(RemoveAt(s, i)) = Len(s) - 1
         /\ \A k \in 1 .. (Len(s) - 1) :
              RemoveAt(s, i)[k] = IF k < i THEN s[k] ELSE s[k + 1]
<1> DEFINE front == SubSeq(s, 1, i - 1)
           back  == SubSeq(s, i + 1, Len(s))
<1>1. Len(s) \in Nat /\ \A j \in 1 .. Len(s) : s[j] \in S
  BY LenProperties, ElementOfSeq
<1>2. /\ front \in Seq(S) /\ Len(front) = i - 1
      /\ \A j \in 1 .. (i - 1) : front[j] = s[j]
  <2>1. 1 \in Int /\ i - 1 \in Int /\ \A j \in 1 .. (i - 1) : s[j] \in S
    BY <1>1
  <2>2. /\ SubSeq(s, 1, i - 1) \in Seq(S)
        /\ Len(SubSeq(s, 1, i - 1)) = IF 1 <= i - 1 THEN (i - 1) - 1 + 1 ELSE 0
        /\ \A j \in 1 .. ((i - 1) - 1 + 1) : SubSeq(s, 1, i - 1)[j] = s[1 + j - 1]
    BY <2>1, SubSeqProperties
  <2> QED
    BY <1>1, <2>1, <2>2
<1>3. /\ back \in Seq(S) /\ Len(back) = Len(s) - i
      /\ \A j \in 1 .. (Len(s) - i) : back[j] = s[i + j]
  <2>1. i + 1 \in Int /\ Len(s) \in Int /\ \A j \in (i + 1) .. Len(s) : s[j] \in S
    BY <1>1
  <2>2. /\ SubSeq(s, i + 1, Len(s)) \in Seq(S)
        /\ Len(SubSeq(s, i + 1, Len(s)))
             = IF i + 1 <= Len(s) THEN Len(s) - (i + 1) + 1 ELSE 0
        /\ \A j \in 1 .. (Len(s) - (i + 1) + 1) :
             SubSeq(s, i + 1, Len(s))[j] = s[(i + 1) + j - 1]
    BY <2>1, SubSeqProperties
  <2> QED
    BY <1>1, <2>1, <2>2
<1>4. RemoveAt(s, i) = front \o back
  BY DEF RemoveAt
<1> HIDE DEF front, back
<1>5. /\ front \o back \in Seq(S)
      /\ Len(front \o back) = Len(front) + Len(back)
      /\ \A k \in 1 .. (Len(front) + Len(back)) :
           (front \o back)[k] = IF k <= Len(front) THEN front[k] ELSE back[k - Len(front)]
  BY <1>2, <1>3, ConcatProperties
<1>6. Len(front) + Len(back) = Len(s) - 1
  BY <1>1, <1>2, <1>3
<1>7. ASSUME NEW k \in 1 .. (Len(s) - 1)
      PROVE  (front \o back)[k] = IF k < i THEN s[k] ELSE s[k + 1]
  <2>1. CASE k < i
    <3>1. k \in 1 .. (Len(front) + Len(back)) /\ k <= Len(front) /\ k \in 1 .. (i - 1)
      BY <1>1, <1>2, <1>6, <2>1
    <3> QED
      BY <1>2, <1>5, <2>1, <3>1
  <2>2. CASE ~ (k < i)
    <3>1. /\ k \in 1 .. (Len(front) + Len(back)) /\ ~ (k <= Len(front))
          /\ k - Len(front) \in 1 .. (Len(s) - i) /\ i + (k - Len(front)) = k + 1
      BY <1>1, <1>2, <1>6, <2>2
    <3> QED
      BY <1>3, <1>5, <2>2, <3>1
  <2> QED
    BY <2>1, <2>2
<1> QED
  BY <1>4, <1>5, <1>6, <1>7

\* RemoveAt keeps every other element.
LEMMA RemoveAtKeeps ==
  ASSUME NEW S, NEW s \in Seq(S), NEW i \in 1 .. Len(s)
  PROVE  /\ RemoveAt(s, i) \in Seq(S)
         /\ \A j \in 1 .. Len(s) :
              j # i => \E k \in 1 .. Len(RemoveAt(s, i)) : RemoveAt(s, i)[k] = s[j]
<1> DEFINE r == RemoveAt(s, i)
<1>1. /\ r \in Seq(S) /\ Len(r) = Len(s) - 1 /\ Len(s) \in Nat
      /\ \A k \in 1 .. (Len(s) - 1) : r[k] = IF k < i THEN s[k] ELSE s[k + 1]
  BY RemoveAtMoves, LenProperties
<1> HIDE DEF r
<1>2. ASSUME NEW j \in 1 .. Len(s), j # i
      PROVE  \E k \in 1 .. Len(r) : r[k] = s[j]
  <2>1. CASE j < i
    BY <1>1, <2>1
  <2>2. CASE j > i
    <3>1. j - 1 \in 1 .. Len(r) /\ r[j - 1] = s[j]
      BY <1>1, <2>2
    <3> QED
      BY <3>1
  <2> QED
    BY <1>2, <2>1, <2>2
<1> QED
  BY <1>1, <1>2 DEF r

LEMMA InitInv ==
  Init => IInv
<1> SUFFICES ASSUME Init PROVE IInv
  OBVIOUS
<1>1. recvq \in Seq(Gvrs \cup {Main})
  BY EmptySeq DEF Init
<1>2. signals \in 0 .. MaxSignals /\ sigs \in 0 .. 1
  BY ConstantsAssumption DEF Init, ConstantsAssumption
<1>3. /\ fwd \in [Gvrs -> {"wait", "put", "blocked", "done"}]
      /\ watcher \in [Gvrs -> {"top", "list", "after", "watch", "select", "returned"}]
      /\ main \in {"starting", "waiting", "exited"}
      /\ taken \in [Gvrs -> Nat]
  BY DEF Init
<1> QED
  BY <1>1, <1>2, <1>3 DEF Init, IInv, TypeOK, WaitInv

LEMMA StepInv ==
  ASSUME IInv, [Next]_vars
  PROVE  IInv'
<1> USE DEF IInv
<1>0. recvq \in Seq(Gvrs \cup {Main}) /\ Len(recvq) \in Nat
  BY LenProperties DEF TypeOK
<1>1. CASE Signal
  <2>1. signals' \in 0 .. MaxSignals
    BY <1>1, ConstantsAssumption DEF Signal, TypeOK, ConstantsAssumption
  <2> QED
    BY <1>1, <2>1 DEF Signal, Notified, TypeOK, WaitInv, Senders
<1>2. ASSUME NEW g \in Gvrs, Forward(g) PROVE IInv'
  BY <1>2 DEF Forward, TypeOK, WaitInv, Senders
<1>3. ASSUME NEW g \in Gvrs, Put(g) PROVE IInv'
  <2>1. CASE recvq = << >>
    <3>1. main # "waiting"
      BY <1>0, <2>1 DEF WaitInv
    <3> QED
      BY <1>3, <2>1, <3>1 DEF Put, TypeOK, WaitInv
  <2>2. CASE recvq # << >>
    <3>1. /\ Head(recvq) \in Gvrs \cup {Main} /\ recvq' = Tail(recvq)
          /\ recvq' \in Seq(Gvrs \cup {Main})
          /\ Len(recvq') = Len(recvq) - 1
          /\ \A i \in 1 .. Len(recvq') : recvq'[i] = recvq[i + 1]
          /\ Head(recvq) = recvq[1]
      BY <1>0, <1>3, <2>2, HeadTailProperties DEF Put
    <3>2. /\ fwd' = [fwd EXCEPT ![g] = "done"]
          /\ UNCHANGED <<signals, sigs>>
      BY <1>3, <2>2 DEF Put
    <3>3. CASE Head(recvq) = Main
      <4>1. main' = "exited" /\ UNCHANGED <<watcher, taken>>
        BY <1>3, <2>2, <3>3 DEF Put
      <4> QED
        BY <3>1, <3>2, <4>1 DEF TypeOK, WaitInv
    <3>4. CASE Head(recvq) # Main
      <4>1. /\ watcher' = StopInSelect(Head(recvq)) /\ main' = main
            /\ taken' = [taken EXCEPT ![Head(recvq)] =
                           IF main = "waiting" THEN @ + 1 ELSE @]
        BY <1>3, <2>2, <3>4 DEF Put
      <4>2. TypeOK'
        BY <3>1, <3>2, <3>4, <4>1 DEF TypeOK, StopInSelect
      <4>3. WaitInv'
        <5> SUFFICES ASSUME main = "waiting"
                     PROVE  /\ \E i \in 1 .. Len(recvq') : recvq'[i] = Main
                            /\ Senders' = {}
          BY <4>1 DEF WaitInv
        <5>1. PICK i \in 1 .. Len(recvq) : recvq[i] = Main
          BY DEF WaitInv
        <5>2. i # 1
          BY <3>1, <3>4, <5>1
        <5>3. i - 1 \in 1 .. Len(recvq') /\ recvq'[i - 1] = Main
          BY <1>0, <3>1, <5>1, <5>2
        <5>4. Senders' = {}
          BY <3>2 DEF WaitInv, Senders, TypeOK
        <5> QED
          BY <5>3, <5>4
      <4> QED
        BY <4>2, <4>3
    <3> QED
      BY <3>3, <3>4
  <2> QED
    BY <2>1, <2>2
<1>4. CASE MainReceives
  <2>1. CASE Senders = {} /\ main' = "waiting" /\ recvq' = Append(recvq, Main) /\ UNCHANGED fwd
    <3>1. /\ recvq' \in Seq(Gvrs \cup {Main})
          /\ Len(recvq') = Len(recvq) + 1 /\ recvq'[Len(recvq) + 1] = Main
      BY <1>0, <2>1, AppendProperties
    <3>2. \E i \in 1 .. Len(recvq') : recvq'[i] = Main
      BY <1>0, <3>1
    <3> QED
      BY <1>4, <2>1, <3>1, <3>2 DEF MainReceives, TypeOK, WaitInv, Senders
  <2>2. CASE (\E s \in Senders : ReceiveFrom(s)) /\ main' = "exited" /\ UNCHANGED recvq
    BY <1>4, <2>2 DEF MainReceives, ReceiveFrom, Senders, TypeOK, WaitInv
  <2> QED
    BY <1>4, <2>1, <2>2 DEF MainReceives
<1>5. ASSUME NEW g \in Gvrs, ShouldStop(g) PROVE IInv'
  <2>1. /\ UNCHANGED <<signals, sigs, main, recvq, taken>>
        /\ \/ fwd' = fwd
           \/ Senders # {} /\ \E s \in Gvrs : fwd' = [fwd EXCEPT ![s] = "done"]
    BY <1>5 DEF ShouldStop, ReceiveFrom, Senders
  <2>2. watcher' \in [Gvrs -> {"top", "list", "after", "watch", "select", "returned"}]
    <3>1. \E to \in {"list", "watch", "top", "returned"} : watcher' = [watcher EXCEPT ![g] = to]
      BY <1>5 DEF ShouldStop, TypeOK
    <3> QED
      BY <3>1 DEF TypeOK
  <2> QED
    BY <2>1, <2>2 DEF TypeOK, WaitInv, Senders
<1>6. ASSUME NEW g \in Gvrs, EnterSelect(g) PROVE IInv'
  <2>1. /\ UNCHANGED <<signals, sigs, main, taken>>
        /\ \/ fwd' = fwd
           \/ Senders # {} /\ \E s \in Gvrs : fwd' = [fwd EXCEPT ![s] = "done"]
        /\ recvq' = recvq \/ recvq' = Append(recvq, g)
        /\ watcher' \in {[watcher EXCEPT ![g] = "select"], [watcher EXCEPT ![g] = "after"]}
    BY <1>6 DEF EnterSelect, StopInSelect, ReceiveFrom, Senders
  <2>2. /\ recvq' \in Seq(Gvrs \cup {Main})
        /\ Len(recvq') >= Len(recvq) /\ Len(recvq') \in Nat
        /\ \A i \in 1 .. Len(recvq) : recvq'[i] = recvq[i]
    BY <1>0, <2>1, AppendProperties
  <2>3. TypeOK'
    BY <2>1, <2>2 DEF TypeOK
  <2>4. WaitInv'
    BY <1>0, <2>1, <2>2 DEF WaitInv, Senders, TypeOK
  <2> QED
    BY <2>3, <2>4
<1>7. ASSUME NEW g \in Gvrs, WatchEvent(g) PROVE IInv'
  <2>1. /\ UNCHANGED <<signals, sigs, fwd, main, taken>>
        /\ watcher' \in {[watcher EXCEPT ![g] = "watch"], [watcher EXCEPT ![g] = "after"]}
    BY <1>7 DEF WatchEvent
  <2>2. PICK i \in 1 .. Len(recvq) : recvq[i] = g /\ recvq' = RemoveAt(recvq, i)
    BY <1>0, <1>7 DEF WatchEvent
  <2>3. /\ recvq' \in Seq(Gvrs \cup {Main})
        /\ \A j \in 1 .. Len(recvq) :
             j # i => \E k \in 1 .. Len(recvq') : recvq'[k] = recvq[j]
    BY <1>0, <2>2, RemoveAtKeeps
  <2>4. (\E j \in 1 .. Len(recvq) : recvq[j] = Main)
          => \E k \in 1 .. Len(recvq') : recvq'[k] = Main
    BY <2>2, <2>3, ConstantsAssumption DEF ConstantsAssumption
  <2>5. TypeOK'
    BY <2>1, <2>3 DEF TypeOK
  <2> QED
    BY <2>1, <2>4, <2>5 DEF WaitInv, Senders
<1>8. CASE UNCHANGED vars
  BY <1>8 DEF vars, TypeOK, WaitInv, Senders
<1> QED
  BY <1>1, <1>2, <1>3, <1>4, <1>5, <1>6, <1>7, <1>8 DEF Next, Forwarder, Watcher

LEMMA OrderInit ==
  Init => OrderInv
<1> SUFFICES ASSUME Init PROVE OrderInv
  OBVIOUS
<1>1. recvq = << >> /\ Len(recvq) = 0 /\ \A g \in Gvrs : taken[g] = 0
  BY EmptySeq DEF Init
<1> QED
  BY <1>1 DEF Init, OrderInv

LEMMA OrderStep ==
  ASSUME IInv, OrderInv, [Next]_vars
  PROVE  OrderInv'
<1>0. /\ recvq \in Seq(Gvrs \cup {Main}) /\ Len(recvq) \in Nat
      /\ \A i \in 1 .. Len(recvq) : recvq[i] \in Gvrs \cup {Main}
      /\ taken \in [Gvrs -> Nat] /\ Main \notin Gvrs
      /\ watcher \in [Gvrs -> {"top", "list", "after", "watch", "select", "returned"}]
  BY LenProperties, ElementOfSeq, ConstantsAssumption DEF IInv, TypeOK, ConstantsAssumption
<1>1. CASE Signal
  BY <1>1 DEF Signal, OrderInv
<1>2. ASSUME NEW g \in Gvrs, Forward(g) PROVE OrderInv'
  BY <1>2 DEF Forward, OrderInv
<1>3. ASSUME NEW g \in Gvrs, Put(g) PROVE OrderInv'
  <2>1. CASE recvq = << >>
    <3>1. UNCHANGED <<watcher, main, recvq, taken>>
      BY <1>3, <2>1 DEF Put
    <3> QED
      BY <3>1 DEF OrderInv
  <2>2. CASE recvq # << >>
    <3>a. Len(recvq) >= 1
      BY <1>0, <2>2, EmptySeq, LenProperties
    <3>b. recvq' = Tail(recvq)
      BY <1>3, <2>2 DEF Put
    <3>1. /\ Head(recvq) = recvq[1] /\ Len(recvq) >= 1
          /\ Len(recvq') = Len(recvq) - 1
          /\ \A i \in 1 .. Len(recvq') : recvq'[i] = recvq[i + 1]
      BY <1>0, <2>2, <3>a, <3>b, HeadTailProperties
    <3>2. \A i \in 1 .. Len(recvq') : i + 1 \in 1 .. Len(recvq) /\ recvq'[i] # recvq[1]
      BY <1>0, <3>1 DEF OrderInv
    <3>3. \A i, j \in 1 .. Len(recvq') : recvq'[i] = recvq'[j] => i = j
      BY <1>0, <3>1, <3>2 DEF OrderInv
    <3>4. CASE Head(recvq) = Main
      <4>1. main' = "exited" /\ UNCHANGED <<watcher, taken>>
        BY <1>3, <2>2, <3>4 DEF Put
      <4>2. \A i \in 1 .. Len(recvq') : recvq'[i] # Main /\ watcher'[recvq'[i]] = "select"
        BY <3>1, <3>2, <3>4, <4>1 DEF OrderInv
      <4> QED
        BY <3>3, <4>1, <4>2 DEF OrderInv
    <3>5. CASE Head(recvq) # Main
      <4> DEFINE h == Head(recvq)
      <4>1. /\ h \in Gvrs /\ main' = main
            /\ watcher' = [watcher EXCEPT ![h] = "after"]
            /\ taken' = [taken EXCEPT ![h] = IF main = "waiting" THEN @ + 1 ELSE @]
        BY <1>0, <1>3, <2>2, <3>1, <3>5 DEF Put, StopInSelect
      <4>2. main = "waiting" => taken[h] = 0
        <5> SUFFICES ASSUME main = "waiting" PROVE taken[h] = 0
          OBVIOUS
        <5>1. PICK i \in 1 .. Len(recvq) : recvq[i] = Main
          BY DEF IInv, WaitInv
        <5>2. 1 \in 1 .. Len(recvq) /\ recvq[1] = h /\ ~ (i < 1)
          BY <1>0, <3>1
        <5>3. taken[h] # 1
          BY <4>1, <5>1, <5>2 DEF OrderInv
        <5> QED
          BY <1>0, <4>1, <5>3 DEF OrderInv
      <4>3. \A i \in 1 .. Len(recvq') :
              /\ recvq'[i] = Main => main' = "waiting"
              /\ recvq'[i] # Main => watcher'[recvq'[i]] = "select"
        <5> SUFFICES ASSUME NEW i \in 1 .. Len(recvq')
                     PROVE  /\ recvq'[i] = Main => main' = "waiting"
                            /\ recvq'[i] # Main => watcher'[recvq'[i]] = "select"
          OBVIOUS
        <5>1. i + 1 \in 1 .. Len(recvq) /\ recvq'[i] = recvq[i + 1] /\ recvq'[i] # h
          BY <3>1, <3>2
        <5>2. recvq'[i] # Main => watcher'[recvq'[i]] = watcher[recvq'[i]]
          BY <1>0, <4>1, <5>1
        <5> QED
          BY <4>1, <5>1, <5>2 DEF OrderInv
      <4>4. /\ \A f \in Gvrs : taken'[f] <= 1
            /\ main' = "starting" => \A f \in Gvrs : taken'[f] = 0
        BY <1>0, <4>1, <4>2 DEF OrderInv
      <4>5. ASSUME main' = "waiting", NEW f \in Gvrs,
                   NEW i \in 1 .. Len(recvq'), NEW j \in 1 .. Len(recvq'),
                   taken'[f] = 1, recvq'[i] = Main, recvq'[j] = f
            PROVE  i < j
        <5>1. f # h /\ taken[f] = 1
          BY <1>0, <3>1, <3>2, <4>1, <4>5
        <5>2. /\ i + 1 \in 1 .. Len(recvq) /\ recvq[i + 1] = Main
              /\ j + 1 \in 1 .. Len(recvq) /\ recvq[j + 1] = f
          BY <3>1, <3>2, <4>5
        <5>3. i + 1 < j + 1
          BY <4>1, <4>5, <5>1, <5>2 DEF OrderInv
        <5> QED
          BY <1>0, <3>1, <5>3
      <4> QED
        BY <3>3, <4>3, <4>4, <4>5 DEF OrderInv
    <3> QED
      BY <3>4, <3>5
  <2> QED
    BY <2>1, <2>2
<1>4. CASE MainReceives
  <2>0. main = "starting" /\ UNCHANGED <<watcher, taken>>
    BY <1>4 DEF MainReceives
  <2>1. \A i \in 1 .. Len(recvq) : recvq[i] # Main
    BY <2>0 DEF OrderInv
  <2>2. CASE main' = "exited" /\ UNCHANGED recvq
    BY <2>0, <2>1, <2>2 DEF OrderInv
  <2>3. CASE main' = "waiting" /\ recvq' = Append(recvq, Main)
    <3>1. /\ Len(recvq') = Len(recvq) + 1 /\ recvq'[Len(recvq) + 1] = Main
          /\ \A i \in 1 .. Len(recvq) : recvq'[i] = recvq[i]
      BY <1>0, <2>3, AppendProperties
    <3>2. \A i, j \in 1 .. Len(recvq') : recvq'[i] = recvq'[j] => i = j
      BY <1>0, <2>1, <3>1 DEF OrderInv
    <3> QED
      BY <1>0, <2>0, <2>3, <3>1, <3>2 DEF OrderInv
  <2> QED
    BY <1>4, <2>2, <2>3 DEF MainReceives
<1>5. ASSUME NEW g \in Gvrs, ShouldStop(g) PROVE OrderInv'
  <2>1. /\ UNCHANGED <<main, recvq, taken>> /\ watcher[g] # "select"
        /\ \E to : watcher' = [watcher EXCEPT ![g] = to]
    BY <1>5 DEF ShouldStop
  <2>2. \A i \in 1 .. Len(recvq) : recvq[i] # Main => watcher'[recvq[i]] = "select"
    BY <1>0, <2>1 DEF OrderInv
  <2> QED
    BY <2>1, <2>2 DEF OrderInv
<1>6. ASSUME NEW g \in Gvrs, EnterSelect(g) PROVE OrderInv'
  <2>1. UNCHANGED <<main, taken>> /\ watcher[g] = "watch"
    BY <1>6 DEF EnterSelect
  <2>2. \A i \in 1 .. Len(recvq) : recvq[i] # g
    BY <1>0, <2>1 DEF OrderInv
  <2>3. CASE UNCHANGED recvq
    <3>1. \E to : watcher' = [watcher EXCEPT ![g] = to]
      BY <1>6 DEF EnterSelect, StopInSelect
    <3>2. \A i \in 1 .. Len(recvq) : recvq[i] # Main => watcher'[recvq[i]] = "select"
      BY <1>0, <2>2, <3>1 DEF OrderInv
    <3> QED
      BY <2>1, <2>3, <3>2 DEF OrderInv
  <2>4. CASE watcher' = [watcher EXCEPT ![g] = "select"] /\ recvq' = Append(recvq, g)
    <3>1. /\ Len(recvq') = Len(recvq) + 1 /\ recvq'[Len(recvq) + 1] = g
          /\ \A i \in 1 .. Len(recvq) : recvq'[i] = recvq[i]
      BY <1>0, <2>4, AppendProperties
    <3>2. \A i, j \in 1 .. Len(recvq') : recvq'[i] = recvq'[j] => i = j
      BY <1>0, <2>2, <3>1 DEF OrderInv
    <3>3. \A i \in 1 .. Len(recvq') :
            /\ recvq'[i] = Main => main' = "waiting"
            /\ recvq'[i] # Main => watcher'[recvq'[i]] = "select"
      BY <1>0, <2>1, <2>4, <3>1 DEF OrderInv
    <3>4. ASSUME main' = "waiting", NEW f \in Gvrs,
                 NEW i \in 1 .. Len(recvq'), NEW j \in 1 .. Len(recvq'),
                 taken'[f] = 1, recvq'[i] = Main, recvq'[j] = f
          PROVE  i < j
      <4>1. i \in 1 .. Len(recvq) /\ recvq[i] = Main
        BY <1>0, <3>1, <3>4
      <4>2. CASE j \in 1 .. Len(recvq)
        BY <2>1, <3>1, <3>4, <4>1, <4>2 DEF OrderInv
      <4>3. CASE j = Len(recvq) + 1
        BY <1>0, <4>1, <4>3
      <4> QED
        BY <1>0, <3>1, <4>2, <4>3
    <3> QED
      BY <2>1, <3>2, <3>3, <3>4 DEF OrderInv
  <2> QED
    BY <1>6, <2>3, <2>4 DEF EnterSelect
<1>7. ASSUME NEW g \in Gvrs, WatchEvent(g) PROVE OrderInv'
  <2>1. /\ UNCHANGED <<main, taken>>
        /\ \E to : watcher' = [watcher EXCEPT ![g] = to]
    BY <1>7 DEF WatchEvent
  <2>2. PICK p \in 1 .. Len(recvq) : recvq[p] = g /\ recvq' = RemoveAt(recvq, p)
    BY <1>0, <1>7 DEF WatchEvent
  <2>3. /\ Len(recvq') = Len(recvq) - 1
        /\ \A k \in 1 .. (Len(recvq) - 1) :
             recvq'[k] = IF k < p THEN recvq[k] ELSE recvq[k + 1]
    BY <1>0, <2>2, RemoveAtMoves
  <2> DEFINE at(k) == IF k < p THEN k ELSE k + 1
  <2>4. \A k \in 1 .. Len(recvq') :
          at(k) \in 1 .. Len(recvq) /\ at(k) # p /\ recvq'[k] = recvq[at(k)]
    BY <1>0, <2>3
  <2>5. \A k, l \in 1 .. Len(recvq') :
          (at(k) = at(l) => k = l) /\ (at(k) < at(l) => k < l)
    BY <1>0, <2>3
  <2> HIDE DEF at
  <2>6. \A k \in 1 .. Len(recvq') : recvq'[k] # g
    BY <2>2, <2>4 DEF OrderInv
  <2>7. \A k, l \in 1 .. Len(recvq') : recvq'[k] = recvq'[l] => k = l
    BY <2>4, <2>5 DEF OrderInv
  <2>8. \A k \in 1 .. Len(recvq') :
          /\ recvq'[k] = Main => main' = "waiting"
          /\ recvq'[k] # Main => watcher'[recvq'[k]] = "select"
    <3> SUFFICES ASSUME NEW k \in 1 .. Len(recvq')
                 PROVE  /\ recvq'[k] = Main => main' = "waiting"
                        /\ recvq'[k] # Main => watcher'[recvq'[k]] = "select"
      OBVIOUS
    <3>1. recvq'[k] # Main => watcher'[recvq'[k]] = watcher[recvq'[k]]
      BY <1>0, <2>1, <2>4, <2>6
    <3> QED
      BY <2>1, <2>4, <3>1 DEF OrderInv
  <2>9. ASSUME main' = "waiting", NEW f \in Gvrs,
               NEW i \in 1 .. Len(recvq'), NEW j \in 1 .. Len(recvq'),
               taken'[f] = 1, recvq'[i] = Main, recvq'[j] = f
        PROVE  i < j
    <3>1. at(i) < at(j)
      BY <2>1, <2>4, <2>9 DEF OrderInv
    <3> QED
      BY <2>5, <3>1
  <2> QED
    BY <2>1, <2>7, <2>8, <2>9 DEF OrderInv
<1>8. CASE UNCHANGED vars
  BY <1>8 DEF vars, OrderInv
<1> QED
  BY <1>1, <1>2, <1>3, <1>4, <1>5, <1>6, <1>7, <1>8 DEF Next, Forwarder, Watcher

\* Every reachable state satisfies the inductive invariant.
THEOREM Invariance == Spec => []IInv
  BY InitInv, StepInv, PTL DEF Spec

\* The channels and the goroutines keep their types.
\* (rorAgentClient, MustStart)
THEOREM TypeCorrect == Spec => []TypeOK
<1>1. IInv => TypeOK
  BY DEF IInv
<1> QED
  BY <1>1, Invariance, PTL

\* Once main waits for the stop, no watcher ever returns: the shouldStop
\* calls of runNoCacheWatcher get nothing.
THEOREM NoReturnOnceMainWaits == Spec => ReturnsOnlyEarly
<1>1. ASSUME IInv, [Next]_vars
      PROVE  [\A g \in Gvrs : watcher[g] # "returned" /\ watcher'[g] = "returned"
                => main = "starting"]_vars
  <2> SUFFICES ASSUME NEW g \in Gvrs, watcher[g] # "returned", watcher'[g] = "returned"
               PROVE  main = "starting"
    OBVIOUS
  <2>1. PICK h \in Gvrs : ShouldStop(h) /\ Senders # {}
    <3>1. watcher' # watcher /\ watcher \in [Gvrs -> {"top", "list", "after", "watch",
                                                     "select", "returned"}]
      BY <1>1 DEF IInv, TypeOK
    <3>2. CASE \E h \in Gvrs : Put(h)
      BY <3>1, <3>2 DEF Put, StopInSelect
    <3>3. CASE \E h \in Gvrs : EnterSelect(h)
      BY <3>1, <3>3 DEF EnterSelect, StopInSelect
    <3>4. CASE \E h \in Gvrs : WatchEvent(h)
      BY <3>1, <3>4 DEF WatchEvent
    <3>5. CASE \E h \in Gvrs : ShouldStop(h)
      <4>1. PICK h \in Gvrs : ShouldStop(h)
        BY <3>5
      <4>2. CASE Senders = {}
        <5>1. \E to \in {"list", "watch", "top"} : watcher' = [watcher EXCEPT ![h] = to]
          BY <3>1, <4>1, <4>2 DEF ShouldStop
        <5> QED
          BY <3>1, <5>1
      <4> QED
        BY <4>1, <4>2
    <3> QED
      BY <1>1, <3>1, <3>2, <3>3, <3>4, <3>5
         DEF Next, Signal, MainReceives, Forwarder, Forward, Watcher, vars
  <2> QED
    BY <1>1, <2>1 DEF IInv, WaitInv, TypeOK, ShouldStop, Alive
<1> QED
  BY <1>1, Invariance, PTL DEF Spec, ReturnsOnlyEarly

\* While main waits no watcher takes a second stop from it: to do so it would
\* have to be in front of main in the queue again.  (noCacheWatch, main)
THEOREM OneStopEach == Spec => []TakesAtMostOne
<1>1. OrderInv => TakesAtMostOne
  BY DEF OrderInv, TakesAtMostOne
<1> QED
  BY <1>1, InitInv, StepInv, OrderInit, OrderStep, PTL DEF Spec
=============================================================================
