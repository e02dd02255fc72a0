-------------------------- MODULE Heartbeat_proofs --------------------------
(***************************************************************************)
(* For any nodes, services and failing reads: the node pools hold every    *)
(* worker under its name, and an ingress that is reported healthy has been *)
(* read completely, each of its services once.                             *)
(***************************************************************************)
EXTENDS Heartbeat, SequenceTheorems, FiniteSetTheorems, WellFoundedInduction, TLAPS

-----------------------------------------------------------------------------
(* Sums *)

\* Induction up to n, for what a set can say of a number.
LEMMA UpTo ==
  ASSUME NEW n \in Nat, NEW T, 0 \in T, \A i \in 1 .. n : i - 1 \in T => i \in T
  PROVE  n \in T /\ \A i \in 0 .. n : i \in T
<1> DEFINE Rest == {i \in 0 .. n : i \notin T}
<1>1. SUFFICES ASSUME Rest # {} PROVE FALSE
  OBVIOUS
<1>2. \E i \in Rest : \A j \in Rest : ~ (<<j, i>> \in OpToRel(<, Nat))
  <2>1. Rest \subseteq Nat
    OBVIOUS
  <2> HIDE DEF Rest
  <2> QED
    BY <1>1, <2>1, NatLessThanWellFounded, WFMin
<1>3. PICK i \in Rest : \A j \in Rest : <<j, i>> \notin OpToRel(<, Nat)
  BY <1>2
<1>4. i \in 1 .. n /\ i - 1 \in 0 .. n
  OBVIOUS
<1>5. i - 1 \notin Rest
  <2>1. <<i - 1, i>> \in Nat \X Nat /\ i - 1 < i
    BY <1>4
  <2> QED
    BY <1>3, <2>1 DEF OpToRel
<1> QED
  BY <1>4, <1>5

LEMMA GreatestOfInterval ==
  ASSUME NEW m \in Nat, NEW S \in SUBSET (1 .. (m + 1)), m + 1 \in S
  PROVE  Max(S) = m + 1
<1>1. \A x \in S : (\A y \in S : x >= y) => x = m + 1
  OBVIOUS
<1>2. \A y \in S : m + 1 >= y
  OBVIOUS
<1> QED
  BY <1>1, <1>2 DEF Max

\* The equation of the fold that makes a sum has a solution.
Folds(g, f, m) ==
  \A S \in SUBSET (1 .. m) :
    g[S] = IF S = {} THEN 0 ELSE g[S \ {Max(S)}] + f[Max(S)]

LEMMA FoldExists ==
  ASSUME NEW n \in Nat, NEW f \in [1 .. n -> Nat]
  PROVE  \E g \in [SUBSET (1 .. n) -> Nat] : Folds(g, f, n)
<1> DEFINE T == {m \in 0 .. n : \E g \in [SUBSET (1 .. m) -> Nat] : Folds(g, f, m)}
<1>1. 0 \in T
  <2> DEFINE g == [S \in SUBSET (1 .. 0) |-> 0]
  <2>1. \A S \in SUBSET (1 .. 0) : S = {}
    OBVIOUS
  <2>2. g \in [SUBSET (1 .. 0) -> Nat] /\ Folds(g, f, 0)
    BY <2>1 DEF Folds
  <2> QED
    BY <2>2
<1>2. ASSUME NEW i \in 1 .. n, i - 1 \in T
      PROVE  i \in T
  <2> DEFINE m == i - 1
  <2>1. PICK g \in [SUBSET (1 .. m) -> Nat] : Folds(g, f, m)
    BY <1>2
  <2>2. m \in Nat /\ i = m + 1 /\ f[i] \in Nat
    OBVIOUS
  <2> DEFINE h == [S \in SUBSET (1 .. i) |->
                     IF i \in S THEN g[S \ {i}] + f[i] ELSE g[S]]
  <2>3. \A S \in SUBSET (1 .. i) : /\ S \ {i} \in SUBSET (1 .. m)
                                  /\ i \notin S => S \in SUBSET (1 .. m)
    BY <2>2
  <2>4. h \in [SUBSET (1 .. i) -> Nat]
    BY <2>1, <2>2, <2>3
  <2>5. Folds(h, f, i)
    <3> SUFFICES ASSUME NEW S \in SUBSET (1 .. i)
                 PROVE  h[S] = IF S = {} THEN 0 ELSE h[S \ {Max(S)}] + f[Max(S)]
      BY DEF Folds
    <3>1. CASE i \in S
      <4>1. Max(S) = i
        BY <2>2, <3>1, GreatestOfInterval
      <4>2. h[S \ {i}] = g[S \ {i}]
        BY <2>3
      <4> QED
        BY <3>1, <4>1, <4>2
    <3>2. CASE i \notin S
      <4>1. h[S] = g[S] /\ S \in SUBSET (1 .. m)
        BY <2>3, <3>2
      <4>2. h[S \ {Max(S)}] = g[S \ {Max(S)}]
        BY <2>3, <3>2
      <4> QED
        BY <2>1, <4>1, <4>2 DEF Folds
    <3> QED
      BY <3>1, <3>2
  <2>6. \E k \in [SUBSET (1 .. i) -> Nat] : Folds(k, f, i)
    <3> HIDE DEF h
    <3> QED
      BY <2>4, <2>5
  <2> QED
    BY <2>6
<1> HIDE DEF T
<1>3. n \in T
  BY <1>1, <1>2, UpTo
<1> QED
  BY <1>3 DEF T

\* A sum is the last of the running totals.
RunningTotals(s, f) ==
  /\ s \in [0 .. Len(f) -> Nat]
  /\ s[0] = 0
  /\ \A i \in 1 .. Len(f) : s[i] = s[i - 1] + f[i]

LEMMA SumRuns ==
  ASSUME NEW f \in Seq(Nat)
  PROVE  \E s : RunningTotals(s, f) /\ Sum(f) = s[Len(f)]
<1> DEFINE n == Len(f)
           F(g) == [S \in SUBSET (1 .. n) |-> IF S = {} THEN 0 ELSE g[S \ {Max(S)}] + f[Max(S)]]
<1>1. n \in Nat /\ DOMAIN f = 1 .. n /\ f \in [1 .. n -> Nat]
  BY LenProperties
<1>2. PICK g : g = CHOOSE h : h = F(h)
  OBVIOUS
<1>3. Sum(f) = g[1 .. n]
  BY <1>1, <1>2 DEF Sum, FoldLeft, MapThenFoldSet
<1>4. g = F(g)
  <2>1. PICK h \in [SUBSET (1 .. n) -> Nat] : Folds(h, f, n)
    BY <1>1, FoldExists
  <2>2. h = F(h)
    BY <2>1 DEF Folds
  <2> HIDE DEF F
  <2> QED
    BY <1>2, <2>2
<1> HIDE DEF n
<1> DEFINE s == [i \in 0 .. n |-> g[1 .. i]]
<1>5. s[0] = 0
  BY <1>1, <1>4
<1>6. ASSUME NEW i \in 1 .. n
      PROVE  s[i] = s[i - 1] + f[i]
  <2>1. i - 1 \in Nat /\ i = (i - 1) + 1 /\ i \in 1 .. i /\ 1 .. i \in SUBSET (1 .. n)
    BY <1>1
  <2>2. Max(1 .. i) = i
    BY <2>1, GreatestOfInterval
  <2>3. (1 .. i) \ {i} = 1 .. (i - 1)
    BY <2>1
  <2>4. g[1 .. i] = g[(1 .. i) \ {Max(1 .. i)}] + f[Max(1 .. i)]
    BY <1>4, <2>1
  <2>5. s[i] = g[1 .. i] /\ s[i - 1] = g[1 .. (i - 1)]
    BY <1>1, <2>1
  <2> QED
    BY <2>2, <2>3, <2>4, <2>5
<1> DEFINE T == {i \in 0 .. n : s[i] \in Nat}
<1>7. 0 \in T
  BY <1>1, <1>5
<1>8. \A i \in 1 .. n : i - 1 \in T => i \in T
  <2> SUFFICES ASSUME NEW i \in 1 .. n, i - 1 \in T PROVE s[i] \in Nat
    BY <1>1
  <2>1. f[i] \in Nat /\ s[i - 1] \in Nat
    BY <1>1
  <2> HIDE DEF s
  <2> QED
    BY <1>6, <2>1
<1>9. \A i \in 0 .. n : s[i] \in Nat
  <2> HIDE DEF T, s
  <2>1. \A i \in 0 .. n : i \in T
    BY <1>1, <1>7, <1>8, UpTo
  <2> QED
    BY <2>1 DEF T
<1>10. RunningTotals(s, f)
  <2>1. s \in [0 .. n -> Nat]
    BY <1>9
  <2> HIDE DEF s
  <2> QED
    BY <1>5, <1>6, <2>1 DEF RunningTotals, n
<1>11. Sum(f) = s[n]
  BY <1>1, <1>3
<1> QED
  BY <1>10, <1>11 DEF n

\* A sum of no numbers.
LEMMA SumOfNone ==
  ASSUME NEW f \in Seq(Nat), Len(f) = 0
  PROVE  Sum(f) = 0
BY SumRuns DEF RunningTotals

LEMMA SumIsNat ==
  ASSUME NEW f \in Seq(Nat)
  PROVE  Sum(f) \in Nat
<1>1. Len(f) \in Nat
  BY LenProperties
<1> QED
  BY <1>1, SumRuns DEF RunningTotals

\* A number more.
LEMMA SumOfMore ==
  ASSUME NEW f \in Seq(Nat), NEW h \in Seq(Nat), Len(h) = Len(f) + 1,
         \A i \in 1 .. Len(f) : h[i] = f[i]
  PROVE  Sum(h) = Sum(f) + h[Len(h)]
<1> DEFINE n == Len(f)
<1>1. n \in Nat
  BY LenProperties
<1>2. PICK s : RunningTotals(s, f) /\ Sum(f) = s[n]
  BY SumRuns
<1>3. PICK t : RunningTotals(t, h) /\ Sum(h) = t[n + 1]
  BY SumRuns
<1> DEFINE T == {i \in 0 .. n : t[i] = s[i]}
<1>4. 0 \in T
  BY <1>1, <1>2, <1>3 DEF RunningTotals
<1>5. \A i \in 1 .. n : i - 1 \in T => i \in T
  BY <1>1, <1>2, <1>3 DEF RunningTotals
<1>6. t[n + 1] = t[n] + h[n + 1]
  <2>1. n + 1 \in 1 .. Len(h) /\ (n + 1) - 1 = n
    BY <1>1
  <2> HIDE DEF n
  <2> QED
    BY <1>3, <2>1 DEF RunningTotals
<1>7. n \in T
  <2> HIDE DEF T, n
  <2> QED
    BY <1>1, <1>4, <1>5, UpTo
<1>8. t[n] = s[n]
  BY <1>7
<1> HIDE DEF T
<1> QED
  BY <1>2, <1>3, <1>6, <1>8

\* One of the numbers is changed.
LEMMA SumOfChange ==
  ASSUME NEW f \in Seq(Nat), NEW h \in Seq(Nat), Len(h) = Len(f),
         NEW k \in 1 .. Len(f), NEW d \in Nat, h[k] = f[k] + d,
         \A i \in 1 .. Len(f) : i # k => h[i] = f[i]
  PROVE  Sum(h) = Sum(f) + d
<1> DEFINE n == Len(f)
<1>1. n \in Nat /\ \A i \in 1 .. n : f[i] \in Nat /\ h[i] \in Nat
  BY LenProperties, ElementOfSeq
<1>2. PICK s : RunningTotals(s, f) /\ Sum(f) = s[n]
  BY SumRuns
<1>3. PICK t : RunningTotals(t, h) /\ Sum(h) = t[n]
  BY SumRuns
<1>4. /\ \A i \in 0 .. n : s[i] \in Nat /\ t[i] \in Nat
      /\ s[0] = 0 /\ t[0] = 0
      /\ \A i \in 1 .. n : s[i] = s[i - 1] + f[i] /\ t[i] = t[i - 1] + h[i]
  BY <1>2, <1>3 DEF RunningTotals
<1> HIDE DEF n
<1> DEFINE T == {i \in 0 .. n : t[i] = IF i < k THEN s[i] ELSE s[i] + d}
<1>5. 0 \in T
  BY <1>1, <1>4
<1>6. ASSUME NEW i \in 1 .. n, i - 1 \in T
      PROVE  i \in T
  <2>1. /\ i - 1 \in 0 .. n /\ i \in 0 .. n /\ k \in 1 .. n
        /\ t[i - 1] = IF i - 1 < k THEN s[i - 1] ELSE s[i - 1] + d
    BY <1>1, <1>6 DEF n
  <2>2. /\ s[i] = s[i - 1] + f[i] /\ t[i] = t[i - 1] + h[i]
        /\ s[i - 1] \in Nat /\ f[i] \in Nat
    BY <1>1, <1>4, <2>1
  <2>3. CASE i = k
    BY <2>1, <2>2, <2>3
  <2>4. CASE i # k
    <3>1. h[i] = f[i]
      BY <2>4 DEF n
    <3>2. i < k <=> i - 1 < k
      BY <1>1, <2>1, <2>4
    <3>3. CASE i < k
      <4>1. t[i - 1] = s[i - 1]
        BY <2>1, <3>2, <3>3
      <4>2. t[i] = s[i]
        BY <2>2, <3>1, <4>1
      <4> QED
        BY <2>1, <3>3, <4>2
    <3>4. CASE ~ (i < k)
      <4>1. t[i - 1] = s[i - 1] + d
        BY <2>1, <3>2, <3>4
      <4>2. t[i] = s[i] + d
        <5>1. \A a, b, c \in Nat : (a + b) + c = (a + c) + b
          OBVIOUS
        <5>2. t[i] = (s[i - 1] + d) + f[i]
          BY <2>2, <3>1, <4>1
        <5>3. (s[i - 1] + d) + f[i] = (s[i - 1] + f[i]) + d
          BY <2>2, <5>1
        <5> QED
          BY <2>2, <5>2, <5>3
      <4> QED
        BY <2>1, <3>4, <4>2
    <3> QED
      BY <3>3, <3>4
  <2> QED
    BY <2>3, <2>4
<1>7. n \in T
  <2> HIDE DEF T
  <2> QED
    BY <1>1, <1>5, <1>6, UpTo
<1> QED
  BY <1>1, <1>2, <1>3, <1>7 DEF n

-----------------------------------------------------------------------------
(* Ingresses *)

Path == [name : Services, service : Service]
Rule == [address : BOOLEAN, paths : Seq(Path)]

\* What a path says was read, and kept, or could not be read.
Read(path) ==
  \/ path.name \in DOMAIN cache /\ path.service = cache[path.name]
  \/ failed /\ path.service = NoService

IngressTypeInv ==
  /\ building \in {"no", "yes", "panic"} /\ known \in BOOLEAN /\ failed \in BOOLEAN
  /\ rules \in Seq(Rule)
  /\ DOMAIN cache \subseteq Services
  /\ \A s \in DOMAIN cache : cache[s] \in Service

IngressInv ==
  /\ IngressTypeInv
  /\ \A i \in 1 .. Len(rules) : \A j \in 1 .. Len(rules[i].paths) : Read(rules[i].paths[j])
  /\ failed => \E i \in 1 .. Len(rules) : \E j \in 1 .. Len(rules[i].paths) :
                 rules[i].paths[j].service = NoService

Ingress == [health : {1, 3}, rules : Seq(Rule), failed : BOOLEAN]

ReportedInv == ingresses \in Seq(Ingress) /\ HealthyIsRead /\ OneAnswer

LEMMA AnswersAreServices == Answers \subseteq Service /\ NoService \in Service
<1>1. NoService \in Service
  BY DEF Service, NoService
<1>2. [type : {"NodePort", "other"}, endpoints : BOOLEAN] \subseteq Service
  BY Zenon DEF Service
<1> QED
  BY <1>1, <1>2 DEF Answers

\* AddPath: a path more in the last rule.
LEMMA AddPathFacts ==
  ASSUME IngressTypeInv, NEW s \in Services, NEW service \in Service, HasRoom, AddPath(s, service)
  PROVE  /\ rules' \in Seq(Rule) /\ Len(rules') = Len(rules) /\ Len(rules) \in Nat \ {0}
         /\ \A i \in 1 .. Len(rules) : i # Len(rules) => rules'[i] = rules[i]
         /\ rules'[Len(rules)].paths =
              Append(rules[Len(rules)].paths, [name |-> s, service |-> service])
         /\ rules[Len(rules)].paths \in Seq(Path)
         /\ [name |-> s, service |-> service] \in Path
<1> DEFINE n == Len(rules)
           path == [name |-> s, service |-> service]
<1>1. n \in Nat \ {0} /\ n \in 1 .. n
  <2>1. rules # << >>
    BY Zenon DEF HasRoom
  <2> QED
    BY <2>1, EmptySeq DEF IngressTypeInv
<1>2. rules[n] \in Rule /\ path \in Path
  BY <1>1, ElementOfSeq DEF IngressTypeInv, Path
<1>3. rules[n].paths \in Seq(Path)
  BY <1>2 DEF Rule
<1>4. Append(rules[n].paths, path) \in Seq(Path)
  BY <1>2, <1>3, AppendProperties
<1> DEFINE rule == [rules[n] EXCEPT !.paths = Append(rules[n].paths, path)]
<1>5. rule \in Rule /\ rule.paths = Append(rules[n].paths, path)
  BY <1>2, <1>4 DEF Rule
<1>6. rules' = [rules EXCEPT ![n] = rule]
  BY DEF AddPath
<1> HIDE DEF rule, path, n
<1>7. /\ [rules EXCEPT ![n] = rule] \in Seq(Rule)
      /\ Len([rules EXCEPT ![n] = rule]) = Len(rules)
      /\ \A i \in 1 .. Len(rules) : [rules EXCEPT ![n] = rule][i] = IF i = n THEN rule ELSE rules[i]
  BY <1>1, <1>5, ExceptSeq DEF IngressTypeInv, n
<1> QED
  BY <1>1, <1>2, <1>3, <1>5, <1>6, <1>7 DEF n, path

\* The paths after AddPath.
LEMMA PathsAfter ==
  ASSUME IngressTypeInv, NEW s \in Services, NEW service \in Service, HasRoom, AddPath(s, service)
  PROVE  /\ \A i \in 1 .. Len(rules') : \A j \in 1 .. Len(rules'[i].paths) :
              \/ rules'[i].paths[j] = [name |-> s, service |-> service]
              \/ i \in 1 .. Len(rules) /\ j \in 1 .. Len(rules[i].paths)
                 /\ rules'[i].paths[j] = rules[i].paths[j]
         /\ \A i \in 1 .. Len(rules) : \A j \in 1 .. Len(rules[i].paths) :
              j \in 1 .. Len(rules'[i].paths) /\ rules'[i].paths[j] = rules[i].paths[j]
         /\ \E i \in 1 .. Len(rules') : \E j \in 1 .. Len(rules'[i].paths) :
              rules'[i].paths[j] = [name |-> s, service |-> service]
<1> DEFINE n == Len(rules)
           path == [name |-> s, service |-> service]
<1>1. /\ Len(rules') = n /\ n \in Nat \ {0}
      /\ \A i \in 1 .. n : i # n => rules'[i] = rules[i]
      /\ rules'[n].paths = Append(rules[n].paths, path)
      /\ rules[n].paths \in Seq(Path) /\ path \in Path
  BY AddPathFacts
<1> HIDE DEF path
<1>2. /\ Len(rules'[n].paths) = Len(rules[n].paths) + 1
      /\ rules'[n].paths[Len(rules[n].paths) + 1] = path
      /\ \A j \in 1 .. Len(rules[n].paths) : rules'[n].paths[j] = rules[n].paths[j]
      /\ Len(rules[n].paths) \in Nat
  BY <1>1, AppendProperties, LenProperties
<1> HIDE DEF n
<1>3. ASSUME NEW i \in 1 .. n, NEW j \in 1 .. Len(rules'[i].paths)
      PROVE  \/ rules'[i].paths[j] = path
             \/ j \in 1 .. Len(rules[i].paths) /\ rules'[i].paths[j] = rules[i].paths[j]
  <2>1. CASE i # n
    <3>1. rules'[i] = rules[i]
      BY <1>1, <2>1
    <3> QED
      BY <1>3, <3>1
  <2>2. CASE i = n
    <3>1. j \in 1 .. Len(rules[n].paths) \/ j = Len(rules[n].paths) + 1
      BY <1>2, <1>3, <2>2
    <3> QED
      BY <1>2, <2>2, <3>1
  <2> QED
    BY <2>1, <2>2
<1>4. ASSUME NEW i \in 1 .. n, NEW j \in 1 .. Len(rules[i].paths)
      PROVE  j \in 1 .. Len(rules'[i].paths) /\ rules'[i].paths[j] = rules[i].paths[j]
  <2>1. CASE i # n
    <3>1. rules'[i] = rules[i]
      BY <1>1, <2>1
    <3> QED
      BY <3>1
  <2>2. CASE i = n
    <3>1. j \in 1 .. Len(rules[n].paths) /\ j \in 1 .. Len(rules'[n].paths)
      BY <1>2, <2>2
    <3>2. rules'[n].paths[j] = rules[n].paths[j]
      BY <1>2, <3>1
    <3> QED
      BY <2>2, <3>1, <3>2
  <2> QED
    BY <2>1, <2>2
<1>5. n \in 1 .. n /\ Len(rules[n].paths) + 1 \in 1 .. Len(rules'[n].paths)
  BY <1>1, <1>2
<1> QED
  BY <1>1, <1>2, <1>3, <1>4, <1>5 DEF n, path

\* A path more, read or not: what holds of the paths holds of them still.
LEMMA PathKeeps ==
  ASSUME IngressInv, NEW s \in Services, NEW service \in Service, HasRoom, AddPath(s, service),
         UNCHANGED <<building, known>>, failed' \in BOOLEAN,
         DOMAIN cache' \subseteq Services, \A t \in DOMAIN cache' : cache'[t] \in Service,
         \A t \in DOMAIN cache : t \in DOMAIN cache' /\ cache'[t] = cache[t],
         failed => failed',
         failed' => failed \/ service = NoService,
         Read([name |-> s, service |-> service])'
  PROVE  IngressInv'
<1> DEFINE path == [name |-> s, service |-> service]
<1>1. IngressTypeInv'
  BY AddPathFacts DEF IngressInv, IngressTypeInv
<1>2. ASSUME NEW i \in 1 .. Len(rules'), NEW j \in 1 .. Len(rules'[i].paths)
      PROVE  Read(rules[i].paths[j])'
  <2>1. CASE rules'[i].paths[j] = path
    BY <2>1
  <2>2. CASE i \in 1 .. Len(rules) /\ j \in 1 .. Len(rules[i].paths)
             /\ rules'[i].paths[j] = rules[i].paths[j]
    BY <2>2 DEF IngressInv, Read
  <2> QED
    BY <1>2, <2>1, <2>2, PathsAfter DEF IngressInv
<1>3. ASSUME failed'
      PROVE  \E i \in 1 .. Len(rules') : \E j \in 1 .. Len(rules'[i].paths) :
               rules'[i].paths[j].service = NoService
  <2>1. CASE failed
    <3>1. PICK i \in 1 .. Len(rules) : \E j \in 1 .. Len(rules[i].paths) :
                 rules[i].paths[j].service = NoService
      BY <2>1 DEF IngressInv
    <3>2. PICK j \in 1 .. Len(rules[i].paths) : rules[i].paths[j].service = NoService
      BY <3>1
    <3>3. /\ Len(rules') = Len(rules)
          /\ j \in 1 .. Len(rules'[i].paths) /\ rules'[i].paths[j] = rules[i].paths[j]
      BY AddPathFacts, PathsAfter DEF IngressInv
    <3> QED
      BY <3>2, <3>3
  <2>2. CASE service = NoService
    <3>1. PICK i \in 1 .. Len(rules') : \E j \in 1 .. Len(rules'[i].paths) :
                 rules'[i].paths[j] = path
      BY PathsAfter DEF IngressInv
    <3> QED
      BY <2>2, <3>1
  <2> QED
    BY <1>3, <2>1, <2>2
<1> QED
  BY <1>1, <1>2, <1>3 DEF IngressInv

LEMMA EmptyFacts ==
  /\ DOMAIN << >> = {} /\ Len(<< >>) = 0
  /\ \A S : << >> \in Seq(S)
<1>1. \A S : << >> \in Seq(S) /\ Len(<< >>) = 0
  BY EmptySeq
<1>2. DOMAIN << >> = 1 .. Len(<< >>)
  BY <1>1, LenProperties
<1> QED
  BY <1>1, <1>2

\* An ingress that is begun, or none.
Blank == rules = << >> /\ cache = << >> /\ failed = FALSE

BlankIngress == Blank /\ building \in {"no", "yes", "panic"} /\ known \in BOOLEAN

LEMMA BlankKeeps == BlankIngress => IngressInv
<1> SUFFICES ASSUME BlankIngress PROVE IngressInv
  OBVIOUS
<1>1. /\ DOMAIN cache = {} /\ Len(rules) = 0 /\ rules \in Seq(Rule)
      /\ failed = FALSE
  BY EmptyFacts DEF Blank, BlankIngress
<1>2. failed \in BOOLEAN
  BY <1>1
<1>3. IngressTypeInv
  BY <1>1, <1>2 DEF IngressTypeInv, BlankIngress
<1> QED
  BY <1>1, <1>3 DEF IngressInv

LEMMA BlankKeepsNext == BlankIngress' => IngressInv'
BY BlankKeeps, PTL

LEMMA IngressStep ==
  ASSUME IngressInv, IngressNext
  PROVE  IngressInv'
<1>1. CASE BeginIngress
  <2>1. Blank' /\ building' = "yes" /\ known' \in BOOLEAN
    BY <1>1 DEF BeginIngress, Blank
  <2> QED
    BY <2>1, BlankKeepsNext DEF BlankIngress
<1>2. ASSUME NEW address \in BOOLEAN, AddRule(address) PROVE IngressInv'
  <2> DEFINE rule == [address |-> address, paths |-> << >>]
  <2>1. rule \in Rule /\ Len(rule.paths) = 0
    BY EmptySeq DEF Rule
  <2>2. rules \in Seq(Rule) /\ rules' = Append(rules, rule)
        /\ UNCHANGED <<building, known, cache, failed>>
    BY <1>2 DEF AddRule, IngressInv, IngressTypeInv
  <2> HIDE DEF rule
  <2>3. /\ rules' \in Seq(Rule) /\ Len(rules') = Len(rules) + 1 /\ Len(rules) \in Nat
        /\ rules'[Len(rules) + 1] = rule
        /\ \A i \in 1 .. Len(rules) : rules'[i] = rules[i]
    BY <2>1, <2>2, AppendProperties, LenProperties
  <2>4. IngressTypeInv'
    BY <2>2, <2>3 DEF IngressInv, IngressTypeInv
  <2>5. ASSUME NEW i \in 1 .. Len(rules'), NEW j \in 1 .. Len(rules'[i].paths)
        PROVE  i \in 1 .. Len(rules) /\ rules'[i] = rules[i]
    <3>1. i # Len(rules) + 1
      BY <2>1, <2>3, <2>5
    <3> QED
      BY <2>3, <3>1
  <2>6. \A i \in 1 .. Len(rules') : \A j \in 1 .. Len(rules'[i].paths) : Read(rules[i].paths[j])'
    BY <2>2, <2>5 DEF IngressInv, Read
  <2>7. failed' => \E i \in 1 .. Len(rules') : \E j \in 1 .. Len(rules'[i].paths) :
                     rules'[i].paths[j].service = NoService
    <3> SUFFICES ASSUME failed
                 PROVE  \E i \in 1 .. Len(rules') : \E j \in 1 .. Len(rules'[i].paths) :
                          rules'[i].paths[j].service = NoService
      BY <2>2
    <3>1. PICK i \in 1 .. Len(rules) : \E j \in 1 .. Len(rules[i].paths) :
                 rules[i].paths[j].service = NoService
      BY DEF IngressInv
    <3>2. i \in 1 .. Len(rules') /\ rules'[i] = rules[i]
      BY <2>3
    <3> QED
      BY <3>1, <3>2
  <2> QED
    BY <2>4, <2>6, <2>7 DEF IngressInv
<1>3. ASSUME NEW s \in Services, PathFromCache(s) PROVE IngressInv'
  <2>1. cache[s] \in Service /\ s \in DOMAIN cache
    BY <1>3 DEF PathFromCache, IngressInv, IngressTypeInv
  <2>2. HasRoom /\ AddPath(s, cache[s]) /\ UNCHANGED <<building, known, cache, failed>>
    BY <1>3 DEF PathFromCache
  <2>3. Read([name |-> s, service |-> cache[s]])'
    BY <2>1, <2>2 DEF Read
  <2> QED
    BY <2>1, <2>2, <2>3, PathKeeps DEF IngressInv, IngressTypeInv
<1>4. ASSUME NEW s \in Services, PathFromCluster(s) PROVE IngressInv'
  <2>1. PICK service \in Answers : AddPath(s, service) /\ cache' = Cached(s, service)
    BY <1>4 DEF PathFromCluster
  <2>2. service \in Service
    BY AnswersAreServices
  <2>3. HasRoom /\ s \notin DOMAIN cache /\ UNCHANGED <<building, known, failed>>
    BY <1>4 DEF PathFromCluster
  <2>4. /\ DOMAIN cache' = DOMAIN cache \cup {s} /\ cache'[s] = service
        /\ \A t \in DOMAIN cache : cache'[t] = cache[t]
    BY <2>1, <2>3 DEF Cached
  <2>5. Read([name |-> s, service |-> service])'
    BY <2>4 DEF Read
  <2> QED
    BY <2>1, <2>2, <2>3, <2>4, <2>5, PathKeeps DEF IngressInv, IngressTypeInv
<1>5. ASSUME NEW s \in Services, PathFails(s) PROVE IngressInv'
  <2>1. /\ HasRoom /\ AddPath(s, NoService) /\ failed' = TRUE
        /\ UNCHANGED <<building, known, cache>>
    BY <1>5 DEF PathFails
  <2>2. Read([name |-> s, service |-> NoService])'
    BY <2>1 DEF Read
  <2> QED
    BY <2>1, <2>2, AnswersAreServices, PathKeeps DEF IngressInv, IngressTypeInv
<1>6. CASE PathWithoutService
  <2>1. building' = "panic" /\ UNCHANGED <<known, rules, cache, failed>>
    BY <1>6 DEF PathWithoutService
  <2> QED
    BY <2>1 DEF IngressInv, IngressTypeInv, Read
<1>7. CASE EndIngress
  <2>1. Blank' /\ building' = "no" /\ known' \in BOOLEAN
    BY <1>7 DEF EndIngress, Blank
  <2> QED
    BY <2>1, BlankKeepsNext DEF BlankIngress
<1> QED
  BY <1>1, <1>2, <1>3, <1>4, <1>5, <1>6, <1>7 DEF IngressNext

\* The ingress that is being built, as it would be reported.
Built == [health |-> Health, rules |-> rules, failed |-> failed]

LEMMA BuiltFacts ==
  ASSUME IngressInv
  PROVE  /\ Built \in Ingress
         /\ Built.health = 1 => ~ Built.failed
         /\ \A p, q \in Paths(Built) :
              p.name = q.name => p = q \/ (Built.failed /\ NoService \in {p.service, q.service})
<1>1. Built.health = Health /\ Built.rules = rules /\ Built.failed = failed
  BY DEF Built
<1>2. Health \in {1, 3}
  BY Zenon DEF Health
<1>3. Built \in Ingress
  BY <1>2 DEF Built, Ingress, IngressInv, IngressTypeInv
<1>4. DOMAIN rules = 1 .. Len(rules) /\ \A i \in 1 .. Len(rules) :
        /\ rules[i].paths \in Seq(Path)
        /\ DOMAIN rules[i].paths = 1 .. Len(rules[i].paths)
  <2>1. rules \in Seq(Rule)
    BY DEF IngressInv, IngressTypeInv
  <2>2. \A i \in 1 .. Len(rules) : rules[i] \in Rule
    BY <2>1, ElementOfSeq
  <2>3. \A i \in 1 .. Len(rules) : rules[i].paths \in Seq(Path)
    BY <2>2 DEF Rule
  <2> QED
    BY <2>1, <2>3, LenProperties
<1>5. Health = 1 => ~ failed
  <2> SUFFICES ASSUME failed PROVE Health # 1
    OBVIOUS
  <2>1. PICK i \in 1 .. Len(rules) : \E j \in 1 .. Len(rules[i].paths) :
               rules[i].paths[j].service = NoService
    BY DEF IngressInv
  <2>2. PICK j \in 1 .. Len(rules[i].paths) : rules[i].paths[j].service = NoService
    BY <2>1
  <2>3. ~ IsNodePort(rules[i].paths[j])
    <3>1. NoService.type # "NodePort"
      BY DEF NoService
    <3> QED
      BY Zenon, <2>2, <3>1 DEF IsNodePort
  <2>4. i \in DOMAIN rules /\ j \in DOMAIN rules[i].paths
    BY <1>4
  <2> QED
    BY <2>3, <2>4 DEF Health
<1>6. \A p \in Paths(Built) : p \in Path /\ Read(p)
  <2> SUFFICES ASSUME NEW p \in Paths(Built) PROVE p \in Path /\ Read(p)
    OBVIOUS
  <2>1. PICK i \in DOMAIN rules : p \in ToSet(rules[i].paths)
    BY <1>1 DEF Paths
  <2>2. PICK j \in DOMAIN rules[i].paths : p = rules[i].paths[j]
    BY <2>1 DEF ToSet
  <2>3. i \in 1 .. Len(rules) /\ j \in 1 .. Len(rules[i].paths)
    BY <1>4
  <2> QED
    BY <1>4, <2>2, <2>3, ElementOfSeq DEF IngressInv
<1>7. ASSUME NEW p \in Paths(Built), NEW q \in Paths(Built), p.name = q.name
      PROVE  p = q \/ (failed /\ NoService \in {p.service, q.service})
  <2>1. p \in Path /\ q \in Path /\ Read(p) /\ Read(q)
    BY <1>6
  <2>2. p.service = q.service => p = q
    BY <1>7, <2>1 DEF Path
  <2> QED
    BY <1>7, <2>1, <2>2 DEF Read
<1> QED
  BY <1>1, <1>3, <1>5, <1>7

LEMMA ReportedStep ==
  ASSUME IngressInv, ReportedInv, IngressNext
  PROVE  ReportedInv'
<1>1. CASE UNCHANGED ingresses
  BY <1>1 DEF ReportedInv, HealthyIsRead, OneAnswer
<1>2. CASE EndIngress /\ rules # << >>
  <2>1. ingresses' = Append(ingresses, Built)
    BY <1>2 DEF EndIngress, Built
  <2>2. /\ ingresses' \in Seq(Ingress)
        /\ Len(ingresses') = Len(ingresses) + 1 /\ Len(ingresses) \in Nat
        /\ ingresses'[Len(ingresses) + 1] = Built
        /\ \A k \in 1 .. Len(ingresses) : ingresses'[k] = ingresses[k]
    BY <2>1, BuiltFacts, AppendProperties, LenProperties DEF ReportedInv
  <2>3. DOMAIN ingresses' = 1 .. (Len(ingresses) + 1)
        /\ DOMAIN ingresses = 1 .. Len(ingresses)
    BY <2>2, LenProperties DEF ReportedInv
  <2>4. \A k \in DOMAIN ingresses' :
          \/ k \in DOMAIN ingresses /\ ingresses'[k] = ingresses[k]
          \/ ingresses'[k] = Built
    BY <2>2, <2>3
  <2>5. HealthyIsRead'
    BY <2>4, BuiltFacts DEF HealthyIsRead, ReportedInv
  <2>6. OneAnswer'
    BY <2>4, BuiltFacts DEF OneAnswer, ReportedInv, Paths
  <2> QED
    BY <2>2, <2>5, <2>6 DEF ReportedInv
<1> QED
  BY <1>1, <1>2 DEF IngressNext, BeginIngress, AddRule, PathFromCache, PathFromCluster,
                    PathFails, PathWithoutService, EndIngress

-----------------------------------------------------------------------------
(* Node pools *)

Node == [name : Nat, control : BOOLEAN, worker : Workers \cup {NoName}, cpu : Nat]
Pool == [name : Workers \cup {NoName}, nodes : Seq(Node), nodeCount : Nat, cpu : Nat]

PoolTypeInv ==
  /\ nodes \in Seq(Node)
  /\ nodePools \in Seq(Pool)
  /\ done \in 0 .. Len(nodes)

\* The node is a worker that was counted.
Worker(node) == node.name \in 1 .. done /\ node = nodes[node.name] /\ ~ node.control

\* The pools hold nothing but the workers that were counted, each once in the
\* one of its name.
PoolsInv ==
  /\ PoolTypeInv
  /\ \A i \in 1 .. Len(nodes) : nodes[i].name = i
  /\ \A p, q \in 1 .. Len(nodePools) : nodePools[p].name = nodePools[q].name => p = q
  /\ \A i \in 1 .. done : ~ nodes[i].control =>
       \E p \in 1 .. Len(nodePools) :
         /\ nodePools[p].name = nodes[i].worker
         /\ \E k \in 1 .. Len(nodePools[p].nodes) : nodePools[p].nodes[k] = nodes[i]
  /\ \A p \in 1 .. Len(nodePools) :
       /\ nodePools[p].nodeCount = Len(nodePools[p].nodes)
       /\ \A k \in 1 .. Len(nodePools[p].nodes) :
            /\ Worker(nodePools[p].nodes[k])
            /\ nodePools[p].nodes[k].worker = nodePools[p].name
            /\ \A l \in 1 .. Len(nodePools[p].nodes) :
                 nodePools[p].nodes[k].name = nodePools[p].nodes[l].name => k = l

\* WithNode on a pool of that name.
LEMMA WithNodeFacts ==
  ASSUME NEW pool \in Pool, NEW node \in Node
  PROVE  /\ WithNode(pool, node) \in Pool
         /\ WithNode(pool, node).name = pool.name
         /\ WithNode(pool, node).nodes = Append(pool.nodes, node)
         /\ WithNode(pool, node).nodeCount = Len(pool.nodes) + 1
         /\ WithNode(pool, node).cpu = pool.cpu + node.cpu
<1>1. pool.nodes \in Seq(Node) /\ Len(pool.nodes) \in Nat
      /\ Append(pool.nodes, node) \in Seq(Node)
  BY AppendProperties, LenProperties DEF Pool
<1>2. pool.cpu + node.cpu \in Nat /\ Len(pool.nodes) + 1 \in Nat
  BY <1>1 DEF Pool, Node
<1> DEFINE all   == Append(pool.nodes, node)
           count == Len(pool.nodes) + 1
           cpu   == pool.cpu + node.cpu
<1>3. WithNode(pool, node) =
        [pool EXCEPT !.nodes = all, !.nodeCount = count, !.cpu = cpu]
  BY DEF WithNode
<1>4. all \in Seq(Node) /\ count \in Nat /\ cpu \in Nat
  BY <1>1, <1>2
<1> HIDE DEF all, count, cpu
<1>5. [pool EXCEPT !.nodes = all, !.nodeCount = count, !.cpu = cpu] \in Pool
  BY <1>4 DEF Pool
<1>6. [pool EXCEPT !.nodes = all, !.nodeCount = count, !.cpu = cpu].nodes = all
  BY DEF Pool
<1>7. [pool EXCEPT !.nodes = all, !.nodeCount = count, !.cpu = cpu].nodeCount = count
  BY DEF Pool
<1>8. [pool EXCEPT !.nodes = all, !.nodeCount = count, !.cpu = cpu].name = pool.name
  BY DEF Pool
<1>9. [pool EXCEPT !.nodes = all, !.nodeCount = count, !.cpu = cpu].cpu = cpu
  BY DEF Pool
<1> QED
  BY <1>3, <1>5, <1>6, <1>7, <1>8, <1>9 DEF all, count, cpu

\* A pool that is new, for a worker whose name no pool has.
LEMMA NewPoolKeeps ==
  ASSUME PoolsInv, NEW node \in Node, NEW pool \in Pool,
         done < Len(nodes), node = nodes[done + 1], ~ node.control,
         \A p \in 1 .. Len(nodePools) : nodePools[p].name # node.worker,
         pool.name = node.worker, pool.nodes = <<node>>, pool.nodeCount = 1,
         nodePools' = Append(nodePools, pool), done' = done + 1, nodes' = nodes
  PROVE  PoolsInv'
<1> DEFINE n == Len(nodePools)
<1>1. /\ nodePools' \in Seq(Pool) /\ Len(nodePools') = n + 1 /\ n \in Nat
      /\ nodePools'[n + 1] = pool
      /\ \A p \in 1 .. n : nodePools'[p] = nodePools[p]
  BY AppendProperties, LenProperties DEF PoolsInv, PoolTypeInv
<1>2. done \in Nat /\ Len(nodes) \in Nat /\ done' \in 0 .. Len(nodes')
  BY LenProperties DEF PoolsInv, PoolTypeInv
<1>3. /\ Len(pool.nodes) = 1 /\ pool.nodes[1] = node
  OBVIOUS
<1> HIDE DEF n
<1>4. PoolTypeInv'
  BY <1>1, <1>2 DEF PoolsInv, PoolTypeInv
<1>5. \A p \in 1 .. Len(nodePools') : p = n + 1 \/ (p \in 1 .. n /\ p # n + 1)
  BY <1>1
<1>6. \A p, q \in 1 .. Len(nodePools') : nodePools'[p].name = nodePools'[q].name => p = q
  BY <1>1, <1>5 DEF PoolsInv, n
<1>7. ASSUME NEW i \in 1 .. done', ~ nodes'[i].control
      PROVE  \E p \in 1 .. Len(nodePools') :
               /\ nodePools'[p].name = nodes'[i].worker
               /\ \E k \in 1 .. Len(nodePools'[p].nodes) : nodePools'[p].nodes[k] = nodes'[i]
  <2>1. CASE i = done + 1
    <3>1. n + 1 \in 1 .. Len(nodePools')
      BY <1>1
    <3>2. nodePools'[n + 1].name = node.worker
      BY <1>1
    <3>3. 1 \in 1 .. Len(nodePools'[n + 1].nodes) /\ nodePools'[n + 1].nodes[1] = node
      BY <1>1, <1>3
    <3>4. nodes'[i] = node
      BY <2>1
    <3> QED
      BY Zenon, <3>1, <3>2, <3>3, <3>4
  <2>2. CASE i \in 1 .. done
    <3>1. PICK p \in 1 .. n :
            /\ nodePools[p].name = nodes[i].worker
            /\ \E k \in 1 .. Len(nodePools[p].nodes) : nodePools[p].nodes[k] = nodes[i]
      BY <1>7, <2>2 DEF PoolsInv, n
    <3>2. p \in 1 .. Len(nodePools') /\ nodePools'[p] = nodePools[p]
      BY <1>1
    <3> QED
      BY <3>1, <3>2
  <2> QED
    BY <1>2, <1>7, <2>1, <2>2
<1>a. node.name = done + 1 /\ Worker(node)'
  BY <1>2 DEF PoolsInv, Worker
<1>b. \A m : Worker(m) => Worker(m)'
  BY <1>2 DEF Worker
<1>8. ASSUME NEW p \in 1 .. Len(nodePools')
      PROVE  /\ nodePools'[p].nodeCount = Len(nodePools'[p].nodes)
             /\ \A k \in 1 .. Len(nodePools'[p].nodes) :
                  /\ Worker(nodePools[p].nodes[k])'
                  /\ nodePools'[p].nodes[k].worker = nodePools'[p].name
                  /\ \A l \in 1 .. Len(nodePools'[p].nodes) :
                       nodePools'[p].nodes[k].name = nodePools'[p].nodes[l].name => k = l
  <2>1. CASE p = n + 1
    <3>1. nodePools'[p] = pool
      BY <1>1, <2>1
    <3>2. pool.nodeCount = Len(pool.nodes)
      BY <1>3
    <3>3. ASSUME NEW k \in 1 .. Len(pool.nodes)
          PROVE  /\ pool.nodes[k] = node /\ pool.nodes[k].worker = pool.name
                 /\ \A l \in 1 .. Len(pool.nodes) : k = l
      <4>1. k = 1 /\ \A l \in 1 .. Len(pool.nodes) : l = 1
        BY <1>3
      <4> QED
        BY <1>3, <4>1
    <3>4. \A k \in 1 .. Len(nodePools'[p].nodes) : Worker(nodePools[p].nodes[k])'
      BY <1>a, <3>1, <3>3 DEF Worker
    <3> QED
      BY Zenon, <3>1, <3>2, <3>3, <3>4
  <2>2. CASE p \in 1 .. n
    <3>1. nodePools'[p] = nodePools[p]
      BY <1>1, <2>2
    <3>2. \A k \in 1 .. Len(nodePools[p].nodes) : Worker(nodePools[p].nodes[k])
      BY <2>2 DEF PoolsInv, n
    <3>3. \A k \in 1 .. Len(nodePools'[p].nodes) : Worker(nodePools[p].nodes[k])'
      BY <1>b, <3>1, <3>2 DEF Worker
    <3> QED
      BY <2>2, <3>1, <3>3 DEF PoolsInv, n
  <2> QED
    BY <1>5, <2>1, <2>2
<1>9. \A i \in 1 .. Len(nodes') : nodes'[i].name = i
  BY DEF PoolsInv
<1> QED
  BY <1>4, <1>6, <1>7, <1>8, <1>9 DEF PoolsInv

\* A worker more in the pool of its name, which is f.
LEMMA OldPoolKeeps ==
  ASSUME PoolsInv, NEW node \in Node, NEW f \in 1 .. Len(nodePools),
         done < Len(nodes), node = nodes[done + 1], ~ node.control,
         nodePools[f].name = node.worker,
         nodePools' = [p \in 1 .. Len(nodePools) |->
                         IF p = f THEN WithNode(nodePools[p], node) ELSE nodePools[p]],
         done' = done + 1, nodes' = nodes
  PROVE  PoolsInv'
<1> DEFINE n == Len(nodePools)
           old == nodePools[f].nodes
<1>1. n \in Nat /\ nodePools \in Seq(Pool) /\ \A p \in 1 .. n : nodePools[p] \in Pool
  BY ElementOfSeq, LenProperties DEF PoolsInv, PoolTypeInv
<1>2. /\ WithNode(nodePools[f], node) \in Pool
      /\ WithNode(nodePools[f], node).name = node.worker
      /\ WithNode(nodePools[f], node).nodes = Append(old, node)
      /\ WithNode(nodePools[f], node).nodeCount = Len(old) + 1
  BY <1>1, WithNodeFacts
<1>3. /\ nodePools' \in Seq(Pool) /\ Len(nodePools') = n
      /\ nodePools'[f] = WithNode(nodePools[f], node)
      /\ \A p \in 1 .. n : p # f => nodePools'[p] = nodePools[p]
  <2>1. nodePools' \in [1 .. n -> Pool]
    BY <1>1, <1>2
  <2>2. nodePools' \in Seq(Pool) /\ Len(nodePools') = n
    BY <1>1, <2>1
  <2> QED
    BY <2>2
<1>4. /\ old \in Seq(Node) /\ Len(old) \in Nat
      /\ Len(Append(old, node)) = Len(old) + 1
      /\ Append(old, node)[Len(old) + 1] = node
      /\ \A k \in 1 .. Len(old) : Append(old, node)[k] = old[k]
  <2>1. old \in Seq(Node)
    BY <1>1 DEF Pool
  <2> QED
    BY <2>1, AppendProperties, LenProperties
<1>5. done \in Nat /\ Len(nodes) \in Nat /\ done' \in 0 .. Len(nodes')
  BY LenProperties DEF PoolsInv, PoolTypeInv
<1> HIDE DEF n, old
<1>6. PoolTypeInv'
  BY <1>3, <1>5 DEF PoolsInv, PoolTypeInv
<1>7. \A p \in 1 .. n : nodePools'[p].name = nodePools[p].name
  BY <1>2, <1>3
<1>8. \A p, q \in 1 .. Len(nodePools') : nodePools'[p].name = nodePools'[q].name => p = q
  BY <1>3, <1>7 DEF PoolsInv, n
<1>9. ASSUME NEW p \in 1 .. n, NEW k \in 1 .. Len(nodePools[p].nodes)
      PROVE  k \in 1 .. Len(nodePools'[p].nodes) /\ nodePools'[p].nodes[k] = nodePools[p].nodes[k]
  <2>1. CASE p # f
    BY <1>3, <2>1
  <2>2. CASE p = f
    <3>1. nodePools'[p].nodes = Append(old, node) /\ k \in 1 .. Len(old)
      BY <1>2, <1>3, <2>2 DEF old
    <3>2. k \in 1 .. Len(Append(old, node)) /\ Append(old, node)[k] = old[k]
      BY <1>4, <3>1
    <3> QED
      BY <2>2, <3>1, <3>2 DEF old
  <2> QED
    BY <2>1, <2>2
<1>a. node.name = done + 1 /\ Worker(node)'
  BY <1>5 DEF PoolsInv, Worker
<1>b. \A m : Worker(m) => Worker(m)' /\ m.name # node.name
  BY <1>5, <1>a DEF Worker
<1>10. ASSUME NEW i \in 1 .. done', ~ nodes'[i].control
       PROVE  \E p \in 1 .. Len(nodePools') :
                /\ nodePools'[p].name = nodes'[i].worker
                /\ \E k \in 1 .. Len(nodePools'[p].nodes) : nodePools'[p].nodes[k] = nodes'[i]
  <2>1. CASE i = done + 1
    <3>1. /\ Len(old) + 1 \in 1 .. Len(nodePools'[f].nodes)
          /\ nodePools'[f].nodes[Len(old) + 1] = node
      BY <1>2, <1>3, <1>4
    <3>2. f \in 1 .. Len(nodePools') /\ nodePools'[f].name = node.worker
      BY <1>2, <1>3 DEF n
    <3>3. nodes'[i] = node
      BY <2>1
    <3> QED
      BY Zenon, <3>1, <3>2, <3>3
  <2>2. CASE i \in 1 .. done
    <3>1. PICK p \in 1 .. n :
            /\ nodePools[p].name = nodes[i].worker
            /\ \E k \in 1 .. Len(nodePools[p].nodes) : nodePools[p].nodes[k] = nodes[i]
      BY <1>10, <2>2 DEF PoolsInv, n
    <3>2. p \in 1 .. Len(nodePools') /\ nodePools'[p].name = nodes'[i].worker
      BY <1>3, <1>7, <3>1
    <3>3. \E k \in 1 .. Len(nodePools'[p].nodes) : nodePools'[p].nodes[k] = nodes'[i]
      BY <1>9, <3>1
    <3> QED
      BY <3>2, <3>3
  <2>3. i = done + 1 \/ i \in 1 .. done
    BY <1>5
  <2> QED
    BY Zenon, <2>1, <2>2, <2>3
<1>11. ASSUME NEW p \in 1 .. Len(nodePools')
       PROVE  /\ nodePools'[p].nodeCount = Len(nodePools'[p].nodes)
              /\ \A k \in 1 .. Len(nodePools'[p].nodes) :
                   /\ Worker(nodePools[p].nodes[k])'
                   /\ nodePools'[p].nodes[k].worker = nodePools'[p].name
                   /\ \A l \in 1 .. Len(nodePools'[p].nodes) :
                        nodePools'[p].nodes[k].name = nodePools'[p].nodes[l].name => k = l
  <2>1. CASE p # f
    <3>1. nodePools'[p] = nodePools[p] /\ p \in 1 .. n
      BY <1>3, <2>1
    <3>2. \A k \in 1 .. Len(nodePools[p].nodes) : Worker(nodePools[p].nodes[k])
      BY <3>1 DEF PoolsInv, n
    <3>3. \A k \in 1 .. Len(nodePools'[p].nodes) : Worker(nodePools[p].nodes[k])'
      BY <1>b, <3>1, <3>2 DEF Worker
    <3> QED
      BY <3>1, <3>3 DEF PoolsInv, n
  <2>2. CASE p = f
    <3>1. ASSUME NEW k \in 1 .. (Len(old) + 1)
          PROVE  k \in 1 .. Len(old) \/ k = Len(old) + 1
      BY <1>4
    <3>2. /\ nodePools'[p].nodes = Append(old, node)
          /\ nodePools'[p].name = node.worker
          /\ nodePools'[p].nodeCount = Len(old) + 1
      BY <1>2, <1>3, <2>2
    <3>3. ASSUME NEW k \in 1 .. Len(old)
          PROVE  /\ Worker(old[k]) /\ old[k].worker = node.worker
                 /\ \A l \in 1 .. Len(old) : old[k].name = old[l].name => k = l
      BY DEF PoolsInv, old
    <3>4. ASSUME NEW k \in 1 .. (Len(old) + 1)
          PROVE  Append(old, node)[k].worker = node.worker
      BY <1>4, <3>1, <3>3
    <3>5. ASSUME NEW k \in 1 .. (Len(old) + 1), NEW l \in 1 .. (Len(old) + 1),
                 Append(old, node)[k].name = Append(old, node)[l].name
          PROVE  k = l
      <4>1. CASE k \in 1 .. Len(old) /\ l \in 1 .. Len(old)
        <5>1. old[k].name = old[l].name
          BY <1>4, <3>5, <4>1
        <5> QED
          BY <3>3, <4>1, <5>1
      <4>2. CASE k \in 1 .. Len(old) /\ l = Len(old) + 1
        BY <1>4, <1>b, <3>3, <3>5, <4>2
      <4>3. CASE k = Len(old) + 1 /\ l \in 1 .. Len(old)
        BY <1>4, <1>b, <3>3, <3>5, <4>3
      <4> QED
        BY <3>1, <4>1, <4>2, <4>3
    <3>6. ASSUME NEW k \in 1 .. (Len(old) + 1)
          PROVE  /\ Append(old, node)[k].name \in 1 .. done'
                 /\ Append(old, node)[k] = nodes'[Append(old, node)[k].name]
                 /\ ~ Append(old, node)[k].control
      <4>1. CASE k \in 1 .. Len(old)
        <5>1. Worker(old[k]) /\ Append(old, node)[k] = old[k]
          BY <1>4, <3>3, <4>1
        <5> QED
          BY <1>5, <5>1 DEF Worker
      <4>2. CASE k = Len(old) + 1
        BY <1>4, <1>5, <1>a, <4>2
      <4> QED
        BY <3>1, <4>1, <4>2
    <3>7. \A k \in 1 .. Len(nodePools'[p].nodes) : Worker(nodePools[p].nodes[k])'
      BY <1>4, <3>2, <3>6 DEF Worker
    <3>8. \A k \in 1 .. Len(nodePools'[p].nodes) :
            nodePools'[p].nodes[k].worker = nodePools'[p].name
      BY Zenon, <1>4, <3>2, <3>4
    <3>9. \A k, l \in 1 .. Len(nodePools'[p].nodes) :
            nodePools'[p].nodes[k].name = nodePools'[p].nodes[l].name => k = l
      <4>1. Len(nodePools'[p].nodes) = Len(old) + 1
        BY Zenon, <1>4, <3>2
      <4>2. ASSUME NEW k \in 1 .. (Len(old) + 1), NEW l \in 1 .. (Len(old) + 1),
                   nodePools'[p].nodes[k].name = nodePools'[p].nodes[l].name
            PROVE  k = l
        <5>1. Append(old, node)[k].name = Append(old, node)[l].name
          BY Zenon, <3>2, <4>2
        <5> QED
          BY <3>5, <5>1
      <4> QED
        BY Zenon, <4>1, <4>2
    <3>10. nodePools'[p].nodeCount = Len(nodePools'[p].nodes)
      BY Zenon, <1>4, <3>2
    <3> QED
      BY <3>7, <3>8, <3>9, <3>10
  <2> QED
    BY <2>1, <2>2
<1>12. \A i \in 1 .. Len(nodes') : nodes'[i].name = i
  BY DEF PoolsInv
<1> QED
  BY <1>6, <1>8, <1>10, <1>11, <1>12 DEF PoolsInv

LEMMA PoolsUnchanged ==
  ASSUME PoolsInv, UNCHANGED <<nodes, done, nodePools>>
  PROVE  PoolsInv'
BY DEF PoolsInv, PoolTypeInv, Worker

LEMMA NoPoolsKeep ==
  ASSUME nodes' = << >>, nodePools' = << >>, done' = 0
  PROVE  PoolsInv'
<1>1. /\ Len(nodes') = 0 /\ nodes' \in Seq(Node)
      /\ Len(nodePools') = 0 /\ nodePools' \in Seq(Pool)
  BY EmptyFacts
<1> QED
  BY <1>1 DEF PoolsInv, PoolTypeInv

LEMMA GetNodeKeeps ==
  ASSUME PoolsInv, NEW control \in BOOLEAN, NEW worker \in Workers \cup {NoName},
         GetNode(control, worker)
  PROVE  PoolsInv'
<1>1. PICK cpu \in Cpus :
        nodes' = Append(nodes, [name |-> Len(nodes) + 1,
                               control |-> control, worker |-> worker, cpu |-> cpu])
  BY DEF GetNode
<1> DEFINE node == [name |-> Len(nodes) + 1,
                    control |-> control, worker |-> worker, cpu |-> cpu]
<1>2. node \in Node /\ node.name = Len(nodes) + 1
  BY HeartbeatAssumption, LenProperties DEF Node, PoolsInv, PoolTypeInv
<1>3. UNCHANGED <<done, nodePools>>
  BY DEF GetNode
<1> HIDE DEF node
<1>4. /\ nodes' \in Seq(Node) /\ Len(nodes') = Len(nodes) + 1 /\ Len(nodes) \in Nat
      /\ nodes'[Len(nodes) + 1] = node
      /\ \A i \in 1 .. Len(nodes) : nodes'[i] = nodes[i]
  BY <1>1, <1>2, AppendProperties, LenProperties DEF PoolsInv, PoolTypeInv, node
<1>5. done \in Nat /\ done <= Len(nodes)
  BY <1>4 DEF PoolsInv, PoolTypeInv
<1>6. PoolTypeInv'
  BY <1>3, <1>4, <1>5 DEF PoolsInv, PoolTypeInv
<1>7. \A i \in 1 .. done : nodes'[i] = nodes[i]
  BY <1>4, <1>5
<1>8. \A m : Worker(m) => Worker(m)'
  BY <1>3, <1>7 DEF Worker
<1>9. \A p \in 1 .. Len(nodePools) : \A k \in 1 .. Len(nodePools[p].nodes) :
        Worker(nodePools[p].nodes[k])'
  BY <1>3, <1>8 DEF PoolsInv, Worker
<1>10. ASSUME NEW i \in 1 .. Len(nodes')
       PROVE  nodes'[i].name = i
  <2>1. CASE i = Len(nodes) + 1
    BY <1>2, <1>4, <2>1
  <2>2. CASE i \in 1 .. Len(nodes)
    <3>1. nodes[i].name = i
      BY <2>2 DEF PoolsInv
    <3> QED
      BY <1>4, <2>2, <3>1
  <2>3. i = Len(nodes) + 1 \/ i \in 1 .. Len(nodes)
    BY <1>4
  <2> QED
    BY Zenon, <2>1, <2>2, <2>3
<1>11. ASSUME NEW i \in 1 .. done', ~ nodes'[i].control
       PROVE  \E p \in 1 .. Len(nodePools') :
                /\ nodePools'[p].name = nodes'[i].worker
                /\ \E k \in 1 .. Len(nodePools'[p].nodes) : nodePools'[p].nodes[k] = nodes'[i]
  <2>1. i \in 1 .. done /\ nodes'[i] = nodes[i]
    BY <1>3, <1>7, <1>11
  <2>2. \E p \in 1 .. Len(nodePools) :
          /\ nodePools[p].name = nodes[i].worker
          /\ \E k \in 1 .. Len(nodePools[p].nodes) : nodePools[p].nodes[k] = nodes[i]
    BY <1>11, <2>1 DEF PoolsInv
  <2> QED
    BY Zenon, <1>3, <2>1, <2>2
<1>12. \A p, q \in 1 .. Len(nodePools') : nodePools'[p].name = nodePools'[q].name => p = q
  BY <1>3 DEF PoolsInv
<1>13. ASSUME NEW p \in 1 .. Len(nodePools')
       PROVE  /\ nodePools'[p].nodeCount = Len(nodePools'[p].nodes)
              /\ \A k \in 1 .. Len(nodePools'[p].nodes) :
                   /\ Worker(nodePools[p].nodes[k])'
                   /\ nodePools'[p].nodes[k].worker = nodePools'[p].name
                   /\ \A l \in 1 .. Len(nodePools'[p].nodes) :
                        nodePools'[p].nodes[k].name = nodePools'[p].nodes[l].name => k = l
  <2>1. \A k \in 1 .. Len(nodePools'[p].nodes) : Worker(nodePools[p].nodes[k])'
    BY Zenon, <1>3, <1>9
  <2> QED
    BY <1>3, <2>1 DEF PoolsInv
<1> QED
  BY <1>6, <1>10, <1>11, <1>12, <1>13 DEF PoolsInv

\* appendNodeToNodePools: a pool more, or a worker more in one.
NewPool(node) ==
  [name |-> node.worker, nodes |-> <<node>>, nodeCount |-> 1, cpu |-> node.cpu]

LEMMA NewPoolFacts ==
  ASSUME NEW node \in Node
  PROVE  /\ NewPool(node) \in Pool
         /\ NewPool(node).name = node.worker /\ NewPool(node).nodes = <<node>>
         /\ NewPool(node).nodeCount = 1 /\ NewPool(node).cpu = node.cpu
<1>1. <<node>> \in Seq(Node)
  OBVIOUS
<1> QED
  BY <1>1 DEF NewPool, Pool, Node

LEMMA PoolsAfter ==
  ASSUME PoolsInv, NEW node \in Node, nodePools' = AppendNodeToNodePools(node)
  PROVE  \/ /\ \A p \in 1 .. Len(nodePools) : nodePools[p].name # node.worker
            /\ nodePools' = Append(nodePools, NewPool(node))
         \/ \E f \in 1 .. Len(nodePools) :
              /\ nodePools[f].name = node.worker
              /\ nodePools' = [p \in 1 .. Len(nodePools) |->
                                 IF p = f THEN WithNode(nodePools[p], node) ELSE nodePools[p]]
<1> DEFINE found == {i \in DOMAIN nodePools : nodePools[i].name = node.worker}
<1>1. DOMAIN nodePools = 1 .. Len(nodePools)
  BY LenProperties DEF PoolsInv, PoolTypeInv
<1>2. CASE found = {}
  BY <1>1, <1>2 DEF AppendNodeToNodePools, NewPool
<1>3. CASE found # {}
  <2>1. PICK f \in 1 .. Len(nodePools) : nodePools[f].name = node.worker
    BY <1>1, <1>3
  <2>2. \A i \in 1 .. Len(nodePools) : i \in found <=> i = f
    BY <1>1, <2>1 DEF PoolsInv
  <2>3. nodePools' = [p \in 1 .. Len(nodePools) |->
                        IF p \in found THEN WithNode(nodePools[p], node) ELSE nodePools[p]]
    BY <1>1, <1>3 DEF AppendNodeToNodePools
  <2> HIDE DEF found
  <2>4. nodePools' = [p \in 1 .. Len(nodePools) |->
                        IF p = f THEN WithNode(nodePools[p], node) ELSE nodePools[p]]
    BY <2>2, <2>3
  <2> QED
    BY <2>1, <2>4
<1> QED
  BY <1>2, <1>3

LEMMA NextNode ==
  ASSUME PoolsInv, AppendNode
  PROVE  /\ done \in Nat /\ Len(nodes) \in Nat /\ done < Len(nodes)
         /\ nodes[done + 1] \in Node /\ nodes' = nodes
<1>1. done < Len(nodes) /\ nodes' = nodes
  BY DEF AppendNode
<1> QED
  BY <1>1, LenProperties, ElementOfSeq DEF PoolsInv, PoolTypeInv

LEMMA AppendNodeKeeps ==
  ASSUME PoolsInv, AppendNode
  PROVE  PoolsInv'
<1> DEFINE node == nodes[done + 1]
<1>1. /\ done \in Nat /\ Len(nodes) \in Nat /\ done < Len(nodes) /\ nodes' = nodes
      /\ node \in Node
  BY NextNode
<1>2. CASE UNCHANGED <<done, nodePools>>
  BY <1>1, <1>2, PoolsUnchanged
<1>3. CASE node.control /\ done' = done + 1 /\ nodePools' = nodePools
  <2>1. \A i \in 1 .. done' : i \in 1 .. done \/ i = done + 1
    BY <1>1, <1>3
  <2>2. PoolTypeInv'
    BY <1>1, <1>3 DEF PoolsInv, PoolTypeInv
  <2>3. \A p \in 1 .. Len(nodePools) : \A k \in 1 .. Len(nodePools[p].nodes) :
          Worker(nodePools[p].nodes[k])'
    <3>1. \A m : Worker(m) => m.name \in 1 .. done' /\ m = nodes'[m.name] /\ ~ m.control
      BY <1>1, <1>3 DEF Worker
    <3> QED
      BY <1>3, <3>1 DEF PoolsInv, Worker
  <2>4. ASSUME NEW i \in 1 .. done', ~ nodes'[i].control
        PROVE  \E p \in 1 .. Len(nodePools') :
                 /\ nodePools'[p].name = nodes'[i].worker
                 /\ \E k \in 1 .. Len(nodePools'[p].nodes) : nodePools'[p].nodes[k] = nodes'[i]
    <3>1. i \in 1 .. done /\ ~ nodes[i].control
      BY <1>1, <1>3, <2>1, <2>4
    <3>2. \E p \in 1 .. Len(nodePools) :
            /\ nodePools[p].name = nodes[i].worker
            /\ \E k \in 1 .. Len(nodePools[p].nodes) : nodePools[p].nodes[k] = nodes[i]
      BY <3>1 DEF PoolsInv
    <3> QED
      BY Zenon, <1>1, <1>3, <3>2
  <2>5. ASSUME NEW p \in 1 .. Len(nodePools')
        PROVE  /\ nodePools'[p].nodeCount = Len(nodePools'[p].nodes)
               /\ \A k \in 1 .. Len(nodePools'[p].nodes) :
                    /\ Worker(nodePools[p].nodes[k])'
                    /\ nodePools'[p].nodes[k].worker = nodePools'[p].name
                    /\ \A l \in 1 .. Len(nodePools'[p].nodes) :
                         nodePools'[p].nodes[k].name = nodePools'[p].nodes[l].name => k = l
    <3>1. \A k \in 1 .. Len(nodePools'[p].nodes) : Worker(nodePools[p].nodes[k])'
      BY Zenon, <1>3, <2>3
    <3> QED
      BY <1>3, <3>1 DEF PoolsInv
  <2>6. /\ \A p, q \in 1 .. Len(nodePools') : nodePools'[p].name = nodePools'[q].name => p = q
        /\ \A i \in 1 .. Len(nodes') : nodes'[i].name = i
    BY <1>1, <1>3 DEF PoolsInv
  <2> QED
    BY <2>2, <2>4, <2>5, <2>6 DEF PoolsInv
<1>4. CASE nodePools' = AppendNodeToNodePools(node) /\ done' = done + 1 /\ ~ node.control
  <2> HIDE DEF node
  <2> QED
    BY <1>1, <1>4, PoolsAfter, NewPoolFacts, NewPoolKeeps, OldPoolKeeps DEF node
<1> QED
  BY <1>2, <1>3, <1>4 DEF AppendNode

-----------------------------------------------------------------------------
(* Totals *)

Counted(control) == {i \in 1 .. done : nodes[i].control = control}

ControlPlane == [nodes : Seq(Node), nodeCount : Nat, cpu : Nat]

\* The pools have the workers that were counted, the control plane has the
\* other nodes, and every node is counted before the report is made.
SumsInv ==
  /\ TotalNodeCount = Cardinality(Counted(FALSE))
  /\ TotalCpu = CpuOf(Counted(FALSE))
  /\ controlPlane \in ControlPlane
  /\ controlPlane.nodeCount = Len(controlPlane.nodes)
  /\ controlPlane.nodeCount = Cardinality(Counted(TRUE))
  /\ controlPlane.cpu = CpuOf(Counted(TRUE))
  /\ phase \in {"ingresses", "sent"} => done = Len(nodes)
  /\ phase = "sent" => metrics.nodeCount = TotalNodeCount /\ metrics.cpu = TotalCpu

\* The numbers that are summed.
CountsOf(pools) == [p \in DOMAIN pools |-> pools[p].nodeCount]
CpusOf(pools)   == [p \in DOMAIN pools |-> pools[p].cpu]
CpusIn(ns, is)  == [i \in DOMAIN ns |-> IF i \in is THEN ns[i].cpu ELSE 0]

LEMMA PoolNumbers ==
  ASSUME NEW pools \in Seq(Pool)
  PROVE  /\ CountsOf(pools) \in Seq(Nat) /\ Len(CountsOf(pools)) = Len(pools)
         /\ CpusOf(pools) \in Seq(Nat) /\ Len(CpusOf(pools)) = Len(pools)
         /\ \A p \in 1 .. Len(pools) :
              CountsOf(pools)[p] = pools[p].nodeCount /\ CpusOf(pools)[p] = pools[p].cpu
<1> DEFINE n == Len(pools)
<1>1. n \in Nat /\ DOMAIN pools = 1 .. n /\ \A p \in 1 .. n : pools[p] \in Pool
  BY LenProperties, ElementOfSeq
<1>2. CountsOf(pools) \in [1 .. n -> Nat] /\ CpusOf(pools) \in [1 .. n -> Nat]
  BY <1>1 DEF Pool, CountsOf, CpusOf
<1> HIDE DEF n
<1>3. /\ CountsOf(pools) \in Seq(Nat) /\ Len(CountsOf(pools)) = n
      /\ CpusOf(pools) \in Seq(Nat) /\ Len(CpusOf(pools)) = n
  BY <1>1, <1>2
<1>4. \A p \in 1 .. n : CountsOf(pools)[p] = pools[p].nodeCount /\ CpusOf(pools)[p] = pools[p].cpu
  BY <1>1 DEF CountsOf, CpusOf
<1> QED
  BY <1>3, <1>4 DEF n

LEMMA NodeNumbers ==
  ASSUME NEW ns \in Seq(Node), NEW is
  PROVE  /\ CpusIn(ns, is) \in Seq(Nat) /\ Len(CpusIn(ns, is)) = Len(ns)
         /\ \A i \in 1 .. Len(ns) : CpusIn(ns, is)[i] = IF i \in is THEN ns[i].cpu ELSE 0
<1> DEFINE n == Len(ns)
<1>1. n \in Nat /\ DOMAIN ns = 1 .. n /\ \A i \in 1 .. n : ns[i] \in Node
  BY LenProperties, ElementOfSeq
<1>2. CpusIn(ns, is) \in [1 .. n -> Nat]
  BY <1>1 DEF Node, CpusIn
<1> HIDE DEF n
<1>3. CpusIn(ns, is) \in Seq(Nat) /\ Len(CpusIn(ns, is)) = n
  BY <1>1, <1>2
<1>4. \A i \in 1 .. n : CpusIn(ns, is)[i] = IF i \in is THEN ns[i].cpu ELSE 0
  BY <1>1 DEF CpusIn
<1> QED
  BY <1>3, <1>4 DEF n

LEMMA TotalsAreSums ==
  /\ TotalNodeCount = Sum(CountsOf(nodePools)) /\ TotalCpu = Sum(CpusOf(nodePools))
  /\ \A is : CpuOf(is) = Sum(CpusIn(nodes, is))
BY DEF TotalNodeCount, TotalCpu, CpuOf, CountsOf, CpusOf, CpusIn

LEMMA TotalsAreSumsNext ==
  /\ TotalNodeCount' = Sum(CountsOf(nodePools')) /\ TotalCpu' = Sum(CpusOf(nodePools'))
  /\ \A control : CpuOf(Counted(control))' = Sum(CpusIn(nodes', Counted(control)'))
BY DEF TotalNodeCount, TotalCpu, CpuOf, CountsOf, CpusOf, CpusIn, Counted

LEMMA CountedIsFinite ==
  ASSUME PoolTypeInv, NEW control
  PROVE  IsFiniteSet(Counted(control)) /\ Counted(control) \subseteq 1 .. Len(nodes)
<1>1. done \in Nat /\ Len(nodes) \in Nat /\ done <= Len(nodes)
  BY LenProperties DEF PoolTypeInv
<1>2. IsFiniteSet(1 .. done)
  BY <1>1, FS_Interval
<1> QED
  BY <1>1, <1>2, FS_Subset DEF Counted

\* A node that is read is not counted yet.
LEMMA ReadingCountsNothing ==
  ASSUME PoolTypeInv, NEW node \in Node, nodes' = Append(nodes, node), done' = done, NEW control
  PROVE  Counted(control)' = Counted(control) /\ CpuOf(Counted(control))' = CpuOf(Counted(control))
<1> DEFINE n == Len(nodes)
           is == Counted(control)
<1>1. /\ nodes \in Seq(Node) /\ nodes' \in Seq(Node) /\ Len(nodes') = n + 1 /\ n \in Nat
      /\ \A i \in 1 .. n : nodes'[i] = nodes[i]
      /\ done \in 0 .. n
  BY AppendProperties, LenProperties DEF PoolTypeInv
<1>2. Counted(control)' = is
  BY <1>1 DEF Counted
<1>3. is \subseteq 1 .. n /\ n + 1 \notin is
  BY <1>1, CountedIsFinite
<1> HIDE DEF n, is
<1>4. /\ CpusIn(nodes, is) \in Seq(Nat) /\ Len(CpusIn(nodes, is)) = n
      /\ CpusIn(nodes', is) \in Seq(Nat) /\ Len(CpusIn(nodes', is)) = n + 1
      /\ CpusIn(nodes', is)[n + 1] = 0
      /\ \A i \in 1 .. n : CpusIn(nodes', is)[i] = CpusIn(nodes, is)[i]
  <2>1. /\ CpusIn(nodes, is) \in Seq(Nat) /\ Len(CpusIn(nodes, is)) = n
        /\ \A i \in 1 .. n : CpusIn(nodes, is)[i] = IF i \in is THEN nodes[i].cpu ELSE 0
    BY <1>1, NodeNumbers DEF n
  <2>2. PICK ns : ns = nodes'
    OBVIOUS
  <2>3. /\ CpusIn(ns, is) \in Seq(Nat) /\ Len(CpusIn(ns, is)) = n + 1
        /\ \A i \in 1 .. (n + 1) : CpusIn(ns, is)[i] = IF i \in is THEN ns[i].cpu ELSE 0
    <3>1. ns \in Seq(Node) /\ Len(ns) = n + 1
      BY <1>1, <2>2
    <3>2. /\ CpusIn(ns, is) \in Seq(Nat) /\ Len(CpusIn(ns, is)) = Len(ns)
          /\ \A i \in 1 .. Len(ns) : CpusIn(ns, is)[i] = IF i \in is THEN ns[i].cpu ELSE 0
      BY <3>1, NodeNumbers
    <3> QED
      BY <3>1, <3>2
  <2>4. n + 1 \in 1 .. (n + 1) /\ \A i \in 1 .. n : i \in 1 .. (n + 1)
    BY <1>1
  <2>5. CpusIn(ns, is)[n + 1] = 0
    BY <1>3, <2>3, <2>4
  <2>6. ASSUME NEW i \in 1 .. n PROVE CpusIn(ns, is)[i] = CpusIn(nodes, is)[i]
    BY <1>1, <2>1, <2>2, <2>3, <2>4
  <2> QED
    BY <2>1, <2>2, <2>3, <2>5, <2>6
<1>5. Sum(CpusIn(nodes', is)) = Sum(CpusIn(nodes, is)) + 0 /\ Sum(CpusIn(nodes, is)) \in Nat
  BY <1>4, SumOfMore, SumIsNat
<1>6. Sum(CpusIn(nodes', is)) = Sum(CpusIn(nodes, is))
  BY <1>5
<1> QED
  BY <1>2, <1>6, TotalsAreSums, TotalsAreSumsNext DEF is

\* The next node is counted once, with the workers or with the others.
LEMMA NextIsCounted ==
  ASSUME PoolTypeInv, done < Len(nodes), done' = done + 1, nodes' = nodes, NEW control
  PROVE  /\ nodes[done + 1].control = control =>
              /\ Cardinality(Counted(control))' = Cardinality(Counted(control)) + 1
              /\ CpuOf(Counted(control))' = CpuOf(Counted(control)) + nodes[done + 1].cpu
         /\ nodes[done + 1].control # control =>
              /\ Cardinality(Counted(control))' = Cardinality(Counted(control))
              /\ CpuOf(Counted(control))' = CpuOf(Counted(control))
<1> DEFINE n == Len(nodes)
           d == done + 1
           is == Counted(control)
<1>1. n \in Nat /\ done \in Nat /\ d \in 1 .. n /\ nodes \in Seq(Node) /\ nodes[d].cpu \in Nat
  <2>1. n \in Nat /\ done \in Nat /\ d \in 1 .. n /\ nodes \in Seq(Node)
    BY LenProperties DEF PoolTypeInv
  <2>2. nodes[d] \in Node
    BY <2>1, ElementOfSeq
  <2> QED
    BY <2>1, <2>2 DEF Node
<1>2. Counted(control)' = IF nodes[d].control = control THEN is \cup {d} ELSE is
  <2>1. \A i : i \in 1 .. done' <=> i \in 1 .. done \/ i = d
    BY <1>1
  <2> QED
    BY <2>1 DEF Counted
<1>3. d \notin is /\ IsFiniteSet(is)
  <2>1. d \notin 1 .. done
    BY <1>1
  <2> QED
    BY <2>1, CountedIsFinite DEF Counted
<1>4. CASE nodes[d].control # control
  <2>1. Counted(control)' = is
    BY <1>2, <1>4
  <2> QED
    BY <1>4, <2>1, TotalsAreSums, TotalsAreSumsNext
<1>5. CASE nodes[d].control = control
  <2>1. Counted(control)' = is \cup {d}
    BY <1>2, <1>5
  <2> HIDE DEF n, d, is
  <2>2. Cardinality(is \cup {d}) = Cardinality(is) + 1
    BY <1>3, FS_AddElement
  <2>3. /\ CpusIn(nodes, is) \in Seq(Nat) /\ Len(CpusIn(nodes, is)) = n
        /\ CpusIn(nodes, is \cup {d}) \in Seq(Nat) /\ Len(CpusIn(nodes, is \cup {d})) = n
        /\ CpusIn(nodes, is)[d] = 0 /\ CpusIn(nodes, is \cup {d})[d] = nodes[d].cpu
        /\ \A i \in 1 .. n : i # d => CpusIn(nodes, is \cup {d})[i] = CpusIn(nodes, is)[i]
    BY <1>1, <1>3, NodeNumbers DEF n
  <2>4. CpusIn(nodes, is \cup {d})[d] = CpusIn(nodes, is)[d] + nodes[d].cpu
    BY <1>1, <2>3
  <2>5. Sum(CpusIn(nodes, is \cup {d})) = Sum(CpusIn(nodes, is)) + nodes[d].cpu
    <3>1. PICK f : f = CpusIn(nodes, is)
      OBVIOUS
    <3>2. PICK h : h = CpusIn(nodes, is \cup {d})
      OBVIOUS
    <3>3. /\ f \in Seq(Nat) /\ h \in Seq(Nat) /\ Len(h) = Len(f) /\ d \in 1 .. Len(f)
          /\ h[d] = f[d] + nodes[d].cpu /\ \A i \in 1 .. Len(f) : i # d => h[i] = f[i]
      BY <1>1, <2>3, <2>4, <3>1, <3>2
    <3>4. Sum(h) = Sum(f) + nodes[d].cpu
      BY <1>1, <3>3, SumOfChange
    <3> QED
      BY <3>1, <3>2, <3>4
  <2>6. Cardinality(Counted(control))' = Cardinality(is) + 1
    BY <2>1, <2>2
  <2>7. CpuOf(Counted(control))' = CpuOf(is) + nodes[d].cpu
    BY <2>1, <2>5, TotalsAreSums, TotalsAreSumsNext
  <2> QED
    BY <1>5, <2>6, <2>7 DEF is, d
<1> QED
  BY <1>4, <1>5

\* A worker is counted once in the pools.
LEMMA PoolsGrow ==
  ASSUME PoolsInv, NEW node \in Node, nodePools' = AppendNodeToNodePools(node)
  PROVE  TotalNodeCount' = TotalNodeCount + 1 /\ TotalCpu' = TotalCpu + node.cpu
<1> DEFINE n == Len(nodePools)
           counts == CountsOf(nodePools)
           cpus == CpusOf(nodePools)
<1>1. n \in Nat /\ nodePools \in Seq(Pool) /\ \A p \in 1 .. n : nodePools[p] \in Pool
  BY LenProperties, ElementOfSeq DEF PoolsInv, PoolTypeInv
<1>2. /\ counts \in Seq(Nat) /\ Len(counts) = n /\ cpus \in Seq(Nat) /\ Len(cpus) = n
      /\ \A p \in 1 .. n : counts[p] = nodePools[p].nodeCount /\ cpus[p] = nodePools[p].cpu
  BY <1>1, PoolNumbers
<1>3. node.cpu \in Nat
  BY DEF Node
<1>4. CASE nodePools' = Append(nodePools, NewPool(node))
  <2>1. /\ nodePools' \in Seq(Pool) /\ Len(nodePools') = n + 1
        /\ nodePools'[n + 1] = NewPool(node)
        /\ \A p \in 1 .. n : nodePools'[p] = nodePools[p]
    BY <1>1, <1>4, NewPoolFacts, AppendProperties
  <2>2. PICK counts2 : counts2 = CountsOf(nodePools')
    OBVIOUS
  <2>3. PICK cpus2 : cpus2 = CpusOf(nodePools')
    OBVIOUS
  <2> HIDE DEF n, counts, cpus
  <2>4. /\ counts2 \in Seq(Nat) /\ Len(counts2) = n + 1 /\ cpus2 \in Seq(Nat) /\ Len(cpus2) = n + 1
        /\ \A p \in 1 .. (n + 1) :
             counts2[p] = nodePools'[p].nodeCount /\ cpus2[p] = nodePools'[p].cpu
    BY <2>1, <2>2, <2>3, PoolNumbers
  <2>5. /\ n + 1 \in 1 .. (n + 1)
        /\ \A p \in 1 .. n : p \in 1 .. (n + 1)
    BY <1>1
  <2>6. /\ counts2[n + 1] = 1 /\ cpus2[n + 1] = node.cpu
        /\ \A p \in 1 .. n : counts2[p] = counts[p] /\ cpus2[p] = cpus[p]
    <3>1. counts2[n + 1] = 1 /\ cpus2[n + 1] = node.cpu
      BY <2>1, <2>4, <2>5, NewPoolFacts
    <3>2. ASSUME NEW p \in 1 .. n PROVE counts2[p] = counts[p] /\ cpus2[p] = cpus[p]
      BY <1>2, <2>1, <2>4, <2>5
    <3> QED
      BY <3>1, <3>2
  <2>7. Sum(counts2) = Sum(counts) + 1
    BY <1>2, <2>4, <2>6, SumOfMore
  <2>8. Sum(cpus2) = Sum(cpus) + node.cpu
    BY <1>2, <1>3, <2>4, <2>6, SumOfMore
  <2> QED
    BY <2>2, <2>3, <2>7, <2>8, TotalsAreSums, TotalsAreSumsNext DEF counts, cpus
<1>5. ASSUME NEW f \in 1 .. n,
             nodePools' = [p \in 1 .. n |->
                             IF p = f THEN WithNode(nodePools[p], node) ELSE nodePools[p]]
      PROVE  TotalNodeCount' = TotalNodeCount + 1 /\ TotalCpu' = TotalCpu + node.cpu
  <2>1. /\ WithNode(nodePools[f], node) \in Pool
        /\ WithNode(nodePools[f], node).nodeCount = counts[f] + 1
        /\ WithNode(nodePools[f], node).cpu = cpus[f] + node.cpu
    <3>1. nodePools[f].nodeCount = Len(nodePools[f].nodes)
      BY DEF PoolsInv
    <3> QED
      BY <1>1, <1>2, <3>1, WithNodeFacts
  <2>2. /\ nodePools' \in Seq(Pool) /\ Len(nodePools') = n
        /\ nodePools'[f] = WithNode(nodePools[f], node)
        /\ \A p \in 1 .. n : p # f => nodePools'[p] = nodePools[p]
    <3>1. nodePools' \in [1 .. n -> Pool]
      BY <1>1, <1>5, <2>1
    <3> HIDE DEF n
    <3>2. nodePools' \in Seq(Pool) /\ Len(nodePools') = n
      BY <1>1, <3>1
    <3> QED
      BY <1>5, <3>2
  <2>3. PICK counts2 : counts2 = CountsOf(nodePools')
    OBVIOUS
  <2>4. PICK cpus2 : cpus2 = CpusOf(nodePools')
    OBVIOUS
  <2> HIDE DEF n, counts, cpus
  <2>5. /\ counts2 \in Seq(Nat) /\ Len(counts2) = n /\ cpus2 \in Seq(Nat) /\ Len(cpus2) = n
        /\ \A p \in 1 .. n : counts2[p] = nodePools'[p].nodeCount /\ cpus2[p] = nodePools'[p].cpu
    BY <2>2, <2>3, <2>4, PoolNumbers
  <2>6. /\ counts2[f] = counts[f] + 1 /\ cpus2[f] = cpus[f] + node.cpu
        /\ \A p \in 1 .. n : p # f => counts2[p] = counts[p] /\ cpus2[p] = cpus[p]
    <3>1. counts2[f] = counts[f] + 1 /\ cpus2[f] = cpus[f] + node.cpu
      BY <2>1, <2>2, <2>5
    <3>2. ASSUME NEW p \in 1 .. n, p # f PROVE counts2[p] = counts[p] /\ cpus2[p] = cpus[p]
      BY <1>2, <2>2, <2>5, <3>2
    <3> QED
      BY <3>1, <3>2
  <2>7. /\ Len(counts2) = Len(counts) /\ f \in 1 .. Len(counts) /\ 1 \in Nat
        /\ Len(cpus2) = Len(cpus) /\ f \in 1 .. Len(cpus)
        /\ \A p \in 1 .. Len(counts) : p # f => counts2[p] = counts[p]
        /\ \A p \in 1 .. Len(cpus) : p # f => cpus2[p] = cpus[p]
    BY <1>2, <2>5, <2>6
  <2>8. Sum(counts2) = Sum(counts) + 1
    BY <1>2, <2>5, <2>6, <2>7, SumOfChange
  <2>9. Sum(cpus2) = Sum(cpus) + node.cpu
    BY <1>2, <1>3, <2>5, <2>6, <2>7, SumOfChange
  <2> QED
    BY <2>3, <2>4, <2>8, <2>9, TotalsAreSums, TotalsAreSumsNext DEF counts, cpus
<1> QED
  BY <1>4, <1>5, PoolsAfter

LEMMA WithNodeOfControlPlane ==
  ASSUME NEW plane \in ControlPlane, NEW node \in Node
  PROVE  /\ WithNode(plane, node) \in ControlPlane
         /\ Len(WithNode(plane, node).nodes) = Len(plane.nodes) + 1
         /\ WithNode(plane, node).nodeCount = Len(plane.nodes) + 1
         /\ WithNode(plane, node).cpu = plane.cpu + node.cpu
<1> DEFINE all   == Append(plane.nodes, node)
           count == Len(plane.nodes) + 1
           cpu   == plane.cpu + node.cpu
<1>1. all \in Seq(Node) /\ Len(all) = count /\ count \in Nat
  BY AppendProperties, LenProperties DEF ControlPlane
<1>2. cpu \in Nat
  BY DEF ControlPlane, Node
<1>3. WithNode(plane, node) = [plane EXCEPT !.nodes = all, !.nodeCount = count, !.cpu = cpu]
  BY DEF WithNode
<1> HIDE DEF all, count, cpu
<1>4. [plane EXCEPT !.nodes = all, !.nodeCount = count, !.cpu = cpu] \in ControlPlane
  BY <1>1, <1>2 DEF ControlPlane
<1>5. /\ [plane EXCEPT !.nodes = all, !.nodeCount = count, !.cpu = cpu].nodes = all
      /\ [plane EXCEPT !.nodes = all, !.nodeCount = count, !.cpu = cpu].nodeCount = count
      /\ [plane EXCEPT !.nodes = all, !.nodeCount = count, !.cpu = cpu].cpu = cpu
  BY DEF ControlPlane
<1> QED
  BY <1>1, <1>3, <1>4, <1>5 DEF count, cpu

\* Nothing is counted yet.
Uncounted ==
  nodes = << >> /\ nodePools = << >> /\ done = 0 /\ controlPlane = Empty /\ phase = "nodes"

LEMMA NothingCounted == Uncounted => SumsInv
<1> SUFFICES ASSUME Uncounted PROVE SumsInv
  OBVIOUS
<1> USE DEF Uncounted
<1>1. nodes \in Seq(Node) /\ Len(nodes) = 0 /\ nodePools \in Seq(Pool) /\ Len(nodePools) = 0
  BY EmptyFacts
<1>2. \A control : Counted(control) = {}
  BY DEF Counted
<1>3. Cardinality({}) = 0
  BY FS_EmptySet
<1>4. /\ CountsOf(nodePools) \in Seq(Nat) /\ Len(CountsOf(nodePools)) = 0
      /\ CpusOf(nodePools) \in Seq(Nat) /\ Len(CpusOf(nodePools)) = 0
      /\ CpusIn(nodes, {}) \in Seq(Nat) /\ Len(CpusIn(nodes, {})) = 0
  BY <1>1, PoolNumbers, NodeNumbers
<1>5. TotalNodeCount = 0 /\ TotalCpu = 0 /\ CpuOf({}) = 0
  BY <1>4, SumOfNone, TotalsAreSums
<1>6. /\ controlPlane \in ControlPlane /\ controlPlane.nodeCount = 0 /\ controlPlane.cpu = 0
      /\ Len(controlPlane.nodes) = 0
  BY EmptyFacts DEF Empty, ControlPlane
<1> QED
  BY <1>2, <1>3, <1>5, <1>6 DEF SumsInv

LEMMA NothingCountedNext == Uncounted' => SumsInv'
BY NothingCounted, PTL

LEMMA SumsUnchanged ==
  ASSUME SumsInv, UNCHANGED <<nodes, done, controlPlane, nodePools>>
  PROVE  /\ UNCHANGED <<TotalNodeCount, TotalCpu>>
         /\ (phase' \in {"ingresses", "sent"} => done = Len(nodes)) /\
            (phase' = "sent" => metrics'.nodeCount = TotalNodeCount /\ metrics'.cpu = TotalCpu)
            => SumsInv'
<1>1. \A control : UNCHANGED <<Counted(control), CpuOf(Counted(control))>>
  BY DEF Counted, CpuOf
<1>2. UNCHANGED <<TotalNodeCount, TotalCpu>>
  BY DEF TotalNodeCount, TotalCpu
<1> QED
  BY <1>1, <1>2 DEF SumsInv

LEMMA AppendNodeSums ==
  ASSUME PoolsInv, SumsInv, AppendNode
  PROVE  SumsInv'
<1> DEFINE node == nodes[done + 1]
<1>1. /\ done < Len(nodes) /\ nodes' = nodes /\ node \in Node /\ PoolTypeInv
      /\ phase = "pools" /\ phase' \in {"pools", "panic"}
  BY NextNode DEF AppendNode, PoolsInv
<1>2. CASE node.control /\ controlPlane' = WithNode(controlPlane, node)
           /\ done' = done + 1 /\ nodePools' = nodePools
  <2>1. node.control = TRUE /\ node.control # FALSE
    BY <1>1, <1>2 DEF Node
  <2>2. /\ Cardinality(Counted(TRUE))' = Cardinality(Counted(TRUE)) + 1
        /\ CpuOf(Counted(TRUE))' = CpuOf(Counted(TRUE)) + node.cpu
    BY <1>1, <1>2, <2>1, NextIsCounted
  <2>3. UNCHANGED <<Cardinality(Counted(FALSE)), CpuOf(Counted(FALSE))>>
    BY <1>1, <1>2, <2>1, NextIsCounted
  <2>4. UNCHANGED <<TotalNodeCount, TotalCpu>>
    BY <1>2 DEF TotalNodeCount, TotalCpu
  <2> HIDE DEF node
  <2>5. /\ controlPlane' \in ControlPlane
        /\ Len(controlPlane'.nodes) = Len(controlPlane.nodes) + 1
        /\ controlPlane'.nodeCount = Len(controlPlane.nodes) + 1
        /\ controlPlane'.cpu = controlPlane.cpu + node.cpu
    BY <1>1, <1>2, WithNodeOfControlPlane DEF SumsInv
  <2> QED
    BY <1>1, <2>2, <2>3, <2>4, <2>5 DEF SumsInv
<1>3. CASE ~ node.control /\ nodePools' = AppendNodeToNodePools(node)
           /\ done' = done + 1 /\ controlPlane' = controlPlane
  <2>1. node.control = FALSE /\ node.control # TRUE
    BY <1>1, <1>3 DEF Node
  <2>2. /\ Cardinality(Counted(FALSE))' = Cardinality(Counted(FALSE)) + 1
        /\ CpuOf(Counted(FALSE))' = CpuOf(Counted(FALSE)) + node.cpu
    BY <1>1, <1>3, <2>1, NextIsCounted
  <2>3. UNCHANGED <<Cardinality(Counted(TRUE)), CpuOf(Counted(TRUE))>>
    BY <1>1, <1>3, <2>1, NextIsCounted
  <2> HIDE DEF node
  <2>4. TotalNodeCount' = TotalNodeCount + 1 /\ TotalCpu' = TotalCpu + node.cpu
    BY <1>1, <1>3, PoolsGrow
  <2> QED
    BY <1>1, <1>3, <2>2, <2>3, <2>4 DEF SumsInv
<1>4. CASE UNCHANGED <<done, controlPlane, nodePools>>
  BY <1>1, <1>4, SumsUnchanged
<1> QED
  BY <1>2, <1>3, <1>4 DEF AppendNode

LEMMA GetNodeSums ==
  ASSUME PoolsInv, SumsInv, NEW control \in BOOLEAN, NEW worker \in Workers \cup {NoName},
         GetNode(control, worker)
  PROVE  SumsInv'
<1>1. PICK cpu \in Cpus :
        nodes' = Append(nodes, [name |-> Len(nodes) + 1,
                               control |-> control, worker |-> worker, cpu |-> cpu])
  BY DEF GetNode
<1>2. [name |-> Len(nodes) + 1, control |-> control, worker |-> worker, cpu |-> cpu] \in Node
  BY HeartbeatAssumption, LenProperties DEF Node, PoolsInv, PoolTypeInv
<1>3. /\ UNCHANGED <<phase, done, controlPlane, nodePools>> /\ phase = "nodes" /\ PoolTypeInv
  BY DEF GetNode, PoolsInv
<1>4. \A c : UNCHANGED <<Counted(c), CpuOf(Counted(c))>>
  BY <1>1, <1>2, <1>3, ReadingCountsNothing
<1>5. UNCHANGED <<TotalNodeCount, TotalCpu>>
  BY <1>3 DEF TotalNodeCount, TotalCpu
<1> QED
  BY <1>3, <1>4, <1>5 DEF SumsInv

-----------------------------------------------------------------------------
(* The heartbeat *)

HeartbeatInv == IngressInv /\ ReportedInv /\ PoolsInv /\ SumsInv

\* Nothing is reported yet, or any more.
Unreported == ingresses = << >>

LEMMA NothingReported == Unreported => ReportedInv
<1>1. Unreported => ingresses \in Seq(Ingress) /\ DOMAIN ingresses = {}
  BY EmptyFacts DEF Unreported
<1> QED
  BY <1>1 DEF ReportedInv, HealthyIsRead, OneAnswer

LEMMA NothingReportedNext == Unreported' => ReportedInv'
BY NothingReported, PTL

LEMMA HeartbeatInitKeeps == HeartbeatInit => HeartbeatInv
<1> SUFFICES ASSUME HeartbeatInit PROVE HeartbeatInv
  OBVIOUS
<1>1. BlankIngress /\ Unreported
  BY DEF HeartbeatInit, IngressInit, BlankIngress, Blank, Unreported
<1>2. /\ Len(nodes) = 0 /\ nodes \in Seq(Node) /\ done = 0
      /\ Len(nodePools) = 0 /\ nodePools \in Seq(Pool)
  BY EmptyFacts DEF HeartbeatInit
<1>3. PoolsInv
  BY <1>2 DEF PoolsInv, PoolTypeInv
<1>4. SumsInv
  BY NothingCounted DEF HeartbeatInit, Uncounted
<1> QED
  BY <1>1, <1>3, <1>4, BlankKeeps, NothingReported DEF HeartbeatInv

LEMMA HeartbeatStep ==
  ASSUME HeartbeatInv, [HeartbeatNext]_heartbeatVars
  PROVE  HeartbeatInv'
<1> USE DEF HeartbeatInv
<1>1. UNCHANGED <<nodes, done, nodePools>> => PoolsInv'
  BY PoolsUnchanged
<1>2. UNCHANGED ingressVars => IngressInv' /\ ReportedInv'
  BY DEF ingressVars, IngressInv, IngressTypeInv, Read, ReportedInv, HealthyIsRead, OneAnswer
<1>3. ASSUME NEW control \in BOOLEAN, NEW worker \in Workers \cup {NoName},
             GetNode(control, worker)
      PROVE  HeartbeatInv'
  BY <1>2, <1>3, GetNodeKeeps, GetNodeSums DEF GetNode
<1>4. CASE GetNodesReturns
  <2>1. SumsInv'
    BY <1>4, SumsUnchanged DEF GetNodesReturns
  <2> QED
    BY <1>1, <1>2, <1>4, <2>1 DEF GetNodesReturns
<1>5. CASE AppendNode
  BY <1>2, <1>5, AppendNodeKeeps, AppendNodeSums DEF AppendNode
<1>6. CASE GetIngresses
  <2>1. SumsInv'
    BY <1>6, SumsUnchanged DEF GetIngresses
  <2> QED
    BY <1>1, <1>2, <1>6, <2>1 DEF GetIngresses
<1>7. CASE EnrichIngress
  <2>1. IngressNext /\ UNCHANGED <<nodes, done, controlPlane, nodePools>>
        /\ phase = "ingresses" /\ phase' # "sent"
    BY <1>7 DEF EnrichIngress
  <2>2. SumsInv'
    BY <2>1, SumsUnchanged DEF SumsInv
  <2> QED
    BY <1>1, <2>1, <2>2, IngressStep, ReportedStep
<1>8. CASE SendHeartbeat
  <2>1. SumsInv'
    <3>1. /\ UNCHANGED <<nodes, done, controlPlane, nodePools>>
          /\ phase = "ingresses"
          /\ metrics'.nodeCount = TotalNodeCount /\ metrics'.cpu = TotalCpu
      BY <1>8 DEF SendHeartbeat
    <3> QED
      BY <3>1, SumsUnchanged DEF SumsInv
  <2> QED
    BY <1>1, <1>2, <1>8, <2>1 DEF SendHeartbeat
<1>9. CASE NextTick
  <2>1. /\ BlankIngress' /\ Unreported'
        /\ nodes' = << >> /\ nodePools' = << >> /\ done' = 0
        /\ Uncounted'
    BY <1>9 DEF NextTick, ClearIngresses, BlankIngress, Blank, Unreported, Uncounted
  <2> QED
    BY <2>1, BlankKeepsNext, NothingReportedNext, NoPoolsKeep, NothingCountedNext
<1>10. CASE UNCHANGED heartbeatVars
  <2>1. UNCHANGED nodeVars /\ UNCHANGED ingressVars
    BY <1>10 DEF heartbeatVars
  <2>2. SumsInv'
    BY <2>1, SumsUnchanged DEF nodeVars, SumsInv
  <2> QED
    BY <1>1, <1>2, <2>1, <2>2 DEF nodeVars
<1> QED
  BY <1>3, <1>4, <1>5, <1>6, <1>7, <1>8, <1>9, <1>10 DEF HeartbeatNext

LEMMA HeartbeatInvariant == HeartbeatSpec => []HeartbeatInv
<1>1. HeartbeatInit => HeartbeatInv
  BY HeartbeatInitKeeps
<1>2. HeartbeatInv /\ [HeartbeatNext]_heartbeatVars => HeartbeatInv'
  BY HeartbeatStep
<1> QED
  BY <1>1, <1>2, PTL DEF HeartbeatSpec

\* appendNodeToNodePools puts every worker into the one pool of its name, no
\* node twice, and puts and counts nothing else there, whatever the order of the
\* nodes and also when they differ in nothing but their names.
THEOREM PoolsArePartitioned == HeartbeatSpec => []PoolsPartition
<1>1. HeartbeatInv => PoolsPartition
  <2> SUFFICES ASSUME PoolsInv PROVE PoolsPartition
    BY DEF HeartbeatInv
  <2>1. /\ DOMAIN nodePools = 1 .. Len(nodePools)
        /\ \A p \in DOMAIN nodePools : nodePools[p] \in Pool
    BY LenProperties, ElementOfSeq DEF PoolsInv, PoolTypeInv
  <2>2. \A p \in DOMAIN nodePools :
          DOMAIN nodePools[p].nodes = 1 .. Len(nodePools[p].nodes)
    BY <2>1, LenProperties DEF Pool
  <2>3. \A p, q \in DOMAIN nodePools : nodePools[p].name = nodePools[q].name => p = q
    BY <2>1 DEF PoolsInv
  <2>4. ASSUME NEW i \in 1 .. done, ~ nodes[i].control
        PROVE  \E p \in DOMAIN nodePools :
                 /\ nodePools[p].name = nodes[i].worker
                 /\ \E k \in DOMAIN nodePools[p].nodes : nodePools[p].nodes[k] = nodes[i]
    <3>1. PICK p \in 1 .. Len(nodePools) :
            /\ nodePools[p].name = nodes[i].worker
            /\ \E k \in 1 .. Len(nodePools[p].nodes) : nodePools[p].nodes[k] = nodes[i]
      BY <2>4 DEF PoolsInv
    <3>2. \E k \in DOMAIN nodePools[p].nodes : nodePools[p].nodes[k] = nodes[i]
      BY <2>1, <2>2, <3>1
    <3> QED
      BY <2>1, <3>1, <3>2
  <2>5. ASSUME NEW p \in DOMAIN nodePools
        PROVE  /\ nodePools[p].nodeCount = Len(nodePools[p].nodes)
               /\ \A k \in DOMAIN nodePools[p].nodes :
                    /\ Worker(nodePools[p].nodes[k])
                    /\ nodePools[p].nodes[k].worker = nodePools[p].name
    BY <2>1, <2>2 DEF PoolsInv
  <2>6. ASSUME NEW p \in DOMAIN nodePools, NEW q \in DOMAIN nodePools,
               NEW k \in DOMAIN nodePools[p].nodes, NEW l \in DOMAIN nodePools[q].nodes,
               nodePools[p].nodes[k].name = nodePools[q].nodes[l].name
        PROVE  p = q /\ k = l
    <3>1. nodePools[p].nodes[k] = nodePools[q].nodes[l]
      BY <2>5, <2>6 DEF Worker
    <3>2. p = q
      BY <2>3, <2>5, <3>1
    <3>3. p \in 1 .. Len(nodePools) /\ k \in 1 .. Len(nodePools[p].nodes)
          /\ l \in 1 .. Len(nodePools[p].nodes)
      BY <2>1, <2>2, <3>2
    <3>4. nodePools[p].nodes[k].name = nodePools[p].nodes[l].name
      BY <2>6, <3>2
    <3>5. k = l
      BY <3>3, <3>4 DEF PoolsInv
    <3> QED
      BY <3>2, <3>5
  <2> QED
    BY <2>3, <2>4, <2>5, <2>6 DEF PoolsPartition, Worker
<1> QED
  BY <1>1, HeartbeatInvariant, PTL

\* GetHeartbeatReport makes its totals pool by pool: whatever the nodes, their
\* order and their cpus, each is counted once, with the workers or with the
\* control plane.
THEOREM EveryNodeIsCounted == HeartbeatSpec => []TotalsAddUp
<1>1. HeartbeatInv => TotalsAddUp
  <2> SUFFICES ASSUME HeartbeatInv, phase = "sent" PROVE TotalsAddUp
    BY DEF TotalsAddUp
  <2>1. done = Len(nodes) /\ nodes \in Seq(Node) /\ DOMAIN nodes = 1 .. done
    BY LenProperties DEF HeartbeatInv, SumsInv, PoolsInv, PoolTypeInv
  <2>2. \A i \in DOMAIN nodes : nodes[i].control \in BOOLEAN
    <3>1. \A i \in DOMAIN nodes : nodes[i] \in Node
      BY <2>1, ElementOfSeq
    <3> QED
      BY <3>1 DEF Node
  <2>3. Counted(FALSE) = {i \in DOMAIN nodes : ~ nodes[i].control}
    BY <2>1, <2>2 DEF Counted
  <2>4. Counted(TRUE) = DOMAIN nodes \ {i \in DOMAIN nodes : ~ nodes[i].control}
    BY <2>1, <2>2 DEF Counted
  <2> QED
    BY <2>3, <2>4 DEF HeartbeatInv, SumsInv, TotalsAddUp
<1> QED
  BY <1>1, HeartbeatInvariant, PTL

\* GetIngressDetails never reports an ingress healthy when a service of it
\* could not be read, whichever read failed.
THEOREM HealthyWasRead == HeartbeatSpec => []HealthyIsRead
<1>1. HeartbeatInv => HealthyIsRead
  BY DEF HeartbeatInv, ReportedInv
<1> QED
  BY <1>1, HeartbeatInvariant, PTL

\* The service cache of GetIngressDetails gives the paths of an ingress one
\* answer per service, except where a read failed.
THEOREM ServiceHasOneAnswer == HeartbeatSpec => []OneAnswer
<1>1. HeartbeatInv => OneAnswer
  BY DEF HeartbeatInv, ReportedInv
<1> QED
  BY <1>1, HeartbeatInvariant, PTL
=============================================================================
