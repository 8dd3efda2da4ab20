--------------------------- MODULE ScheduleProofs ---------------------------
(***************************************************************************)
(* Proofs about Scheduler, ScheduleReports and Replanning, for every set   *)
(* of plans with graphs, profiles and envelopes of the types the contracts *)
(* construct: every schedule passes the verifier of Conservation,          *)
(* protected work stays affordable, certificates mean their status, every  *)
(* event can be explained from those before it, and a run that is          *)
(* replanned keeps its promises, its accounts and its history.             *)
(*                                                                         *)
(* The first part is about the operators the scheduler is built from:      *)
(* listings of sets by an order, ancestors, ranks and sums.  The second is *)
(* about the parts of a schedule, each with a lemma for what a start and   *)
(* an end do to it: the books of entries, what runs, slots, effects,       *)
(* accounts, skips and the log.  The third puts them together as SInv,     *)
(* with one lemma for each action.  The fourth derives what the verifier   *)
(* asks.  The fifth adds Explaining, which says of every prefix of the log *)
(* what the explanation recomputes there.  The last is about Replanning,   *)
(* whose invariant RInv has SInv of a plan made from an accepted snapshot. *)
(***************************************************************************)
EXTENDS Replanning, ScheduleReports, SumLemmas, SequenceTheorems

-----------------------------------------------------------------------------
(* Lists of finite sets. *)

StrictOrder(S, R) ==
  /\ \A x \in S : <<x, x>> \notin R
  /\ \A x, y \in S : x # y => <<x, y>> \in R \/ <<y, x>> \in R
  /\ \A x, y, z \in S : <<x, y>> \in R /\ <<y, z>> \in R => <<x, z>> \in R

\* l has each member of S once.
Enumerates(l, S) ==
  /\ l \in Seq(S) /\ Len(l) = Cardinality(S) /\ DOMAIN l = 1..Cardinality(S)
  /\ \A i, j \in 1..Cardinality(S) : l[i] = l[j] => i = j
  /\ \A x \in S : \E i \in 1..Cardinality(S) : l[i] = x

Earlier(S, R, x) == {y \in S : <<y, x>> \in R}

\* In a strict order of a finite set the number of elements before one tells which it is.
LEMMA PlacesDiffer ==
  ASSUME NEW S, IsFiniteSet(S), NEW R, StrictOrder(S, R)
  PROVE  /\ \A x \in S : Cardinality(Earlier(S, R, x)) \in 0..(Cardinality(S) - 1)
         /\ \A x, y \in S : <<x, y>> \in R => Cardinality(Earlier(S, R, x)) < Cardinality(Earlier(S, R, y))
<1>1. ASSUME NEW x \in S PROVE Cardinality(Earlier(S, R, x)) \in 0..(Cardinality(S) - 1)
  <2>1. Earlier(S, R, x) \in SUBSET (S \ {x})
    BY DEF Earlier, StrictOrder
  <2>2. IsFiniteSet(S \ {x}) /\ Cardinality(S \ {x}) = Cardinality(S) - 1
    BY FS_RemoveElement
  <2>3. IsFiniteSet(Earlier(S, R, x)) /\ Cardinality(Earlier(S, R, x)) <= Cardinality(S) - 1
    BY <2>1, <2>2, FS_Subset
  <2>4. Cardinality(Earlier(S, R, x)) \in Nat /\ Cardinality(S) \in Nat
    BY <2>3, FS_CardinalityType
  <2> QED
    BY <2>3, <2>4
<1>2. ASSUME NEW x \in S, NEW y \in S, <<x, y>> \in R
      PROVE  Cardinality(Earlier(S, R, x)) < Cardinality(Earlier(S, R, y))
  <2>1. Earlier(S, R, x) \in SUBSET Earlier(S, R, y)
    BY <1>2 DEF Earlier, StrictOrder
  <2>2. x \in Earlier(S, R, y) /\ x \notin Earlier(S, R, x)
    BY <1>2 DEF Earlier, StrictOrder
  <2>3. IsFiniteSet(Earlier(S, R, y))
    BY FS_Subset DEF Earlier
  <2>4. /\ Cardinality(Earlier(S, R, x)) <= Cardinality(Earlier(S, R, y))
        /\ Cardinality(Earlier(S, R, y)) = Cardinality(Earlier(S, R, x)) => Earlier(S, R, y) = Earlier(S, R, x)
    BY <2>1, <2>3, FS_Subset
  <2>5. Cardinality(Earlier(S, R, x)) \in Nat /\ Cardinality(Earlier(S, R, y)) \in Nat
    BY <2>1, <2>3, FS_Subset, FS_CardinalityType
  <2> QED
    BY <2>2, <2>4, <2>5
<1> QED
  BY <1>1, <1>2

\* The list of a set under a strict order has each member once, the earlier ones first.
LEMMA ListedEnumerates ==
  ASSUME NEW S, IsFiniteSet(S), NEW R, StrictOrder(S, R)
  PROVE  /\ Enumerates(Listed(S, R), S)
         /\ \A i, j \in 1..Cardinality(S) : i < j => <<Listed(S, R)[i], Listed(S, R)[j]>> \in R
<1> DEFINE n == Cardinality(S)
           place == [x \in S |-> Cardinality(Earlier(S, R, x)) + 1]
           l == Listed(S, R)
<1>1. n \in Nat
  BY FS_CardinalityType
<1>2. \A x \in S : place[x] \in 1..n /\ Cardinality(Earlier(S, R, x)) = place[x] - 1
  <2>1. \A x \in S : Cardinality(Earlier(S, R, x)) \in 0..(n - 1)
    BY PlacesDiffer
  <2> QED
    BY <1>1, <2>1
<1>3. \A x, y \in S : <<x, y>> \in R => place[x] < place[y]
  <2>1. \A x \in S : Cardinality(Earlier(S, R, x)) \in 0..(n - 1)
    BY PlacesDiffer
  <2>2. \A x, y \in S : <<x, y>> \in R => Cardinality(Earlier(S, R, x)) < Cardinality(Earlier(S, R, y))
    BY PlacesDiffer
  <2> QED
    BY <1>1, <2>1, <2>2
<1>4. \A x, y \in S : place[x] = place[y] => x = y
  <2> SUFFICES ASSUME NEW x \in S, NEW y \in S, place[x] = place[y], x # y PROVE FALSE
    OBVIOUS
  <2>1. place[x] < place[y] \/ place[y] < place[x]
    BY <1>3 DEF StrictOrder
  <2>2. place[x] \in Int /\ place[y] \in Int
    BY <1>1, <1>2
  <2> QED
    BY <2>1, <2>2
<1>5. \A i \in 1..n : \E x \in S : place[x] = i
  <2>1. place \in Injection(S, 1..n)
    BY <1>2, <1>4 DEF Injection, IsInjective
  <2>2. IsFiniteSet(1..n) /\ Cardinality(1..n) = n
    BY <1>1, FS_Interval
  <2>3. place \in Surjection(S, 1..n)
    BY <2>1, <2>2, FS_Injection
  <2> QED
    BY <2>3 DEF Surjection
<1>6. ASSUME NEW i \in 1..n PROVE l[i] \in S /\ place[l[i]] = i
  <2>1. l[i] = CHOOSE x \in S : Cardinality({y \in S : <<y, x>> \in R}) = i - 1
    BY DEF Listed
  <2>2. PICK x \in S : place[x] = i
    BY <1>5
  <2>3. Cardinality({y \in S : <<y, x>> \in R}) = i - 1
    BY <1>1, <1>2, <2>2 DEF Earlier
  <2>4. l[i] \in S /\ Cardinality({y \in S : <<y, l[i]>> \in R}) = i - 1
    BY <2>1, <2>3
  <2> HIDE DEF l, place
  <2>5. place[l[i]] - 1 = i - 1 /\ place[l[i]] \in 1..n
    BY <1>2, <2>4 DEF Earlier
  <2> QED
    BY <1>1, <2>4, <2>5
<1>7. l \in Seq(S) /\ Len(l) = n /\ DOMAIN l = 1..n
  <2> DEFINE at(i) == CHOOSE x \in S : Cardinality({y \in S : <<y, x>> \in R}) = i - 1
  <2>1. l = [i \in 1..n |-> at(i)]
    BY DEF Listed
  <2>2. \A i \in 1..n : at(i) \in S
    <3> HIDE DEF at
    <3> QED
      BY <1>6, <2>1
  <2> HIDE DEF at, l
  <2>3. l \in [1..n -> S]
    BY <2>1, <2>2
  <2> QED
    BY <1>1, <2>3
<1> HIDE DEF l, place
<1>8. \A i, j \in 1..n : l[i] = l[j] => i = j
  BY <1>6
<1>9. \A x \in S : \E i \in 1..n : l[i] = x
  BY <1>2, <1>4, <1>6
<1>10. \A i, j \in 1..n : i < j => <<l[i], l[j]>> \in R
  <2> SUFFICES ASSUME NEW i \in 1..n, NEW j \in 1..n, i < j PROVE <<l[i], l[j]>> \in R
    OBVIOUS
  <2>1. l[i] # l[j] /\ l[i] \in S /\ l[j] \in S /\ place[l[i]] = i /\ place[l[j]] = j
    BY <1>6
  <2>2. <<l[j], l[i]>> \in R => j < i
    BY <1>3, <2>1
  <2>3. <<l[i], l[j]>> \in R \/ <<l[j], l[i]>> \in R
    BY <2>1 DEF StrictOrder
  <2> QED
    BY <1>1, <2>2, <2>3
<1> QED
  BY <1>7, <1>8, <1>9, <1>10 DEF Enumerates, l

\* Numbers have an order.
LEMMA IncreasingOrders ==
  ASSUME NEW S, \A x \in S : x \in Int
  PROVE  StrictOrder(S, Increasing(S))
<1>1. \A x, y \in S : <<x, y>> \in Increasing(S) <=> x < y
  BY DEF Increasing
<1> QED
  BY <1>1 DEF StrictOrder

\* p is what o, a list of I, picks from s.
PickedBy(p, o, s, I) ==
  /\ Enumerates(o, I)
  /\ Len(p) = Cardinality(I) /\ DOMAIN p = 1..Cardinality(I)
  /\ \A i \in 1..Cardinality(I) : p[i] = s[o[i]] /\ o[i] \in I
  /\ \A i, j \in 1..Cardinality(I) : i < j => o[i] < o[j]

\* What is picked from a sequence: the elements at the given places, each place once.
LEMMA PickedProperties ==
  ASSUME NEW S, NEW s \in Seq(S), NEW I \in SUBSET DOMAIN s
  PROVE  IsFiniteSet(I) /\ Picked(s, I) \in Seq(S) /\ \E o : PickedBy(Picked(s, I), o, s, I)
<1> DEFINE o == Listed(I, Increasing(I))
           p == Picked(s, I)
           n == Cardinality(I)
<1>1. IsFiniteSet(I) /\ (\A x \in I : x \in Int) /\ I \subseteq 1..Len(s) /\ Len(s) \in Nat
  <2>1. DOMAIN s = 1..Len(s) /\ Len(s) \in Nat
    OBVIOUS
  <2>2. IsFiniteSet(1..Len(s))
    BY <2>1, FS_Interval
  <2> QED
    BY <2>1, <2>2, FS_Subset
<1>2. Enumerates(o, I) /\ \A i, j \in 1..n : i < j => <<o[i], o[j]>> \in Increasing(I)
  <2>1. StrictOrder(I, Increasing(I))
    BY <1>1, IncreasingOrders
  <2> QED
    BY <1>1, <2>1, ListedEnumerates
<1>3. DOMAIN o = 1..n /\ (\A i \in 1..n : o[i] \in I) /\ n \in Nat
  BY <1>1, <1>2, FS_CardinalityType DEF Enumerates
<1>4. p = [i \in 1..n |-> s[o[i]]]
  BY <1>3 DEF Picked
<1>5. \A i \in 1..n : s[o[i]] \in S
  BY <1>1, <1>3
<1>6. p \in Seq(S) /\ Len(p) = n /\ DOMAIN p = 1..n
  <2>1. p \in [1..n -> S]
    BY <1>4, <1>5
  <2> QED
    BY <1>3, <1>4, <2>1
<1>7. \A i, j \in 1..n : i < j => o[i] < o[j]
  BY <1>2 DEF Increasing
<1>8. \A i \in 1..n : p[i] = s[o[i]] /\ o[i] \in I
  BY <1>3, <1>4
<1>9. PickedBy(p, o, s, I)
  <2> HIDE DEF o, p
  <2> QED
    BY <1>1, <1>2, <1>6, <1>7, <1>8 DEF PickedBy
<1> QED
  BY <1>1, <1>6, <1>9

\* A finite nonempty set has a first element in a strict order.
LEMMA FirstExists ==
  ASSUME NEW S, IsFiniteSet(S), S # {}, NEW R, StrictOrder(S, R)
  PROVE  \E x \in S : \A y \in S : x = y \/ <<x, y>> \in R
<1> DEFINE l == Listed(S, R)
           n == Cardinality(S)
<1>1. Enumerates(l, S) /\ \A i, j \in 1..n : i < j => <<l[i], l[j]>> \in R
  BY ListedEnumerates
<1>2. n \in Nat /\ n # 0
  BY FS_CardinalityType, FS_EmptySet
<1>3. l[1] \in S
  BY <1>1, <1>2 DEF Enumerates
<1>4. \A y \in S : l[1] = y \/ <<l[1], y>> \in R
  <2> SUFFICES ASSUME NEW y \in S PROVE l[1] = y \/ <<l[1], y>> \in R
    OBVIOUS
  <2>1. PICK i \in 1..n : l[i] = y
    BY <1>1 DEF Enumerates
  <2> HIDE DEF l
  <2>2. CASE i = 1
    BY <2>1, <2>2
  <2>3. CASE i # 1
    BY <1>1, <1>2, <2>1, <2>3
  <2> QED
    BY <2>2, <2>3
<1> QED
  BY <1>3, <1>4

\* A finite nonempty set of integers has a least and a greatest element.
LEMMA ExtremaExist ==
  ASSUME NEW S \in SUBSET Int, IsFiniteSet(S), S # {}
  PROVE  /\ Min(S) \in S /\ \A y \in S : Min(S) <= y
         /\ Max(S) \in S /\ \A y \in S : Max(S) >= y
<1> DEFINE Decreasing == {p \in S \X S : p[1] > p[2]}
<1>1. \E x \in S : \A y \in S : x <= y
  <2>1. PICK x \in S : \A y \in S : x = y \/ <<x, y>> \in Increasing(S)
    BY IncreasingOrders, FirstExists
  <2>2. \A y \in S : x <= y
    <3> TAKE y \in S
    <3>1. x \in Int /\ y \in Int
      OBVIOUS
    <3>2. <<x, y>> \in Increasing(S) => x < y
      BY DEF Increasing
    <3> QED
      BY <2>1, <3>1, <3>2
  <2> QED
    BY <2>2
<1>2. \E x \in S : \A y \in S : x >= y
  <2>1. \A x, y \in S : <<x, y>> \in Decreasing <=> x > y
    OBVIOUS
  <2> HIDE DEF Decreasing
  <2>2. StrictOrder(S, Decreasing)
    BY <2>1 DEF StrictOrder
  <2>3. PICK x \in S : \A y \in S : x = y \/ <<x, y>> \in Decreasing
    BY <2>2, FirstExists
  <2>4. \A y \in S : x >= y
    <3> TAKE y \in S
    <3>1. x \in Int /\ y \in Int
      OBVIOUS
    <3>2. x = y \/ <<x, y>> \in Decreasing
      BY <2>3
    <3>3. <<x, y>> \in Decreasing => x > y
      BY <2>1
    <3> QED
      BY <3>1, <3>2, <3>3
  <2> QED
    BY <2>4
<1> QED
  BY <1>1, <1>2 DEF Min, Max

\* What Largest returns.
LEMMA LargestProperties ==
  ASSUME NEW S \in SUBSET Int, IsFiniteSet(S)
  PROVE  /\ Largest(S) \in Int
         /\ \A y \in S : y <= Largest(S)
         /\ S = {} => Largest(S) = 0
         /\ S # {} => Largest(S) \in S
<1>1. CASE S = {}
  BY <1>1 DEF Largest
<1>2. CASE S # {}
  <2>1. Max(S) \in S /\ \A y \in S : Max(S) >= y
    BY <1>2, ExtremaExist
  <2>2. Largest(S) = Max(S)
    BY <1>2 DEF Largest
  <2> QED
    BY <1>2, <2>1, <2>2
<1> QED
  BY <1>1, <1>2

-----------------------------------------------------------------------------
(* Iterations: the recursive functions over 0..N that the model defines.   *)

Iterates(h, base, Step, N) ==
  h = [n \in 0..N |-> IF n = 0 THEN base ELSE Step[n][h[n - 1]]]

\* A step that stays within V can be iterated from any member of V.
LEMMA IterationExists ==
  ASSUME NEW V, NEW base \in V, NEW N \in Nat, NEW Step \in [Nat -> [V -> V]]
  PROVE  \E h \in [0..N -> V] : Iterates(h, base, Step, N)
<1> DEFINE Bad == {n \in Nat : ~\E h \in [0..n -> V] : Iterates(h, base, Step, n)}
<1>1. SUFFICES ASSUME Bad # {} PROVE FALSE
  OBVIOUS
<1>2. PICK n \in Bad : \A m \in Bad : n <= m
  <2> HIDE DEF Bad
  <2>1. Bad \in SUBSET Nat
    BY DEF Bad
  <2> QED
    BY <1>1, <2>1, LeastNumber
<1>3. n # 0
  <2> SUFFICES ASSUME n = 0 PROVE FALSE
    OBVIOUS
  <2> DEFINE h == [k \in 0..0 |-> base]
  <2>1. h \in [0..n -> V] /\ Iterates(h, base, Step, n)
    BY DEF Iterates
  <2> QED
    BY <1>2, <2>1
<1>4. n - 1 \in Nat /\ n - 1 \notin Bad
  BY <1>2, <1>3
<1>5. PICK g \in [0..(n - 1) -> V] : Iterates(g, base, Step, n - 1)
  BY <1>4
<1> DEFINE h == [k \in 0..n |-> IF k = n THEN Step[n][g[n - 1]] ELSE g[k]]
<1>6. n \in Nat /\ n - 1 \in 0..(n - 1) /\ \A k \in 0..n : k # n => k \in 0..(n - 1)
  BY <1>2, <1>3
<1>7. g[n - 1] \in V
  BY <1>6
<1>8. h \in [0..n -> V]
  <2>1. Step[n][g[n - 1]] \in V
    BY <1>6, <1>7
  <2> QED
    BY <1>6, <2>1
<1>9. \A k \in 0..(n - 1) : g[k] = IF k = 0 THEN base ELSE Step[k][g[k - 1]]
  BY <1>5 DEF Iterates
<1>10. ASSUME NEW k \in 0..n PROVE h[k] = IF k = 0 THEN base ELSE Step[k][h[k - 1]]
  <2>1. CASE k = n
    <3>1. h[k] = Step[n][g[n - 1]] /\ h[k - 1] = g[n - 1]
      BY <1>3, <1>6, <2>1
    <3> QED
      BY <1>3, <2>1, <3>1
  <2>2. CASE k # n
    <3>1. h[k] = g[k] /\ k \in 0..(n - 1)
      BY <1>6, <2>2
    <3>2. k # 0 => k - 1 \in 0..n /\ k - 1 # n /\ h[k - 1] = g[k - 1]
      BY <1>6, <2>2
    <3> QED
      BY <1>9, <3>1, <3>2
  <2> QED
    BY <2>1, <2>2
<1>11. Iterates(h, base, Step, n)
  <2>1. h = [k \in 0..n |-> h[k]]
    BY <1>8
  <2> HIDE DEF h
  <2> QED
    BY <1>8, <1>10, <2>1 DEF Iterates
<1> QED
  BY <1>2, <1>8, <1>11

-----------------------------------------------------------------------------
(* Ancestors. *)

Closed(g, X) == \A t \in X : g.deps[t] \subseteq X

Below(g, X) == X \union UNION {g.deps[t] : t \in X}

Levels(h, g, S) ==
  h = [n \in 0..Cardinality(g.tasks) |->
         IF n = 0 THEN S ELSE LET below == h[n - 1] IN below \union UNION {g.deps[t] : t \in below}]

TheLevels(g, S) == CHOOSE h : Levels(h, g, S)

\* WithAncestors is the last level of the search for ancestors.
LEMMA AncestorsAreLevels ==
  ASSUME NEW g, NEW S
  PROVE  WithAncestors(g, S) = TheLevels(g, S)[Cardinality(g.tasks)]
BY DEF WithAncestors, TheLevels, Levels

\* The graph's tasks are finitely many and depend on each other only.
TasksAreClosed(g) == IsFiniteSet(g.tasks) /\ \A t \in g.tasks : g.deps[t] \subseteq g.tasks

\* The levels of that search: a set, then each level with what it depends on.
LEMMA LevelsExist ==
  ASSUME NEW g, TasksAreClosed(g), NEW S \in SUBSET g.tasks
  PROVE  LET h == TheLevels(g, S) N == Cardinality(g.tasks)
         IN /\ N \in Nat /\ h[0] = S
            /\ \A n \in 1..N : h[n] = Below(g, h[n - 1])
            /\ \A n \in 0..N : h[n] \in SUBSET g.tasks
<1> DEFINE N == Cardinality(g.tasks)
           V == SUBSET g.tasks
           Step == [n \in Nat |-> [X \in V |-> Below(g, X)]]
           h == TheLevels(g, S)
<1>1. N \in Nat
  BY FS_CardinalityType DEF TasksAreClosed
<1>2. \A X \in V : Below(g, X) \in V
  BY DEF Below, TasksAreClosed
<1>3. Step \in [Nat -> [V -> V]]
  BY <1>2
<1>4. PICK f \in [0..N -> V] : Iterates(f, S, Step, N)
  <2> HIDE DEF N, V, Step
  <2>1. S \in V
    BY DEF V
  <2> QED
    BY <1>1, <1>3, <2>1, IterationExists
<1>5. \A n \in 0..N : n # 0 => n - 1 \in 0..N /\ Step[n][f[n - 1]] = Below(g, f[n - 1])
  <2> SUFFICES ASSUME NEW n \in 0..N, n # 0 PROVE n - 1 \in 0..N /\ Step[n][f[n - 1]] = Below(g, f[n - 1])
    OBVIOUS
  <2>1. n - 1 \in 0..N /\ n \in Nat
    BY <1>1
  <2>2. f[n - 1] \in V
    BY <2>1
  <2> QED
    BY <2>1, <2>2
<1>6. Levels(f, g, S)
  <2>1. f = [n \in 0..N |-> IF n = 0 THEN S ELSE Step[n][f[n - 1]]]
    BY <1>4 DEF Iterates
  <2> HIDE DEF Step
  <2>2. f = [n \in 0..N |-> IF n = 0 THEN S ELSE Below(g, f[n - 1])]
    BY <1>5, <2>1
  <2> QED
    BY <2>2 DEF Levels, Below
<1>7. Levels(h, g, S)
  BY <1>6 DEF TheLevels
<1>8. h[0] = S /\ \A n \in 1..N : h[n] = Below(g, h[n - 1])
  <2> HIDE DEF h
  <2> QED
    BY <1>1, <1>7 DEF Levels, Below
<1>9. \A n \in 0..N : h[n] \in V
  <2> DEFINE Bad == {n \in 0..N : h[n] \notin V}
  <2>1. SUFFICES ASSUME Bad # {} PROVE FALSE
    OBVIOUS
  <2>2. PICK n \in Bad : \A m \in Bad : n <= m
    <3>1. Bad \in SUBSET Nat
      BY <1>1
    <3> HIDE DEF Bad
    <3> QED
      BY <2>1, <3>1, LeastNumber
  <2> HIDE DEF h, V
  <2>3. n # 0
    BY <1>8, <2>2 DEF V
  <2>4. n - 1 \in 0..N /\ n \in 1..N
    BY <1>1, <2>2, <2>3
  <2>5. n - 1 \notin Bad
    BY <1>1, <2>2, <2>4
  <2>6. h[n - 1] \in V
    BY <2>4, <2>5
  <2> QED
    BY <1>2, <1>8, <2>2, <2>4, <2>6
<1> QED
  BY <1>1, <1>8, <1>9

\* The ancestors of a set: they contain it, are closed, and are the least such set.
LEMMA AncestorsClose ==
  ASSUME NEW g, TasksAreClosed(g), NEW S \in SUBSET g.tasks
  PROVE  /\ S \subseteq WithAncestors(g, S)
         /\ WithAncestors(g, S) \subseteq g.tasks
         /\ Closed(g, WithAncestors(g, S))
<1> DEFINE N == Cardinality(g.tasks)
           h == TheLevels(g, S)
           Grown(n) == S \subseteq h[n] /\ (Closed(g, h[n]) \/ Cardinality(h[n]) >= n + 1)
<1>1. /\ N \in Nat /\ h[0] = S
      /\ \A n \in 1..N : h[n] = Below(g, h[n - 1])
      /\ \A n \in 0..N : h[n] \in SUBSET g.tasks
  BY LevelsExist
<1>2. WithAncestors(g, S) = h[N]
  BY AncestorsAreLevels
<1>3. \A n \in 0..N : IsFiniteSet(h[n]) /\ Cardinality(h[n]) \in Nat
  BY <1>1, FS_Subset, FS_CardinalityType DEF TasksAreClosed
<1> HIDE DEF h
<1>4. Grown(0)
  <2>1. CASE S = {}
    BY <1>1, <2>1 DEF Closed
  <2>2. CASE S # {}
    <3>1. IsFiniteSet(h[0]) /\ Cardinality(h[0]) \in Nat /\ h[0] # {}
      BY <1>1, <1>3, <2>2
    <3>2. Cardinality(h[0]) # 0
      BY <3>1, FS_EmptySet
    <3> QED
      BY <1>1, <3>1, <3>2
  <2> QED
    BY <2>1, <2>2
<1>5. ASSUME NEW n \in 1..N, Grown(n - 1) PROVE Grown(n)
  <2>1. n - 1 \in 0..N /\ n \in 0..N /\ h[n] = Below(g, h[n - 1])
    BY <1>1
  <2>2. S \subseteq h[n] /\ h[n - 1] \subseteq h[n]
    BY <1>5, <2>1 DEF Below
  <2>3. CASE Closed(g, h[n - 1])
    <3>1. h[n] = h[n - 1]
      BY <2>1, <2>3 DEF Below, Closed
    <3> QED
      BY <2>2, <2>3, <3>1
  <2>4. CASE ~Closed(g, h[n - 1])
    <3>1. h[n] # h[n - 1]
      BY <2>1, <2>4 DEF Below, Closed
    <3>2. Cardinality(h[n - 1]) >= n
      BY <1>1, <1>5, <2>4
    <3>3. /\ Cardinality(h[n - 1]) <= Cardinality(h[n])
          /\ Cardinality(h[n]) = Cardinality(h[n - 1]) => h[n] = h[n - 1]
      BY <1>3, <2>1, <2>2, FS_Subset
    <3> QED
      BY <1>1, <1>3, <2>1, <2>2, <3>1, <3>2, <3>3
  <2> QED
    BY <2>3, <2>4
<1>6. \A n \in 0..N : Grown(n)
  <2> DEFINE Bad == {n \in 0..N : ~Grown(n)}
  <2>1. SUFFICES ASSUME Bad # {} PROVE FALSE
    OBVIOUS
  <2>2. PICK n \in Bad : \A m \in Bad : n <= m
    <3>1. Bad \in SUBSET Nat
      BY <1>1
    <3> HIDE DEF Bad
    <3> QED
      BY <2>1, <3>1, LeastNumber
  <2> HIDE DEF Grown
  <2>3. n # 0
    BY <1>4, <2>2
  <2>4. n - 1 \in 0..N /\ n \in 1..N
    BY <1>1, <2>2, <2>3
  <2>5. n - 1 \notin Bad
    BY <1>1, <2>2, <2>4
  <2> QED
    BY <1>5, <2>2, <2>4, <2>5
<1>7. Grown(N) /\ h[N] \in SUBSET g.tasks
  <2> HIDE DEF Grown
  <2> QED
    BY <1>1, <1>6
<1>8. Cardinality(h[N]) <= N
  BY <1>7, FS_Subset DEF TasksAreClosed
<1> QED
  BY <1>1, <1>2, <1>3, <1>7, <1>8

\* Every closed set that contains S contains its ancestors.
LEMMA AncestorsAreLeast ==
  ASSUME NEW g, TasksAreClosed(g), NEW S \in SUBSET g.tasks,
         NEW X, S \subseteq X, Closed(g, X)
  PROVE  WithAncestors(g, S) \subseteq X
<1> DEFINE N == Cardinality(g.tasks)
           h == TheLevels(g, S)
           Bad == {n \in 0..N : ~(h[n] \subseteq X)}
<1>1. /\ N \in Nat /\ h[0] = S
      /\ \A n \in 1..N : h[n] = Below(g, h[n - 1])
  BY LevelsExist
<1>2. WithAncestors(g, S) = h[N]
  BY AncestorsAreLevels
<1> HIDE DEF h
<1>3. SUFFICES ASSUME Bad # {} PROVE FALSE
  BY <1>1, <1>2
<1>4. PICK n \in Bad : \A m \in Bad : n <= m
  <2>1. Bad \in SUBSET Nat
    BY <1>1
  <2> HIDE DEF Bad
  <2> QED
    BY <1>3, <2>1, LeastNumber
<1>5. n # 0
  BY <1>1, <1>4
<1>6. n - 1 \in 0..N /\ n \in 1..N
  BY <1>1, <1>4, <1>5
<1>7. n - 1 \notin Bad
  BY <1>1, <1>4, <1>6
<1>8. h[n - 1] \subseteq X
  BY <1>6, <1>7
<1> QED
  BY <1>1, <1>4, <1>6, <1>8 DEF Below, Closed

-----------------------------------------------------------------------------
(* Ranks. *)

\* Every nonempty set of tasks has one that no other of the set depends on.
LEMMA SinksExist ==
  ASSUME NEW g, TasksAreClosed(g), Acyclic(g), NEW S \in SUBSET g.tasks, S # {}
  PROVE  \E t \in S : \A c \in S : t \notin g.deps[c]
<1> DEFINE Bad == {T \in FiniteSubsetsOf(g.tasks) :
                     T # {} /\ ~\E t \in T : \A c \in T : t \notin g.deps[c]}
<1>1. SUFFICES ASSUME Bad # {} PROVE FALSE
  <2>1. S \in FiniteSubsetsOf(g.tasks)
    BY FS_Subset DEF FiniteSubsetsOf, TasksAreClosed
  <2> QED
    BY <1>1, <2>1
<1>2. PICK T \in Bad : \A U \in Bad : ~ (U \subseteq T /\ U # T)
  <2>1. Bad \subseteq FiniteSubsetsOf(g.tasks)
    OBVIOUS
  <2> HIDE DEF Bad
  <2> QED
    BY <1>1, <2>1, SmallestSet
<1>3. T \in SUBSET g.tasks /\ IsFiniteSet(T) /\ T # {} /\ ~\E t \in T : \A c \in T : t \notin g.deps[c]
  BY <1>2 DEF FiniteSubsetsOf
<1>4. PICK s \in T : g.deps[s] \cap T = {}
  BY <1>3 DEF Acyclic
<1> DEFINE U == T \ {s}
<1>5. U \in FiniteSubsetsOf(g.tasks) /\ U \subseteq T /\ U # T
  BY <1>3, <1>4, FS_RemoveElement DEF FiniteSubsetsOf
<1>6. U \notin Bad
  BY <1>2, <1>5
<1>7. CASE U = {}
  <2>1. T = {s} /\ s \notin g.deps[s]
    BY <1>4, <1>7
  <2> QED
    BY <1>3, <2>1
<1>8. CASE U # {}
  <2>1. PICK t \in U : \A c \in U : t \notin g.deps[c]
    BY <1>5, <1>6, <1>8
  <2>2. t \notin g.deps[s] /\ t \in T
    BY <1>4, <2>1
  <2> QED
    BY <1>3, <2>1, <2>2
<1> QED
  BY <1>7, <1>8

Ranks(h, g, length, S) ==
  h = [t \in S |-> length[t] + Largest({h[c] : c \in Successors(g, t) \cap S})]

\* UpwardRanks is a function that solves the equation of ranks, if one does.
LEMMA RanksAreChosen ==
  ASSUME NEW g, NEW length, NEW S
  PROVE  UpwardRanks(g, length, S) = CHOOSE h : Ranks(h, g, length, S)
BY DEF UpwardRanks, Ranks

\* The ranks of any set of tasks exist and are integers.
LEMMA RanksExist ==
  ASSUME NEW g, TasksAreClosed(g), Acyclic(g), NEW S \in SUBSET g.tasks,
         NEW length, \A t \in S : length[t] \in Int
  PROVE  /\ UpwardRanks(g, length, S) \in [S -> Int]
         /\ Ranks(UpwardRanks(g, length, S), g, length, S)
<1> DEFINE Good(h, U) == /\ h \in [U -> Int]
                         /\ \A t \in U : h[t] = length[t] + Largest({h[c] : c \in Successors(g, t) \cap S})
           Up(U) == \A t \in U : Successors(g, t) \cap S \subseteq U
           Bad == {U \in FiniteSubsetsOf(S) : Up(U) /\ ~\E h : Good(h, U)}
<1>1. IsFiniteSet(S)
  BY FS_Subset DEF TasksAreClosed
<1>2. Bad = {}
  <2>1. SUFFICES ASSUME Bad # {} PROVE FALSE
    OBVIOUS
  <2>2. PICK U \in Bad : \A W \in Bad : ~ (W \subseteq U /\ W # U)
    <3>1. Bad \subseteq FiniteSubsetsOf(S)
      OBVIOUS
    <3> HIDE DEF Bad
    <3> QED
      BY <2>1, <3>1, SmallestSet
  <2>3. U \in SUBSET S /\ IsFiniteSet(U) /\ Up(U) /\ ~\E h : Good(h, U)
    BY <2>2 DEF FiniteSubsetsOf
  <2>4. U # {}
    <3> SUFFICES ASSUME U = {} PROVE FALSE
      OBVIOUS
    <3>1. Good([x \in {} |-> 0], U)
      OBVIOUS
    <3> QED
      BY <2>3, <3>1
  <2>5. PICK s \in U : g.deps[s] \cap U = {}
    BY <2>3, <2>4 DEF Acyclic
  <2> DEFINE W == U \ {s}
  <2>6. W \in FiniteSubsetsOf(S) /\ W \subseteq U /\ W # U
    BY <2>3, <2>5, FS_RemoveElement DEF FiniteSubsetsOf
  <2>7. Up(W)
    <3> SUFFICES ASSUME NEW t \in W PROVE Successors(g, t) \cap S \subseteq W
      OBVIOUS
    <3>1. s \notin Successors(g, t)
      BY <2>5 DEF Successors
    <3>2. Successors(g, t) \cap S \subseteq U
      BY <2>3
    <3> QED
      BY <3>1, <3>2
  <2>8. PICK f : Good(f, W)
    BY <2>2, <2>6, <2>7
  <2> DEFINE new == length[s] + Largest({f[c] : c \in Successors(g, s) \cap S})
             h == [t \in U |-> IF t = s THEN new ELSE f[t]]
  <2>9. s \notin Successors(g, s)
    BY <2>5 DEF Successors
  <2>10. \A t \in U : Successors(g, t) \cap S \subseteq W
    <3> SUFFICES ASSUME NEW t \in U PROVE Successors(g, t) \cap S \subseteq W
      OBVIOUS
    <3>1. Successors(g, t) \cap S \subseteq U
      BY <2>3
    <3>2. s \notin Successors(g, t)
      BY <2>5 DEF Successors
    <3> QED
      BY <3>1, <3>2
  <2>11. \A c \in W : h[c] = f[c] /\ f[c] \in Int
    BY <2>8
  <2>12. \A t \in U : {h[c] : c \in Successors(g, t) \cap S} = {f[c] : c \in Successors(g, t) \cap S}
    <3> HIDE DEF h, W
    <3> QED
      BY <2>10, <2>11
  <2>13. new \in Int
    <3> DEFINE C == Successors(g, s) \cap S
    <3>1. IsFiniteSet(C) /\ C \subseteq W
      BY <1>1, <2>10, FS_Intersection
    <3>2. IsFiniteSet({f[c] : c \in C})
      <4>1. [c \in C |-> f[c]] \in Surjection(C, {f[c] : c \in C})
        BY DEF Surjection
      <4> QED
        BY <3>1, <4>1, FS_Surjection
    <3>3. {f[c] : c \in C} \in SUBSET Int
      <4> HIDE DEF h, W, C
      <4> QED
        BY <2>11, <3>1
    <3>4. Largest({f[c] : c \in C}) \in Int
      BY <3>2, <3>3, LargestProperties
    <3>5. length[s] \in Int
      BY <2>3
    <3> QED
      BY <3>4, <3>5
  <2>14. h \in [U -> Int]
    <3> HIDE DEF new
    <3>1. \A t \in U : t # s => f[t] \in Int
      BY <2>11
    <3> QED
      BY <2>13, <3>1
  <2>15. ASSUME NEW t \in U PROVE h[t] = length[t] + Largest({h[c] : c \in Successors(g, t) \cap S})
    <3>1. CASE t = s
      <4>1. h[t] = new
        BY <3>1
      <4> HIDE DEF h
      <4> QED
        BY <2>12, <3>1, <4>1
    <3>2. CASE t # s
      <4>1. h[t] = f[t] /\ f[t] = length[t] + Largest({f[c] : c \in Successors(g, t) \cap S})
        BY <2>8, <3>2
      <4> HIDE DEF h
      <4> QED
        BY <2>12, <4>1
    <3> QED
      BY <3>1, <3>2
  <2>16. Good(h, U)
    <3> HIDE DEF h
    <3> QED
      BY <2>14, <2>15
  <2> QED
    BY <2>3, <2>16
<1>3. PICK f : Good(f, S)
  <2>1. S \in FiniteSubsetsOf(S) /\ Up(S)
    BY <1>1 DEF FiniteSubsetsOf
  <2> HIDE DEF Good, Up
  <2> QED
    BY <1>2, <2>1
<1>4. Ranks(f, g, length, S)
  <2>1. f = [t \in S |-> f[t]]
    BY <1>3
  <2> QED
    BY <1>3, <2>1 DEF Ranks
<1> DEFINE r == UpwardRanks(g, length, S)
<1>5. Ranks(r, g, length, S)
  <2>1. r = CHOOSE h : Ranks(h, g, length, S)
    BY RanksAreChosen
  <2> QED
    BY <1>4, <2>1
<1> HIDE DEF r
<1>6. r \in [S -> Int]
  <2>1. DOMAIN r = S /\ r = [t \in S |-> r[t]] /\ \A t \in S : r[t] = length[t] + Largest({r[c] : c \in Successors(g, t) \cap S})
    BY <1>5 DEF Ranks
  <2> DEFINE Wrong == {t \in S : r[t] \notin Int}
  <2>2. SUFFICES ASSUME Wrong # {} PROVE FALSE
    BY <2>1
  <2>3. PICK t \in Wrong : \A c \in Wrong : t \notin g.deps[c]
    <3>1. Wrong \in SUBSET g.tasks
      OBVIOUS
    <3> HIDE DEF Wrong
    <3> QED
      BY <2>2, <3>1, SinksExist
  <2> DEFINE C == Successors(g, t) \cap S
  <2>4. \A c \in C : r[c] \in Int
    BY <2>3 DEF Successors
  <2>5. IsFiniteSet({r[c] : c \in C})
    <3>1. IsFiniteSet(C)
      BY <1>1, FS_Intersection
    <3>2. [c \in C |-> r[c]] \in Surjection(C, {r[c] : c \in C})
      BY DEF Surjection
    <3> QED
      BY <3>1, <3>2, FS_Surjection
  <2>6. Largest({r[c] : c \in C}) \in Int
    <3>1. {r[c] : c \in C} \in SUBSET Int
      BY <2>4
    <3> HIDE DEF C
    <3> QED
      BY <2>5, <3>1, LargestProperties
  <2> QED
    BY <2>1, <2>3, <2>6
<1> QED
  BY <1>5, <1>6 DEF r

-----------------------------------------------------------------------------
(* Tuples of the same length in their lexical order. *)

\* Keys of the same length that differ order a set strictly.
LEMMA LexOrders ==
  ASSUME NEW S, NEW n \in Nat, NEW key,
         \A x \in S : DOMAIN key[x] = 1..n /\ \A i \in 1..n : key[x][i] \in Int,
         \A x, y \in S : x # y => \E i \in 1..n : key[x][i] # key[y][i],
         NEW R, \A x, y \in S : <<x, y>> \in R <=> LexLess(key[x], key[y])
  PROVE  StrictOrder(S, R)
<1> DEFINE Less(x, y, i) == /\ i \in 1..n /\ key[x][i] < key[y][i]
                            /\ \A j \in 1..(i - 1) : key[x][j] = key[y][j]
<1>1. ASSUME NEW x \in S, NEW y \in S PROVE <<x, y>> \in R <=> \E i \in 1..n : Less(x, y, i)
  <2>1. <<x, y>> \in R <=> LexLess(key[x], key[y])
    OBVIOUS
  <2>2. DOMAIN key[x] = 1..n
    OBVIOUS
  <2>3. LexLess(key[x], key[y]) <=> \E i \in DOMAIN key[x] : Less(x, y, i)
    BY <2>2, Zenon DEF LexLess
  <2> QED
    BY <2>1, <2>2, <2>3
<1>2. ASSUME NEW x \in S PROVE <<x, x>> \notin R
  <2>1. \A i \in 1..n : ~Less(x, x, i)
    OBVIOUS
  <2> QED
    BY <1>1, <2>1
<1>3. ASSUME NEW x \in S, NEW y \in S, x # y PROVE <<x, y>> \in R \/ <<y, x>> \in R
  <2> DEFINE D == {i \in 1..n : key[x][i] # key[y][i]}
  <2>1. PICK i \in D : \A j \in D : i <= j
    <3>1. D \in SUBSET Nat /\ D # {}
      BY <1>3
    <3> HIDE DEF D
    <3> QED
      BY <3>1, LeastNumber
  <2>2. \A j \in 1..(i - 1) : key[x][j] = key[y][j]
    <3> SUFFICES ASSUME NEW j \in 1..(i - 1) PROVE key[x][j] = key[y][j]
      OBVIOUS
    <3>1. j \in 1..n /\ ~(i <= j)
      BY <2>1
    <3> QED
      BY <2>1, <3>1
  <2>3. key[x][i] \in Int /\ key[y][i] \in Int /\ i \in 1..n /\ key[x][i] # key[y][i]
    BY <2>1
  <2>4. CASE key[x][i] < key[y][i]
    <3>1. Less(x, y, i)
      BY <2>2, <2>3, <2>4
    <3> QED
      BY <1>1, <2>3, <3>1
  <2>5. CASE key[y][i] < key[x][i]
    <3>1. Less(y, x, i)
      BY <2>2, <2>3, <2>5
    <3> QED
      BY <1>1, <2>3, <3>1
  <2> QED
    BY <2>3, <2>4, <2>5
<1>4. ASSUME NEW x \in S, NEW y \in S, NEW z \in S, <<x, y>> \in R, <<y, z>> \in R
      PROVE  <<x, z>> \in R
  <2>1. PICK i \in 1..n : Less(x, y, i)
    BY <1>1, <1>4
  <2>2. PICK k \in 1..n : Less(y, z, k)
    BY <1>1, <1>4
  <2>3. \A j \in 1..n : key[x][j] \in Int /\ key[y][j] \in Int /\ key[z][j] \in Int
    OBVIOUS
  <2>4. CASE i < k
    <3>1. key[y][i] = key[z][i]
      BY <2>2, <2>4
    <3>2. \A j \in 1..(i - 1) : key[y][j] = key[z][j]
      BY <2>2, <2>4
    <3>3. Less(x, z, i)
      BY <2>1, <3>1, <3>2
    <3> QED
      BY <1>1, <3>3
  <2>5. CASE k < i
    <3>1. key[x][k] = key[y][k]
      BY <2>1, <2>5
    <3>2. \A j \in 1..(k - 1) : key[x][j] = key[y][j]
      BY <2>1, <2>5
    <3>3. Less(x, z, k)
      BY <2>2, <3>1, <3>2
    <3> QED
      BY <1>1, <3>3
  <2>6. CASE i = k
    <3>1. Less(x, z, k)
      BY <2>1, <2>2, <2>3, <2>6
    <3> QED
      BY <1>1, <3>1
  <2> QED
    BY <2>4, <2>5, <2>6
<1> QED
  BY <1>2, <1>3, <1>4 DEF StrictOrder

\* The first of a finite set whose members' keys differ in the last place.
LEMMA FirstByKey ==
  ASSUME NEW S, IsFiniteSet(S), S # {}, NEW n \in Nat \ {0}, NEW key,
         \A x \in S : DOMAIN key[x] = 1..n /\ \A i \in 1..n : key[x][i] \in Int,
         \A x, y \in S : key[x][n] = key[y][n] => x = y
  PROVE  \E x \in S : \A y \in S : x = y \/ LexLess(key[x], key[y])
<1> DEFINE R == {p \in S \X S : LexLess(key[p[1]], key[p[2]])}
<1>1. \A x, y \in S : <<x, y>> \in R <=> LexLess(key[x], key[y])
  OBVIOUS
<1> HIDE DEF R
<1>2. \A x, y \in S : x # y => \E i \in 1..n : key[x][i] # key[y][i]
  OBVIOUS
<1>3. StrictOrder(S, R)
  BY <1>1, <1>2, LexOrders
<1>4. PICK x \in S : \A y \in S : x = y \/ <<x, y>> \in R
  BY <1>3, FirstExists
<1> QED
  BY <1>1, <1>4

-----------------------------------------------------------------------------
(* Sums. *)

\* A sum does not depend on how the summands are named.
LEMMA SumRenamed ==
  ASSUME NEW S, IsFiniteSet(S), NEW T, NEW h, NEW f, NEW g,
         \A x \in S : h[x] \in T /\ f[x] = g[h[x]] /\ f[x] \in Int,
         \A x, y \in S : h[x] = h[y] => x = y,
         \A z \in T : \E x \in S : h[x] = z
  PROVE  IsFiniteSet(T) /\ SumFunctionOnSet(f, S) = SumFunctionOnSet(g, T)
<1> DEFINE Image(U) == {h[x] : x \in U}
           Bad == {U \in FiniteSubsetsOf(S) :
                     ~(IsFiniteSet(Image(U)) /\ SumFunctionOnSet(f, U) = SumFunctionOnSet(g, Image(U)))}
<1>1. SUFFICES Bad = {}
  <2>1. S \in FiniteSubsetsOf(S) /\ Image(S) = T
    BY DEF FiniteSubsetsOf
  <2> QED
    BY <1>1, <2>1
<1>2. SUFFICES ASSUME Bad # {} PROVE FALSE
  OBVIOUS
<1>3. PICK U \in Bad : \A W \in Bad : ~ (W \subseteq U /\ W # U)
  <2>1. Bad \subseteq FiniteSubsetsOf(S)
    OBVIOUS
  <2> HIDE DEF Bad
  <2> QED
    BY <1>2, <2>1, SmallestSet
<1>4. U \in SUBSET S /\ IsFiniteSet(U)
  BY <1>3 DEF FiniteSubsetsOf
<1>5. U # {}
  <2> SUFFICES ASSUME U = {} PROVE FALSE
    OBVIOUS
  <2>1. Image(U) = {}
    OBVIOUS
  <2>2. IsFiniteSet(Image(U)) /\ SumFunctionOnSet(f, U) = 0 /\ SumFunctionOnSet(g, Image(U)) = 0
    BY <2>1, FS_EmptySet, SumEmpty
  <2> QED
    BY <1>3, <2>2
<1>6. PICK s \in U : TRUE
  BY <1>5
<1> DEFINE W == U \ {s}
<1>7. W \in FiniteSubsetsOf(S) /\ W \subseteq U /\ W # U /\ IsFiniteSet(W)
  BY <1>4, FS_RemoveElement DEF FiniteSubsetsOf
<1>8. IsFiniteSet(Image(W)) /\ SumFunctionOnSet(f, W) = SumFunctionOnSet(g, Image(W))
  BY <1>3, <1>7
<1>9. Image(U) = Image(W) \cup {h[s]} /\ h[s] \notin Image(W)
  <2>1. Image(U) = Image(W) \cup {h[s]}
    OBVIOUS
  <2>2. \A x \in W : x \in S /\ x # s
    BY <1>4
  <2>3. h[s] \notin Image(W)
    <3> SUFFICES ASSUME NEW x \in W, h[x] = h[s] PROVE FALSE
      OBVIOUS
    <3>1. x \in S /\ s \in S /\ x # s
      BY <1>4, <1>6, <2>2
    <3> QED
      BY <3>1
  <2> QED
    BY <2>1, <2>3
<1>10. IsFiniteSet(Image(U))
  <2> HIDE DEF Image, W, Bad
  <2>1. IsFiniteSet(Image(W) \cup {h[s]})
    BY <1>8, FS_AddElement
  <2> QED
    BY <1>9, <2>1
<1>11. SumFunctionOnSet(f, U) = f[s] + SumFunctionOnSet(f, W)
  <2>1. \A x \in U : f[x] \in Int
    BY <1>4
  <2> QED
    BY <1>4, <2>1, SumRemove
<1>12. SumFunctionOnSet(g, Image(U)) = g[h[s]] + SumFunctionOnSet(g, Image(W))
  <2>1. \A z \in Image(W) \cup {h[s]} : g[z] \in Int
    BY <1>4
  <2> HIDE DEF Image, W
  <2> QED
    BY <1>8, <1>9, <2>1, SumAdd
<1>13. f[s] = g[h[s]]
  BY <1>4
<1> QED
  BY <1>3, <1>8, <1>10, <1>11, <1>12, <1>13

\* The image of a finite set is finite and not larger.
LEMMA ImageFinite ==
  ASSUME NEW S, IsFiniteSet(S), NEW h
  PROVE  IsFiniteSet({h[x] : x \in S}) /\ Cardinality({h[x] : x \in S}) <= Cardinality(S)
         /\ Cardinality({h[x] : x \in S}) \in Nat /\ Cardinality(S) \in Nat
<1> DEFINE f == [x \in S |-> h[x]]
<1>1. f \in Surjection(S, {h[x] : x \in S})
  BY DEF Surjection
<1>2. IsFiniteSet({h[x] : x \in S}) /\ Cardinality({h[x] : x \in S}) <= Cardinality(S)
  BY <1>1, FS_Surjection
<1> QED
  BY <1>2, FS_CardinalityType

\* One more for each summand is the cardinality more.
LEMMA SumShift ==
  ASSUME NEW S, IsFiniteSet(S), NEW f, NEW g,
         \A x \in S : f[x] \in Int /\ g[x] = f[x] + 1
  PROVE  SumFunctionOnSet(g, S) = SumFunctionOnSet(f, S) + Cardinality(S)
<1> DEFINE Bad == {U \in FiniteSubsetsOf(S) :
                     SumFunctionOnSet(g, U) # SumFunctionOnSet(f, U) + Cardinality(U)}
<1>1. SUFFICES Bad = {}
  BY DEF FiniteSubsetsOf
<1>2. SUFFICES ASSUME Bad # {} PROVE FALSE
  OBVIOUS
<1>3. PICK U \in Bad : \A W \in Bad : ~ (W \subseteq U /\ W # U)
  <2>1. Bad \subseteq FiniteSubsetsOf(S)
    OBVIOUS
  <2> HIDE DEF Bad
  <2> QED
    BY <1>2, <2>1, SmallestSet
<1>4. U \in SUBSET S /\ IsFiniteSet(U)
  BY <1>3 DEF FiniteSubsetsOf
<1>5. U # {}
  <2> SUFFICES ASSUME U = {} PROVE FALSE
    OBVIOUS
  <2>1. SumFunctionOnSet(f, U) = 0 /\ SumFunctionOnSet(g, U) = 0 /\ Cardinality(U) = 0
    BY FS_EmptySet, SumEmpty
  <2> QED
    BY <1>3, <2>1
<1>6. PICK s \in U : TRUE
  BY <1>5
<1> DEFINE W == U \ {s}
<1>7. W \in FiniteSubsetsOf(S) /\ W \subseteq U /\ W # U /\ IsFiniteSet(W) /\ Cardinality(U) = Cardinality(W) + 1
  <2>1. IsFiniteSet(W) /\ Cardinality(W) = Cardinality(U) - 1 /\ Cardinality(U) \in Nat
    BY <1>4, <1>6, FS_RemoveElement, FS_CardinalityType
  <2> QED
    BY <1>4, <1>6, <2>1 DEF FiniteSubsetsOf
<1>8. SumFunctionOnSet(g, W) = SumFunctionOnSet(f, W) + Cardinality(W)
  BY <1>3, <1>7
<1>9. \A x \in U : f[x] \in Int /\ g[x] \in Int /\ g[x] = f[x] + 1
  BY <1>4
<1>10. SumFunctionOnSet(f, U) = f[s] + SumFunctionOnSet(f, W)
  BY <1>4, <1>6, <1>9, SumRemove
<1>11. SumFunctionOnSet(g, U) = g[s] + SumFunctionOnSet(g, W)
  BY <1>4, <1>6, <1>9, SumRemove
<1>12. SumFunctionOnSet(f, W) \in Int /\ Cardinality(W) \in Nat
  BY <1>7, <1>9, SumType, FS_CardinalityType
<1>13. SumFunctionOnSet(g, U) = SumFunctionOnSet(f, U) + Cardinality(U)
  <2> HIDE DEF W, Bad
  <2> QED
    BY <1>6, <1>7, <1>8, <1>9, <1>10, <1>11, <1>12
<1> QED
  BY <1>3, <1>13

\* Adding one to the values of a part adds the size of the part to the sum.
LEMMA SumShiftPart ==
  ASSUME NEW S, IsFiniteSet(S), NEW f, NEW g, NEW R \in SUBSET S,
         \A x \in S : f[x] \in Int /\ g[x] = IF x \in R THEN f[x] + 1 ELSE f[x]
  PROVE  SumFunctionOnSet(g, S) = SumFunctionOnSet(f, S) + Cardinality(R)
<1>1. IsFiniteSet(R) /\ IsFiniteSet(S \ R)
  BY FS_Subset, FS_Difference
<1>2. \A x \in S : f[x] \in Int /\ g[x] \in Int
  OBVIOUS
<1>3. SumFunctionOnSet(f, S) = SumFunctionOnSet(f, R) + SumFunctionOnSet(f, S \ R)
  BY <1>2, SumSplit
<1>4. SumFunctionOnSet(g, S) = SumFunctionOnSet(g, R) + SumFunctionOnSet(g, S \ R)
  BY <1>2, SumSplit
<1>5. SumFunctionOnSet(g, R) = SumFunctionOnSet(f, R) + Cardinality(R)
  <2>1. \A x \in R : f[x] \in Int /\ g[x] = f[x] + 1
    OBVIOUS
  <2> QED
    BY <1>1, <2>1, SumShift
<1>6. SumFunctionOnSet(g, S \ R) = SumFunctionOnSet(f, S \ R)
  <2>1. \A x \in S \ R : g[x] = f[x]
    OBVIOUS
  <2> QED
    BY <1>1, <2>1, SumSame
<1>7. /\ SumFunctionOnSet(f, R) \in Int /\ SumFunctionOnSet(f, S \ R) \in Int /\ Cardinality(R) \in Nat
  <2>1. (\A x \in R : f[x] \in Int) /\ \A x \in S \ R : f[x] \in Int
    BY <1>2
  <2> QED
    BY <1>1, <2>1, SumType, FS_CardinalityType
<1> QED
  BY <1>3, <1>4, <1>5, <1>6, <1>7

-----------------------------------------------------------------------------
(* Intervals. *)

\* At most k intervals at a time within 0..m come to at most k * m.
LEMMA IntervalsFill ==
  ASSUME NEW S, IsFiniteSet(S), NEW from, NEW to, NEW k \in Nat, NEW m \in Nat,
         \A x \in S : from[x] \in Int /\ to[x] \in Int /\ 0 <= from[x] /\ from[x] <= to[x] /\ to[x] <= m,
         \A s \in Nat : Cardinality({x \in S : from[x] <= s /\ s < to[x]}) <= k
  PROVE  SumFunctionOnSet([x \in S |-> to[x] - from[x]], S) <= k * m
<1> DEFINE length == [x \in S |-> to[x] - from[x]]
           Part(n) == [x \in S |-> Least(to[x], n) - Least(from[x], n)]
           Filled(n) == SumFunctionOnSet(Part(n), S)
           Bad == {n \in 0..m : ~(Filled(n) <= k * n)}
<1>1. \A n \in Nat : \A x \in S : Part(n)[x] = Least(to[x], n) - Least(from[x], n) /\ Part(n)[x] \in Int
  BY DEF Least
<1>2. \A n \in Nat : Filled(n) \in Int
  BY <1>1, SumType
<1>3. Filled(0) = 0
  <2>1. \A x \in S : Part(0)[x] = 0
    <3> SUFFICES ASSUME NEW x \in S PROVE Part(0)[x] = 0
      OBVIOUS
    <3>1. Least(to[x], 0) = 0 /\ Least(from[x], 0) = 0
      BY DEF Least
    <3> QED
      BY <3>1
  <2> HIDE DEF Part
  <2> QED
    BY <2>1, SumOfZero
<1>4. ASSUME NEW n \in Nat PROVE Filled(n + 1) <= Filled(n) + k
  <2> DEFINE R == {x \in S : from[x] <= n /\ n < to[x]}
  <2>1. \A x \in S : Part(n)[x] \in Int /\ Part(n + 1)[x] = IF x \in R THEN Part(n)[x] + 1 ELSE Part(n)[x]
    <3> SUFFICES ASSUME NEW x \in S
                 PROVE  Part(n)[x] \in Int /\ Part(n + 1)[x] = IF x \in R THEN Part(n)[x] + 1 ELSE Part(n)[x]
      OBVIOUS
    <3>1. Part(n)[x] = Least(to[x], n) - Least(from[x], n)
      OBVIOUS
    <3>2. Part(n + 1)[x] = Least(to[x], n + 1) - Least(from[x], n + 1)
      OBVIOUS
    <3>3. from[x] \in Int /\ to[x] \in Int /\ from[x] <= to[x]
      OBVIOUS
    <3> QED
      BY <3>1, <3>2, <3>3 DEF Least
  <2>2. Filled(n + 1) = Filled(n) + Cardinality(R)
    <3>1. R \in SUBSET S
      OBVIOUS
    <3> HIDE DEF Part, R
    <3> QED
      BY <2>1, <3>1, SumShiftPart
  <2>3. Cardinality(R) <= k
    OBVIOUS
  <2>4. Cardinality(R) \in Nat
    BY FS_Subset, FS_CardinalityType
  <2> HIDE DEF Filled, R
  <2> QED
    BY <1>2, <2>2, <2>3, <2>4
<1>5. Bad = {}
  <2>1. SUFFICES ASSUME Bad # {} PROVE FALSE
    OBVIOUS
  <2>2. PICK n \in Bad : \A j \in Bad : n <= j
    <3>1. Bad \in SUBSET Nat
      OBVIOUS
    <3> HIDE DEF Bad
    <3> QED
      BY <2>1, <3>1, LeastNumber
  <2> HIDE DEF Filled
  <2>3. n # 0
    BY <1>3, <2>2
  <2>4. n - 1 \in 0..m /\ n - 1 \in Nat /\ n = (n - 1) + 1
    BY <2>2, <2>3
  <2>5. n - 1 \notin Bad
    BY <2>2, <2>4
  <2>6. Filled(n - 1) <= k * (n - 1)
    BY <2>4, <2>5
  <2>7. Filled(n) <= Filled(n - 1) + k
    BY <1>4, <2>4
  <2>8. k * n = k * (n - 1) + k
    BY <2>4
  <2>9. Filled(n) \in Int /\ Filled(n - 1) \in Int /\ k * (n - 1) \in Int
    BY <1>2, <2>4
  <2>10. Filled(n) <= k * n
    BY <2>6, <2>7, <2>8, <2>9
  <2> QED
    BY <2>2, <2>10
<1>6. Filled(m) <= k * m
  <2> HIDE DEF Filled
  <2>1. m \in 0..m /\ m \notin Bad
    BY <1>5
  <2> QED
    BY <2>1
<1>7. Filled(m) = SumFunctionOnSet(length, S)
  <2>1. \A x \in S : Part(m)[x] = length[x]
    <3> SUFFICES ASSUME NEW x \in S PROVE Part(m)[x] = length[x]
      OBVIOUS
    <3>1. Least(to[x], m) = to[x] /\ Least(from[x], m) = from[x]
      BY DEF Least
    <3> QED
      BY <3>1
  <2> HIDE DEF Part, length
  <2> QED
    BY <2>1, SumSame
<1> QED
  BY <1>6, <1>7

\* The ceiling of a quotient.
LEMMA CeilDivBound ==
  ASSUME NEW a \in Int, NEW b \in Nat \ {0}, NEW m \in Int, a <= b * m
  PROVE  CeilDiv(a, b) \in Int /\ CeilDiv(a, b) <= m
<1> DEFINE q == (a + b - 1) \div b
<1>1. q \in Int /\ b * q <= a + b - 1
  OBVIOUS
<1>2. b * q <= b * m + b - 1
  <2>1. b * m \in Int /\ b * q \in Int
    BY <1>1
  <2> QED
    BY <1>1, <2>1
<1>3. q <= m
  <2> SUFFICES ASSUME q >= m + 1 PROVE FALSE
    BY <1>1
  <2> HIDE DEF q
  <2>1. b * (q - m - 1) >= 0
    BY <1>1
  <2>2. b * (q - m - 1) = b * q - b * m - b
    BY <1>1
  <2>3. b * q \in Int /\ b * m \in Int
    BY <1>1
  <2> QED
    BY <1>2, <2>1, <2>2, <2>3
<1> QED
  BY <1>1, <1>3 DEF CeilDiv

-----------------------------------------------------------------------------
(* Plans. *)

GoodPlan(p) ==
  /\ GraphShape(p.graph) /\ ValidGraph(p.graph)
  /\ EnvelopeShape(p.envelope) /\ ValidEnvelope(p.envelope)

\* What a good graph gives the lemmas on graphs.
LEMMA GoodGraphs ==
  ASSUME NEW g, GraphShape(g), ValidGraph(g)
  PROVE  TasksAreClosed(g) /\ Acyclic(g) /\ g.tasks \ g.optional \in SUBSET g.tasks
BY DEF GraphShape, ValidGraph, ValidTask, TasksAreClosed

\* The work that must finish contains the mandatory tasks and all they depend on.
LEMMA MandatoryCloses ==
  ASSUME NEW g, GraphShape(g), ValidGraph(g)
  PROVE  /\ g.tasks \ g.optional \subseteq MustFinish(g)
         /\ MustFinish(g) \subseteq g.tasks
         /\ Closed(g, MustFinish(g))
BY GoodGraphs, AncestorsClose DEF MustFinish

\* The profiles of a task that are good enough, and what is known of each.
LEMMA QualifiedProfiles ==
  ASSUME NEW g, GraphShape(g), ValidGraph(g), NEW t \in g.tasks
  PROVE  /\ IsFiniteSet(Qualified(g, t)) /\ Qualified(g, t) # {}
         /\ Qualified(g, t) \subseteq g.profiles[t]
         /\ \A p \in Qualified(g, t) :
              /\ p.id \in Int /\ p.p95 \in Nat /\ p.quality \in Nat /\ p.risk \in Nat
              /\ p.use \in [Units -> Int] /\ \A u \in Units : p.use[u] \in Nat
              /\ p.quality >= g.minq[t]
         /\ \A p, q \in Qualified(g, t) : p.id = q.id => p = q
<1>1. ValidTask(g, t) /\ IsFiniteSet(g.profiles[t]) /\ \A p \in g.profiles[t] : ProfileShape(p)
  BY DEF GraphShape, ValidGraph
<1>2. Qualified(g, t) \subseteq g.profiles[t] /\ \A p \in Qualified(g, t) : p.quality >= g.minq[t]
  BY DEF Qualified
<1>3. IsFiniteSet(Qualified(g, t))
  BY <1>1, <1>2, FS_Subset
<1>4. Qualified(g, t) # {} /\ \A p, q \in g.profiles[t] : p.id = q.id => p = q
  BY <1>1 DEF ValidTask
<1>5. ASSUME NEW p \in Qualified(g, t)
      PROVE  /\ p.id \in Int /\ p.p95 \in Nat /\ p.quality \in Nat /\ p.risk \in Nat
             /\ p.use \in [Units -> Int] /\ \A u \in Units : p.use[u] \in Nat
  <2>1. ValidProfile(p) /\ ProfileShape(p)
    BY <1>1, <1>2 DEF ValidTask
  <2> QED
    BY <2>1 DEF ValidProfile, ProfileShape
<1> QED
  BY <1>2, <1>3, <1>4, <1>5

\* A key of seven numbers whose last is the profile's id chooses one of the candidates.
LEMMA ChosenIsCandidate ==
  ASSUME NEW g, GraphShape(g), ValidGraph(g), NEW t \in g.tasks,
         NEW C \in SUBSET Qualified(g, t), C # {}
  PROVE  ChooseProfile(C) \in C
<1> DEFINE key == [p \in C |-> ProfileKey(p)]
<1>1. \A p \in C : /\ p.id \in Int /\ p.p95 \in Nat /\ p.quality \in Nat /\ p.risk \in Nat
                   /\ \A u \in Units : p.use[u] \in Nat
  BY QualifiedProfiles
<1>2. ASSUME NEW p \in C PROVE DOMAIN key[p] = 1..7 /\ (\A i \in 1..7 : key[p][i] \in Int) /\ key[p][7] = p.id
  <2>1. key[p] = <<p.use["cost"], p.use["tokens"], p.use["context"], p.risk, -p.quality, p.p95, p.id>>
    BY DEF ProfileKey
  <2>2. "cost" \in Units /\ "tokens" \in Units /\ "context" \in Units
    BY DEF Units
  <2>3. /\ p.use["cost"] \in Int /\ p.use["tokens"] \in Int /\ p.use["context"] \in Int
        /\ p.risk \in Int /\ -p.quality \in Int /\ p.p95 \in Int /\ p.id \in Int
    BY <1>1, <2>2
  <2> QED
    BY <2>1, <2>3
<1>3. \A p, q \in C : key[p][7] = key[q][7] => p = q
  BY <1>2, QualifiedProfiles
<1>4. IsFiniteSet(C)
  BY QualifiedProfiles, FS_Subset
<1> HIDE DEF key
<1>5. PICK p \in C : \A q \in C : p = q \/ LexLess(key[p], key[q])
  <2>1. 7 \in Nat \ {0}
    OBVIOUS
  <2>2. \A p \in C : DOMAIN key[p] = 1..7 /\ \A i \in 1..7 : key[p][i] \in Int
    BY <1>2
  <2>3. IsFiniteSet(C) /\ C # {}
    BY <1>4
  <2> QED
    BY <1>3, <2>1, <2>2, <2>3, FirstByKey
<1>6. \A q \in C : p = q \/ LexLess(ProfileKey(p), ProfileKey(q))
  BY <1>5 DEF key
<1> QED
  BY <1>5, <1>6 DEF ChooseProfile

\* The reference profile of a task (_fastest_qualified) is a qualified one.
LEMMA ReferencesQualify ==
  ASSUME GoodPlan(plan), NEW t \in G.tasks
  PROVE  Reference(t) \in Qualified(G, t) /\ Pinned[t] \in Nat
<1> DEFINE C == Qualified(G, t)
           key == [p \in C |-> <<p.p95, p.use["cost"], p.id>>]
<1>1. GraphShape(G) /\ ValidGraph(G)
  BY DEF GoodPlan, G
<1>2. /\ IsFiniteSet(C) /\ C # {}
      /\ \A p \in C : p.id \in Int /\ p.p95 \in Nat /\ \A u \in Units : p.use[u] \in Nat
      /\ \A p, q \in C : p.id = q.id => p = q
  BY <1>1, QualifiedProfiles
<1>3. ASSUME NEW p \in C PROVE DOMAIN key[p] = 1..3 /\ (\A i \in 1..3 : key[p][i] \in Int) /\ key[p][3] = p.id
  <2>1. p.use["cost"] \in Int /\ p.p95 \in Int /\ p.id \in Int
    BY <1>2 DEF Units
  <2> QED
    BY <2>1
<1>4. \A p, q \in C : key[p][3] = key[q][3] => p = q
  BY <1>2, <1>3
<1> HIDE DEF key
<1>5. PICK p \in C : \A q \in C : p = q \/ LexLess(key[p], key[q])
  <2>1. 3 \in Nat \ {0}
    OBVIOUS
  <2>2. \A x \in C : DOMAIN key[x] = 1..3 /\ \A i \in 1..3 : key[x][i] \in Int
    BY <1>3
  <2>3. IsFiniteSet(C) /\ C # {}
    BY <1>2
  <2> QED
    BY <1>4, <2>1, <2>2, <2>3, FirstByKey
<1>6. \A q \in C : p = q \/ LexLess(<<p.p95, p.use["cost"], p.id>>, <<q.p95, q.use["cost"], q.id>>)
  BY <1>5 DEF key
<1>7. Reference(t) \in C
  BY <1>5, <1>6 DEF Reference
<1> QED
  BY <1>2, <1>7 DEF Pinned

\* Ranks and urgencies are numbers, so that the keys of _sort_ready compare.
LEMMA RanksAreInts ==
  ASSUME GoodPlan(plan), NEW t \in G.tasks
  PROVE  Rank(t) \in Int /\ (time \in Int => Urgency(t) \in Int)
<1>1. GraphShape(G) /\ ValidGraph(G) /\ EnvelopeShape(E)
  BY DEF GoodPlan, G, E
<1>2. Protected \in SUBSET G.tasks
  BY <1>1, MandatoryCloses DEF MustFinish, Protected
<1>3. \A c \in G.tasks : Pinned[c] \in Int
  BY ReferencesQualify
<1>4. TasksAreClosed(G) /\ Acyclic(G) /\ G.tasks \in SUBSET G.tasks
  BY <1>1, GoodGraphs
<1>5. UpwardRanks(G, Pinned, Protected) \in [Protected -> Int]
  BY <1>2, <1>3, <1>4, RanksExist
<1>6. UpwardRanks(G, Pinned, G.tasks) \in [G.tasks -> Int]
  BY <1>3, <1>4, RanksExist
<1>7. Rank(t) \in Int
  BY <1>5, <1>6 DEF Rank
<1>8. DueBy(G, E, t) \in Int /\ E.deadline \in Int
  BY <1>1 DEF DueBy, Least, GraphShape, EnvelopeShape
<1> QED
  BY <1>3, <1>7, <1>8 DEF Urgency, Least

\* The pass opened lists every ready task once.
LEMMA PassListsReady ==
  ASSUME GoodPlan(plan), time \in Int
  PROVE  Enumerates(SortReady, Ready)
<1> DEFINE key == [t \in Ready |-> SortKey(t)]
           R == {p \in Ready \X Ready : LexLess(SortKey(p[1]), SortKey(p[2]))}
           n == IF plan.policy = "adaptive" THEN 5 ELSE 1
<1>1. GraphShape(G)
  BY DEF GoodPlan, G
<1>2. IsFiniteSet(Ready) /\ Ready \subseteq G.tasks
  <2>1. Ready \subseteq G.tasks
    BY DEF Ready
  <2> QED
    BY <1>1, <2>1, FS_Subset DEF GraphShape
<1>3. ASSUME NEW t \in Ready
      PROVE  DOMAIN key[t] = 1..n /\ (\A i \in 1..n : key[t][i] \in Int) /\ key[t][n] = t
  <2>1. t \in Int /\ G.value[t] \in Int /\ Urgency(t) \in Int /\ Rank(t) \in Int
    BY <1>1, <1>2, RanksAreInts DEF GraphShape
  <2>2. CASE plan.policy = "adaptive"
    <3>1. key[t] = <<IF t \in Protected THEN 0 ELSE 1, Urgency(t), -Rank(t), -G.value[t], t>> /\ n = 5
      BY <2>2 DEF SortKey
    <3> HIDE DEF key, n
    <3>2. (IF t \in Protected THEN 0 ELSE 1) \in Int /\ -Rank(t) \in Int /\ -G.value[t] \in Int
      BY <2>1
    <3> QED
      BY <2>1, <3>1, <3>2
  <2>3. CASE plan.policy # "adaptive"
    <3>1. key[t] = <<t>> /\ n = 1
      BY <2>3 DEF SortKey
    <3> HIDE DEF key, n
    <3> QED
      BY <2>1, <3>1
  <2> QED
    BY <2>2, <2>3
<1>4. n \in Nat \ {0}
  OBVIOUS
<1>5. \A x, y \in Ready : <<x, y>> \in R <=> LexLess(key[x], key[y])
  OBVIOUS
<1>6. SortReady = Listed(Ready, R)
  BY DEF SortReady
<1> HIDE DEF key, R, n
<1>7. \A x, y \in Ready : x # y => \E i \in 1..n : key[x][i] # key[y][i]
  <2> SUFFICES ASSUME NEW x \in Ready, NEW y \in Ready, x # y PROVE \E i \in 1..n : key[x][i] # key[y][i]
    OBVIOUS
  <2>1. key[x][n] # key[y][n] /\ n \in 1..n
    BY <1>3, <1>4
  <2> QED
    BY <2>1
<1>8. StrictOrder(Ready, R)
  <2>1. \A x \in Ready : DOMAIN key[x] = 1..n /\ \A i \in 1..n : key[x][i] \in Int
    BY <1>3
  <2> QED
    BY <1>4, <1>5, <1>7, <2>1, LexOrders
<1> QED
  BY <1>2, <1>6, <1>8, ListedEnumerates

-----------------------------------------------------------------------------
(* What is said of a joint plan, and what the frontier finds. *)

Paid(g, tasks, s, room) ==
  \E f \in JointPlans(g, tasks) :
    s.use = UseOf(f, tasks) /\ s.risk = RiskOf(f, tasks) /\ Within(s.use, room)

Demands == [use : [Units -> Int], risk : Int]

\* The joint plan f of A goes on to t with the profile p.
GoesOn(g, A, t, f, p) ==
  \E h \in JointPlans(g, A \cup {t}) :
    /\ UseOf(h, A \cup {t}) = Plus(UseOf(f, A), p.use)
    /\ RiskOf(h, A \cup {t}) = RiskOf(f, A) + p.risk

\* One more task in a joint plan.
LEMMA JointPlanGrows ==
  ASSUME NEW g, GraphShape(g), ValidGraph(g), NEW A \in SUBSET g.tasks, NEW t \in g.tasks \ A,
         NEW f \in JointPlans(g, A), NEW p \in Qualified(g, t)
  PROVE  GoesOn(g, A, t, f, p)
<1> DEFINE B == A \cup {t}
           h == [c \in B |-> IF c = t THEN p ELSE f[c]]
<1>1. /\ \A c \in A : f[c] \in Qualified(g, c)
  BY DEF JointPlans
<1>2. h \in JointPlans(g, B)
  <2>1. \A c \in B : h[c] \in Qualified(g, c)
    BY <1>1
  <2>2. h \in [B -> UNION {Qualified(g, c) : c \in B}]
    BY <2>1
  <2> HIDE DEF h
  <2> QED
    BY <2>1, <2>2 DEF JointPlans
<1>3. IsFiniteSet(A) /\ t \notin A
  BY FS_Subset DEF GraphShape
<1>4. (\A c \in A : h[c] = f[c]) /\ h[t] = p
  OBVIOUS
<1>5. \A c \in B : h[c] \in Qualified(g, c)
  BY <1>1
<1>6. \A c \in B : h[c].risk \in Int /\ \A u \in Units : h[c].use[u] \in Int
  <2> HIDE DEF h
  <2> QED
    BY <1>5, QualifiedProfiles
<1> HIDE DEF h
<1>7. RiskOf(h, B) = RiskOf(f, A) + p.risk
  <2> DEFINE r == [c \in B |-> h[c].risk]
             q == [c \in A |-> f[c].risk]
  <2>1. SumFunctionOnSet(r, B) = r[t] + SumFunctionOnSet(r, A)
    <3>1. \A c \in A \cup {t} : r[c] \in Int
      BY <1>6
    <3> HIDE DEF r
    <3> QED
      BY <1>3, <3>1, SumAdd
  <2>2. SumFunctionOnSet(r, A) = SumFunctionOnSet(q, A)
    <3>1. \A c \in A : r[c] = q[c]
      BY <1>4
    <3> HIDE DEF r, q
    <3> QED
      BY <1>3, <3>1, SumSame
  <2>3. r[t] = p.risk /\ r[t] \in Int
    BY <1>4, <1>6
  <2>4. SumFunctionOnSet(r, A) \in Int
    <3>1. \A c \in A : r[c] \in Int
      BY <1>6
    <3> HIDE DEF r
    <3> QED
      BY <1>3, <3>1, SumType
  <2>5. RiskOf(h, B) = SumFunctionOnSet(r, B) /\ RiskOf(f, A) = SumFunctionOnSet(q, A)
    BY DEF RiskOf, SumOver
  <2> HIDE DEF r, q
  <2> QED
    BY <2>1, <2>2, <2>3, <2>4, <2>5
<1>8. ASSUME NEW u \in Units PROVE UseOf(h, B)[u] = UseOf(f, A)[u] + p.use[u]
  <2> DEFINE r == [c \in B |-> h[c].use[u]]
             q == [c \in A |-> f[c].use[u]]
  <2>1. SumFunctionOnSet(r, B) = r[t] + SumFunctionOnSet(r, A)
    <3>1. \A c \in A \cup {t} : r[c] \in Int
      BY <1>6
    <3> HIDE DEF r
    <3> QED
      BY <1>3, <3>1, SumAdd
  <2>2. SumFunctionOnSet(r, A) = SumFunctionOnSet(q, A)
    <3>1. \A c \in A : r[c] = q[c]
      BY <1>4
    <3> HIDE DEF r, q
    <3> QED
      BY <1>3, <3>1, SumSame
  <2>3. r[t] = p.use[u] /\ r[t] \in Int
    BY <1>4, <1>6
  <2>4. SumFunctionOnSet(r, A) \in Int
    <3>1. \A c \in A : r[c] \in Int
      BY <1>6
    <3> HIDE DEF r
    <3> QED
      BY <1>3, <3>1, SumType
  <2>5. UseOf(h, B)[u] = SumFunctionOnSet(r, B) /\ UseOf(f, A)[u] = SumFunctionOnSet(q, A)
    BY DEF UseOf, SumOver
  <2> HIDE DEF r, q
  <2> QED
    BY <2>1, <2>2, <2>3, <2>4, <2>5
<1>9. UseOf(h, B) = Plus(UseOf(f, A), p.use)
  <2>1. \A u \in Units : UseOf(h, B)[u] = Plus(UseOf(f, A), p.use)[u]
    BY <1>8 DEF Plus
  <2>2. /\ UseOf(h, B) = [u \in Units |-> UseOf(h, B)[u]]
        /\ Plus(UseOf(f, A), p.use) = [u \in Units |-> Plus(UseOf(f, A), p.use)[u]]
    BY DEF UseOf, Plus
  <2> QED
    BY <2>1, <2>2
<1> QED
  BY <1>2, <1>7, <1>9 DEF GoesOn

\* The joint plan of no tasks demands nothing.
LEMMA NothingIsFree ==
  ASSUME NEW g
  PROVE  \E f \in JointPlans(g, {}) : UseOf(f, {}) = Zero /\ RiskOf(f, {}) = 0
<1> DEFINE f == [x \in {} |-> 0]
<1>1. f \in JointPlans(g, {})
  BY DEF JointPlans
<1>2. UseOf(f, {}) = Zero
  <2>1. \A u \in Units : SumOver({}, [t \in {} |-> f[t].use[u]]) = 0
    BY SumEmpty DEF SumOver
  <2> QED
    BY <2>1 DEF UseOf, Zero
<1>3. RiskOf(f, {}) = 0
  BY SumEmpty DEF RiskOf, SumOver
<1> QED
  BY <1>1, <1>2, <1>3

\* The demands S found so far with one more task t.
Added(S, t, room) ==
  ParetoMinimal({s \in {[use |-> Plus(s.use, p.use), risk |-> s.risk + p.risk]
                        : s \in S, p \in {q \in Qualified(G, t) : time + q.p95 <= DueBy(G, E, t)}}
                 : Within(s.use, room)})

Frontiers(h, tasks, room) ==
  h = [n \in 0..Cardinality(tasks) |->
         IF n = 0 THEN {[use |-> Zero, risk |-> 0]}
         ELSE Added(h[n - 1], Listed(tasks, Increasing(tasks))[n], room)]

\* Frontier is the last of its sets of joint demands.
LEMMA FrontierIsLast ==
  ASSUME NEW tasks, NEW room
  PROVE  Frontier(tasks, room) = (CHOOSE h : Frontiers(h, tasks, room))[Cardinality(tasks)]
BY DEF Frontier, Frontiers, Added

\* A joint demand that is added is an earlier one with a profile of the task.
LEMMA AddedDemands ==
  ASSUME GoodPlan(plan), NEW t \in G.tasks, NEW S \in SUBSET Demands, NEW room,
         NEW s \in Added(S, t, room)
  PROVE  /\ s \in Demands /\ Within(s.use, room)
         /\ \E v \in S, p \in Qualified(G, t) : s.use = Plus(v.use, p.use) /\ s.risk = v.risk + p.risk
<1>1. Within(s.use, room)
  BY DEF Added, ParetoMinimal
<1>2. PICK v \in S, p \in Qualified(G, t) : s = [use |-> Plus(v.use, p.use), risk |-> v.risk + p.risk]
  BY DEF Added, ParetoMinimal
<1>3. GraphShape(G) /\ ValidGraph(G)
  BY DEF GoodPlan, G
<1>4. p.risk \in Int /\ p.use \in [Units -> Int] /\ v.risk \in Int /\ v.use \in [Units -> Int]
  BY <1>3, QualifiedProfiles DEF Demands
<1>5. Plus(v.use, p.use) \in [Units -> Int] /\ v.risk + p.risk \in Int
  BY <1>4 DEF Plus
<1> QED
  BY <1>1, <1>2, <1>5 DEF Demands

\* Every member of the frontier is what a choice of profiles comes to, and fits the room.
LEMMA FrontierIsPayable ==
  ASSUME GoodPlan(plan), NEW tasks \in SUBSET G.tasks, NEW room, Within(Zero, room),
         NEW s \in Frontier(tasks, room)
  PROVE  Paid(G, tasks, s, room)
<1> DEFINE N == Cardinality(tasks)
           o == Listed(tasks, Increasing(tasks))
           V == SUBSET Demands
           base == {[use |-> Zero, risk |-> 0]}
           Step == [n \in Nat |-> [X \in V |-> IF n \in 1..N THEN Added(X, o[n], room) ELSE X]]
           h == CHOOSE h : Frontiers(h, tasks, room)
           A(n) == {o[i] : i \in 1..n}
           Sound(n) == h[n] \in V /\ \A v \in h[n] : Paid(G, A(n), v, room)
<1>1. GraphShape(G) /\ ValidGraph(G)
  BY DEF GoodPlan, G
<1>2. IsFiniteSet(tasks) /\ N \in Nat
  BY <1>1, FS_Subset, FS_CardinalityType DEF GraphShape
<1>3. Enumerates(o, tasks)
  <2>1. \A x \in tasks : x \in Int
    BY <1>1 DEF GraphShape
  <2>2. StrictOrder(tasks, Increasing(tasks))
    BY <2>1, IncreasingOrders
  <2> QED
    BY <1>2, <2>2, ListedEnumerates
<1>4. \A i \in 1..N : o[i] \in tasks /\ o[i] \in G.tasks
  BY <1>2, <1>3 DEF Enumerates
<1>5. base \in V
  BY DEF Demands, Zero
<1>6. Step \in [Nat -> [V -> V]]
  <2>1. ASSUME NEW n \in Nat, NEW X \in V PROVE (IF n \in 1..N THEN Added(X, o[n], room) ELSE X) \in V
    <3>1. CASE n \in 1..N
      <4>1. \A v \in Added(X, o[n], room) : v \in Demands
        <5> HIDE DEF o, N
        <5> QED
          BY <1>4, <3>1, AddedDemands
      <4> QED
        BY <3>1, <4>1
    <3>2. CASE n \notin 1..N
      BY <3>2
    <3> QED
      BY <3>1, <3>2
  <2> HIDE DEF V, o, N
  <2> QED
    BY <2>1
<1>7. Frontiers(h, tasks, room)
  <2>1. PICK f \in [0..N -> V] : Iterates(f, base, Step, N)
    <3> HIDE DEF base, Step, V, N
    <3> QED
      BY <1>2, <1>5, <1>6, IterationExists
  <2>2. ASSUME NEW n \in 0..N, n # 0 PROVE Step[n][f[n - 1]] = Added(f[n - 1], o[n], room)
    <3>1. n \in 1..N /\ n \in Nat /\ n - 1 \in 0..N
      BY <1>2, <2>2
    <3>2. f[n - 1] \in V
      BY <2>1, <3>1
    <3> HIDE DEF V, o, N
    <3> QED
      BY <3>1, <3>2
  <2>3. f = [n \in 0..N |-> IF n = 0 THEN base ELSE Step[n][f[n - 1]]]
    BY <2>1 DEF Iterates
  <2>4. f = [n \in 0..N |-> IF n = 0 THEN base ELSE Added(f[n - 1], o[n], room)]
    <3> HIDE DEF Step, base, o, N, V
    <3> QED
      BY <2>2, <2>3
  <2>5. Frontiers(f, tasks, room)
    BY <2>4 DEF Frontiers
  <2> QED
    BY <2>5
<1>8. h[0] = base /\ \A n \in 1..N : h[n] = Added(h[n - 1], o[n], room)
  <2> HIDE DEF h
  <2>1. h = [n \in 0..N |-> IF n = 0 THEN base ELSE Added(h[n - 1], o[n], room)]
    BY <1>7 DEF Frontiers
  <2> HIDE DEF N, o, base
  <2>2. h[0] = base
    BY <1>2, <2>1
  <2>3. ASSUME NEW n \in 1..N PROVE h[n] = Added(h[n - 1], o[n], room)
    BY <1>2, <2>1
  <2> QED
    BY <2>2, <2>3
<1>9. Frontier(tasks, room) = h[N]
  BY FrontierIsLast
<1> HIDE DEF h, Step
<1>10. Sound(0)
  <2>1. A(0) = {}
    OBVIOUS
  <2>2. PICK f \in JointPlans(G, {}) : UseOf(f, {}) = Zero /\ RiskOf(f, {}) = 0
    BY NothingIsFree
  <2>3. ASSUME NEW v \in base PROVE Paid(G, {}, v, room)
    <3>1. v.use = Zero /\ v.risk = 0
      OBVIOUS
    <3> QED
      BY <2>2, <3>1 DEF Paid
  <2> HIDE DEF base, V, A
  <2> QED
    BY <1>5, <1>8, <2>1, <2>3
<1>11. ASSUME NEW n \in 1..N, Sound(n - 1) PROVE Sound(n)
  <2> DEFINE t == o[n]
  <2>1. t \in G.tasks /\ h[n] = Added(h[n - 1], t, room) /\ h[n - 1] \in V
    BY <1>4, <1>8, <1>11
  <2>2. A(n) = A(n - 1) \cup {t} /\ t \notin A(n - 1) /\ A(n - 1) \in SUBSET G.tasks
    <3>1. 1..n = (1..(n - 1)) \cup {n} /\ n \notin 1..(n - 1) /\ \A i \in 1..(n - 1) : i \in 1..N
      BY <1>2
    <3>2. A(n) = A(n - 1) \cup {t}
      BY <3>1
    <3>3. \A i \in 1..(n - 1) : o[i] # o[n]
      <4>1. \A i, j \in 1..N : o[i] = o[j] => i = j
        BY <1>3 DEF Enumerates
      <4> HIDE DEF o, N
      <4> QED
        BY <1>2, <3>1, <4>1
    <3> HIDE DEF o, N
    <3> QED
      BY <1>4, <3>1, <3>2, <3>3
  <2> HIDE DEF A
  <2>3. ASSUME NEW w \in h[n] PROVE w \in Demands /\ Paid(G, A(n), w, room)
    <3>1. /\ w \in Demands /\ Within(w.use, room)
          /\ \E v \in h[n - 1], p \in Qualified(G, t) : w.use = Plus(v.use, p.use) /\ w.risk = v.risk + p.risk
      <4> HIDE DEF t
      <4> QED
        BY <2>1, AddedDemands
    <3>2. PICK v \in h[n - 1], p \in Qualified(G, t) : w.use = Plus(v.use, p.use) /\ w.risk = v.risk + p.risk
      BY <3>1
    <3>3. PICK f \in JointPlans(G, A(n - 1)) : v.use = UseOf(f, A(n - 1)) /\ v.risk = RiskOf(f, A(n - 1))
      <4>1. Paid(G, A(n - 1), v, room)
        BY <1>11
      <4> QED
        BY <4>1 DEF Paid
    <3>4. \E f2 \in JointPlans(G, A(n)) :
            /\ UseOf(f2, A(n)) = Plus(UseOf(f, A(n - 1)), p.use)
            /\ RiskOf(f2, A(n)) = RiskOf(f, A(n - 1)) + p.risk
      <4> HIDE DEF t
      <4>1. t \in G.tasks \ A(n - 1)
        BY <2>1, <2>2
      <4>2. GoesOn(G, A(n - 1), t, f, p)
        BY <1>1, <2>2, <4>1, JointPlanGrows
      <4> QED
        BY <2>2, <4>2 DEF GoesOn
    <3> QED
      BY <3>1, <3>2, <3>3, <3>4 DEF Paid
  <2> QED
    BY <2>3
<1>12. \A n \in 0..N : Sound(n)
  <2> DEFINE Bad == {n \in 0..N : ~Sound(n)}
  <2>1. SUFFICES ASSUME Bad # {} PROVE FALSE
    OBVIOUS
  <2>2. PICK n \in Bad : \A m \in Bad : n <= m
    <3>1. Bad \in SUBSET Nat
      BY <1>2
    <3> HIDE DEF Bad
    <3> QED
      BY <2>1, <3>1, LeastNumber
  <2> HIDE DEF Sound, N
  <2>3. n # 0
    BY <1>10, <2>2
  <2>4. n - 1 \in 0..N /\ n \in 1..N
    BY <1>2, <2>2, <2>3
  <2>5. n - 1 \notin Bad
    BY <1>2, <2>2, <2>4
  <2> QED
    BY <1>11, <2>2, <2>4, <2>5
<1>13. A(N) = tasks
  <2>1. \A x \in tasks : \E i \in 1..N : o[i] = x
    BY <1>3 DEF Enumerates
  <2> HIDE DEF o, N
  <2> QED
    BY <1>4, <2>1
<1>14. Sound(N)
  <2> HIDE DEF Sound
  <2> QED
    BY <1>2, <1>12
<1> QED
  BY <1>9, <1>13, <1>14

\* A profile is chosen only when the rest of the mandatory work can still be paid for.
LEMMA ChoiceLeavesRoom ==
  ASSUME GoodPlan(plan), used \in [Units -> Int], risk \in Int,
         NEW t \in G.tasks, NEW p \in Feasible(t)
  PROVE  /\ p \in Qualified(G, t) /\ Within(Plus(used, p.use), E.caps)
         /\ time + p.p95 <= DueBy(G, E, t)
         /\ risk + p.risk <= E.risk
         /\ \E f \in JointPlans(G, Protected \ (Started \cup {t})) :
              /\ Within(Plus(Plus(used, p.use), UseOf(f, Protected \ (Started \cup {t}))), E.caps)
              /\ risk + p.risk + RiskOf(f, Protected \ (Started \cup {t})) <= E.risk
<1> DEFINE left == Protected \ (Started \cup {t})
           room == Minus(E.caps, Plus(used, p.use))
<1>1. /\ p \in Qualified(G, t) /\ Within(Plus(used, p.use), E.caps)
      /\ time + p.p95 <= DueBy(G, E, t)
      /\ FuturePlanFits(left, room, E.risk - risk - p.risk)
  BY DEF Feasible, RemainingProtected
<1>2. GraphShape(G) /\ ValidGraph(G) /\ EnvelopeShape(E)
  BY DEF GoodPlan, G, E
<1>3. p.use \in [Units -> Int] /\ p.risk \in Int /\ E.caps \in [Units -> Int] /\ E.risk \in Int
  BY <1>1, <1>2, QualifiedProfiles DEF EnvelopeShape
<1>4. left \in SUBSET G.tasks
  BY <1>2, MandatoryCloses DEF MustFinish, Protected
<1>5. PICK s \in Frontier(left, room) : s.risk <= E.risk - risk - p.risk
  BY <1>1 DEF FuturePlanFits
<1>6. Within(Zero, room) /\ E.risk - risk - p.risk >= 0
  BY <1>1 DEF FuturePlanFits
<1>7. Paid(G, left, s, room)
  <2> HIDE DEF left, room
  <2> QED
    BY <1>4, <1>5, <1>6, FrontierIsPayable
<1>8. PICK f \in JointPlans(G, left) : s.use = UseOf(f, left) /\ s.risk = RiskOf(f, left) /\ Within(s.use, room)
  BY <1>7 DEF Paid
<1>9. \A c \in left : f[c] \in Qualified(G, c) /\ f[c].risk \in Int /\ \A u \in Units : f[c].use[u] \in Int
  BY <1>2, <1>4, <1>8, QualifiedProfiles DEF JointPlans
<1>10. IsFiniteSet(left)
  BY <1>2, <1>4, FS_Subset DEF GraphShape
<1> HIDE DEF left
<1>11. RiskOf(f, left) \in Int
  BY <1>9, <1>10, SumType DEF RiskOf, SumOver
<1>12. ASSUME NEW u \in Units PROVE UseOf(f, left)[u] \in Int
  <2> DEFINE r == [c \in left |-> f[c].use[u]]
  <2>1. \A c \in left : r[c] \in Int
    BY <1>9
  <2>2. UseOf(f, left)[u] = SumFunctionOnSet(r, left)
    BY DEF UseOf, SumOver
  <2> HIDE DEF r
  <2> QED
    BY <1>10, <2>1, <2>2, SumType
<1>13. risk + p.risk + RiskOf(f, left) <= E.risk /\ risk + p.risk <= E.risk
  BY <1>3, <1>5, <1>6, <1>8, <1>11
<1>14. Within(Plus(Plus(used, p.use), UseOf(f, left)), E.caps)
  <2> SUFFICES ASSUME NEW u \in Units
               PROVE  Plus(Plus(used, p.use), UseOf(f, left))[u] <= E.caps[u]
    BY DEF Within
  <2>1. UseOf(f, left)[u] <= room[u]
    BY <1>8 DEF Within
  <2>2. room[u] = E.caps[u] - (used[u] + p.use[u])
    BY DEF Minus, Plus
  <2>3. Plus(Plus(used, p.use), UseOf(f, left))[u] = (used[u] + p.use[u]) + UseOf(f, left)[u]
    BY DEF Plus
  <2>4. E.caps[u] \in Int /\ used[u] \in Int /\ p.use[u] \in Int
    BY <1>3
  <2> HIDE DEF room
  <2> QED
    BY <1>12, <2>1, <2>2, <2>3, <2>4
<1> QED
  BY <1>1, <1>8, <1>13, <1>14 DEF left

-----------------------------------------------------------------------------
(* The log. *)

Happenings(g) == [time : Nat, type : TaskEvents, task : g.tasks]
                 \cup [time : Nat, type : RunEvents, task : {NoTask}]

\* Where the log l says this of a task, and of the run.
Told(l, t, type) == {i \in DOMAIN l : l[i].task = t /\ l[i].type = type}
ToldOfRun(l, type) == {i \in DOMAIN l : l[i].type = type}

\* One event of the same type for each member of o.
Batch(o, x, type) == [i \in DOMAIN o |-> [time |-> x, type |-> type, task |-> o[i]]]

Distinct(o) == \A i, j \in DOMAIN o : o[i] = o[j] => i = j

\* l, and after it an event of this type for each member of T.
Extends(l, m, T, x, type) ==
  /\ DOMAIN l \subseteq DOMAIN m /\ \A i \in DOMAIN l : m[i] = l[i]
  /\ \A t, y : ~(t \in T /\ y = type) => Told(m, t, y) = Told(l, t, y)
  /\ \A t \in T : \E k \in DOMAIN m : /\ k > Len(l) /\ m[k] = [time |-> x, type |-> type, task |-> t]
                                      /\ Told(m, t, type) = Told(l, t, type) \cup {k}

\* The places of two sequences that are joined.
LEMMA JoinedPlaces ==
  ASSUME NEW W, NEW l \in Seq(W), NEW b \in Seq(W)
  PROVE  /\ Len(l \o b) = Len(l) + Len(b) /\ Len(l) \in Nat /\ Len(b) \in Nat
         /\ DOMAIN (l \o b) = 1..(Len(l) + Len(b))
         /\ \A i \in 1..(Len(l) + Len(b)) : (l \o b)[i] = IF i <= Len(l) THEN l[i] ELSE b[i - Len(l)]
<1> DEFINE m == l \o b
<1>1. m \in Seq(W) /\ Len(m) = Len(l) + Len(b) /\ Len(l) \in Nat /\ Len(b) \in Nat
  OBVIOUS
<1>2. DOMAIN m = 1..Len(m)
  BY <1>1
<1>3. \A i \in 1..(Len(l) + Len(b)) : m[i] = IF i <= Len(l) THEN l[i] ELSE b[i - Len(l)]
  BY <1>1
<1> QED
  BY <1>1, <1>2, <1>3

\* A batch of events for distinct tasks adds one event of its type for each.
LEMMA BatchExtends ==
  ASSUME NEW V, NEW l \in Seq(V), NEW T, NEW o \in Seq(T), Distinct(o), NEW x, NEW type,
         \A t \in T : \E i \in DOMAIN o : o[i] = t
  PROVE  /\ Len(l \o Batch(o, x, type)) = Len(l) + Len(o)
         /\ Extends(l, l \o Batch(o, x, type), T, x, type)
<1> DEFINE b == Batch(o, x, type)
           m == l \o b
           ev(t) == [time |-> x, type |-> type, task |-> t]
           N == Len(l)
<1>1. Len(l) \in Nat /\ DOMAIN l = 1..N /\ Len(o) \in Nat /\ DOMAIN o = 1..Len(o)
  OBVIOUS
<1>2. b \in Seq({ev(t) : t \in T}) /\ Len(b) = Len(o) /\ DOMAIN b = 1..Len(o)
  <2>1. b = [i \in 1..Len(o) |-> ev(o[i])]
    BY <1>1 DEF Batch
  <2>2. \A i \in 1..Len(o) : ev(o[i]) \in {ev(t) : t \in T}
    BY <1>1
  <2> DEFINE W == {ev(t) : t \in T}
  <2> HIDE DEF b, ev, W
  <2>3. b \in [1..Len(o) -> W]
    BY <2>1, <2>2 DEF W
  <2>4. b \in Seq(W) /\ Len(b) = Len(o) /\ DOMAIN b = 1..Len(o)
    BY <1>1, <2>1, <2>3
  <2> QED
    BY <2>4 DEF W
<1>3. \A i \in 1..Len(o) : b[i] = ev(o[i])
  BY <1>1 DEF Batch
<1> HIDE DEF b
<1>4. /\ Len(m) = N + Len(o) /\ DOMAIN m = 1..(N + Len(o))
      /\ \A i \in 1..(N + Len(o)) : m[i] = IF i <= N THEN l[i] ELSE b[i - N]
  <2> DEFINE W == V \cup {ev(t) : t \in T}
  <2>1. l \in Seq(W) /\ b \in Seq(W)
    BY <1>1, <1>2
  <2> HIDE DEF W, ev
  <2>2. /\ Len(l \o b) = Len(l) + Len(b) /\ DOMAIN (l \o b) = 1..(Len(l) + Len(b))
        /\ \A i \in 1..(Len(l) + Len(b)) : (l \o b)[i] = IF i <= Len(l) THEN l[i] ELSE b[i - Len(l)]
    BY <2>1, JoinedPlaces
  <2> QED
    BY <1>2, <2>2
<1> HIDE DEF m
<1>5. DOMAIN l \subseteq DOMAIN m /\ \A i \in DOMAIN l : m[i] = l[i]
  BY <1>1, <1>4
<1>6. ASSUME NEW i \in DOMAIN m, i > N PROVE i - N \in 1..Len(o) /\ o[i - N] \in T /\ m[i] = ev(o[i - N])
  <2>1. i - N \in 1..Len(o) /\ m[i] = b[i - N]
    BY <1>1, <1>4, <1>6
  <2> QED
    BY <1>1, <1>3, <2>1
<1> HIDE DEF N
<1>7. ASSUME NEW t, NEW y, ~(t \in T /\ y = type) PROVE Told(m, t, y) = Told(l, t, y)
  <2>1. ASSUME NEW i \in DOMAIN m, i > N PROVE ~(m[i].task = t /\ m[i].type = y)
    BY <1>6, <1>7, <2>1
  <2>2. \A i \in DOMAIN m : i <= N => i \in DOMAIN l
    BY <1>1, <1>4
  <2>3. \A i \in DOMAIN m : i \in Nat /\ N \in Nat
    BY <1>1, <1>4 DEF N
  <2> QED
    BY <1>5, <2>1, <2>2, <2>3 DEF Told
<1>8. ASSUME NEW t \in T
      PROVE  \E k \in DOMAIN m : /\ k > N /\ m[k] = ev(t)
                                 /\ Told(m, t, type) = Told(l, t, type) \cup {k}
  <2>1. PICK j \in DOMAIN o : o[j] = t
    OBVIOUS
  <2> DEFINE k == N + j
  <2>2. k \in DOMAIN m /\ k > N /\ k - N = j /\ N \in Nat
    BY <1>1, <1>4, <2>1 DEF N
  <2> HIDE DEF k
  <2>3. m[k] = ev(t)
    BY <1>6, <2>1, <2>2
  <2>4. ASSUME NEW i \in DOMAIN m, i > N, m[i].task = t PROVE i = k
    <3>1. i - N \in 1..Len(o) /\ m[i] = ev(o[i - N])
      BY <1>6, <2>4
    <3>2. o[i - N] = o[j] /\ i - N \in DOMAIN o
      BY <1>1, <2>1, <2>4, <3>1
    <3>3. i - N = j
      BY <2>1, <3>2 DEF Distinct
    <3> QED
      BY <1>1, <1>4, <2>2, <3>3
  <2>5. \A i \in DOMAIN m : i <= N => i \in DOMAIN l
    BY <1>1, <1>4 DEF N
  <2>6. \A i \in DOMAIN m : i \in Nat
    BY <1>1, <1>4 DEF N
  <2>7. Told(m, t, type) = Told(l, t, type) \cup {k}
    BY <1>5, <2>2, <2>3, <2>4, <2>5, <2>6 DEF Told
  <2> QED
    BY <2>2, <2>3, <2>7
<1>9. Extends(l, m, T, x, type)
  BY <1>5, <1>7, <1>8 DEF Extends, N
<1> QED
  BY <1>4, <1>9 DEF m, b, N

\* What every log of a schedule is like.
LogShape(g, l, now) ==
  /\ l \in Seq(Happenings(g)) /\ Len(l) >= 1
  /\ l[1].type = "run.started" /\ l[1].time = 0
  /\ \A i \in 2..Len(l) : l[i].type # "run.started" /\ l[i - 1].time <= l[i].time
  /\ \A i \in 1..Len(l) : l[i].time <= now

\* A batch at a time that has come keeps the order and the types of the log.
LEMMA BatchKeepsShape ==
  ASSUME NEW g, NEW l, NEW now \in Nat, LogShape(g, l, now), NEW x \in Nat, now <= x,
         NEW T, NEW o \in Seq(T), NEW type,
         \/ type \in TaskEvents /\ T \subseteq g.tasks
         \/ type \in RunEvents \ {"run.started"} /\ T \subseteq {NoTask}
  PROVE  /\ LogShape(g, l \o Batch(o, x, type), x)
         /\ \A y \in RunEvents \ {type} : ToldOfRun(l \o Batch(o, x, type), y) = ToldOfRun(l, y)
<1> DEFINE b == Batch(o, x, type)
           m == l \o b
           ev(t) == [time |-> x, type |-> type, task |-> t]
           N == Len(l)
<1>1. l \in Seq(Happenings(g)) /\ N \in Nat /\ N >= 1 /\ DOMAIN l = 1..N /\ Len(o) \in Nat /\ DOMAIN o = 1..Len(o)
  BY DEF LogShape
<1>2. \A i \in 1..Len(o) : b[i] = ev(o[i]) /\ o[i] \in T
  BY <1>1 DEF Batch
<1>3. \A t \in T : ev(t) \in Happenings(g)
  BY DEF Happenings
<1>4. b \in Seq(Happenings(g)) /\ Len(b) = Len(o)
  <2>1. b = [i \in 1..Len(o) |-> b[i]]
    BY <1>1 DEF Batch
  <2>2. \A i \in 1..Len(o) : b[i] \in Happenings(g)
    BY <1>2, <1>3
  <2> HIDE DEF b
  <2>3. b \in [1..Len(o) -> Happenings(g)]
    BY <2>1, <2>2
  <2> QED
    BY <1>1, <2>1, <2>3
<1> HIDE DEF b
<1>5. /\ m \in Seq(Happenings(g)) /\ Len(m) = N + Len(o) /\ DOMAIN m = 1..(N + Len(o))
      /\ \A i \in 1..(N + Len(o)) : m[i] = IF i <= N THEN l[i] ELSE b[i - N]
  BY <1>1, <1>4
<1> HIDE DEF m
<1>6. \A i \in 1..N : m[i] = l[i]
  BY <1>1, <1>5
<1>7. ASSUME NEW i \in (N + 1)..(N + Len(o))
      PROVE  m[i].time = x /\ m[i].type = type
  <2>1. i - N \in 1..Len(o) /\ m[i] = b[i - N]
    BY <1>1, <1>5
  <2>2. m[i] = ev(o[i - N])
    BY <1>2, <2>1
  <2> QED
    BY <2>2
<1>8. type # "run.started" /\ type \notin RunEvents \ {type}
  BY DEF TaskEvents, RunEvents
<1>9. \A i \in 1..N : l[i].time \in Nat /\ l[i].time <= now
  BY <1>1 DEF LogShape, Happenings
<1>10. \A i \in 1..Len(m) : m[i].time <= x
  <2> TAKE i \in 1..Len(m)
  <2>1. CASE i <= N
    BY <1>1, <1>5, <1>6, <1>9, <2>1
  <2>2. CASE i > N
    BY <1>1, <1>5, <1>7, <2>2
  <2> QED
    BY <1>1, <1>5, <2>1, <2>2
<1>11. \A i \in 2..Len(m) : m[i].type # "run.started" /\ m[i - 1].time <= m[i].time
  <2> TAKE i \in 2..Len(m)
  <2>1. CASE i <= N
    <3>1. i \in 2..N /\ m[i] = l[i] /\ m[i - 1] = l[i - 1]
      BY <1>1, <1>5, <1>6, <2>1
    <3> QED
      BY <3>1 DEF LogShape
  <2>2. CASE i > N
    <3>1. m[i].time = x /\ m[i].type = type
      BY <1>1, <1>5, <1>7, <2>2
    <3>2. m[i - 1].time <= x
      BY <1>1, <1>5, <1>10, <2>2
    <3> QED
      BY <1>8, <3>1, <3>2
  <2> QED
    BY <1>1, <1>5, <2>1, <2>2
<1>12. LogShape(g, m, x)
  <2>1. m[1] = l[1]
    BY <1>1, <1>6
  <2> QED
    BY <1>1, <1>5, <1>10, <1>11, <2>1 DEF LogShape
<1>13. ASSUME NEW y \in RunEvents \ {type} PROVE ToldOfRun(m, y) = ToldOfRun(l, y)
  <2>1. ASSUME NEW i \in DOMAIN m, i > N PROVE m[i].type # y
    BY <1>1, <1>5, <1>7, <1>13, <2>1
  <2>2. \A i \in DOMAIN m : i <= N => i \in DOMAIN l
    BY <1>1, <1>5
  <2>3. \A i \in DOMAIN m : i \in Nat
    BY <1>1, <1>5
  <2>4. \A i \in DOMAIN l : i \in DOMAIN m /\ m[i] = l[i]
    BY <1>1, <1>5, <1>6
  <2> QED
    BY <1>1, <2>1, <2>2, <2>3, <2>4 DEF ToldOfRun
<1> QED
  BY <1>12, <1>13 DEF m, b

-----------------------------------------------------------------------------
(* The entries. *)

Fields == {"task", "backend", "provider", "start", "end", "use", "risk", "optional", "outcome"}

TasksOf(S) == {e.task : e \in S}
DoneOf(S) == {e.task : e \in {f \in S : f.outcome = "completed"}}
Live(S, s) == {e \in S : e.start <= s /\ s < e.end}
OfProviders(S, P) == {e \in S : e.provider \in P}

\* A set of entries, one for each of its tasks.
EntrySet(S) ==
  /\ IsFiniteSet(S)
  /\ \A e \in S : DOMAIN e = Fields
  /\ \A e, f \in S : e.task = f.task => e = f

\* What becomes of an entry, and of all, when the tasks in D end.
Ended(e, D, outcome, end) ==
  IF e.task \in D THEN [e EXCEPT !.outcome = outcome, !.end = end] ELSE e
EndAll(S, D, outcome, end) == {Ended(e, D, outcome, end) : e \in S}

\* What an entry keeps when it ends.
LEMMA EndedEntry ==
  ASSUME NEW e, DOMAIN e = Fields, NEW D, NEW o, NEW x
  PROVE  /\ DOMAIN Ended(e, D, o, x) = Fields
         /\ Ended(e, D, o, x).task = e.task
         /\ Ended(e, D, o, x).backend = e.backend
         /\ Ended(e, D, o, x).provider = e.provider
         /\ Ended(e, D, o, x).start = e.start
         /\ Ended(e, D, o, x).use = e.use
         /\ Ended(e, D, o, x).risk = e.risk
         /\ Ended(e, D, o, x).optional = e.optional
         /\ e.task \in D => Ended(e, D, o, x).outcome = o /\ Ended(e, D, o, x).end = x
         /\ e.task \notin D => Ended(e, D, o, x) = e
BY DEF Ended, Fields

\* The entries after the ends are those before, each with what became of it.
LEMMA EndingPairs ==
  ASSUME NEW S, EntrySet(S), NEW D, NEW o, NEW x
  PROVE  /\ \A e \in S : DOMAIN e = Fields /\ Ended(e, D, o, x) \in EndAll(S, D, o, x)
         /\ \A f \in EndAll(S, D, o, x) : \E e \in S : f = Ended(e, D, o, x)
<1>1. \A e \in S : DOMAIN e = Fields /\ Ended(e, D, o, x) \in EndAll(S, D, o, x)
  BY DEF EndAll, EntrySet
<1>2. \A f \in EndAll(S, D, o, x) : \E e \in S : f = Ended(e, D, o, x)
  BY DEF EndAll
<1> QED
  BY <1>1, <1>2

\* When entries end they stay one for each task, of the same tasks.
LEMMA EndingGives ==
  ASSUME NEW S, EntrySet(S), NEW D, NEW o, NEW x
  PROVE  /\ EntrySet(EndAll(S, D, o, x))
         /\ TasksOf(EndAll(S, D, o, x)) = TasksOf(S)
<1> DEFINE T == EndAll(S, D, o, x)
           c == [e \in S |-> Ended(e, D, o, x)]
<1>1. /\ \A e \in S : c[e] \in T /\ DOMAIN c[e] = Fields /\ c[e].task = e.task
      /\ \A f \in T : \E e \in S : f = c[e]
  BY EndingPairs, EndedEntry
<1>2. T = {c[e] : e \in S}
  BY DEF EndAll
<1>3. IsFiniteSet(T)
  <2> HIDE DEF T, c
  <2>1. IsFiniteSet(S)
    BY DEF EntrySet
  <2> QED
    BY <1>2, <2>1, ImageFinite
<1> HIDE DEF T, c
<1>4. \A e, f \in T : e.task = f.task => e = f
  <2> SUFFICES ASSUME NEW e \in T, NEW f \in T, e.task = f.task PROVE e = f
    OBVIOUS
  <2>1. PICK a \in S : e = c[a]
    BY <1>1
  <2>2. PICK b \in S : f = c[b]
    BY <1>1
  <2>3. a.task = b.task
    BY <1>1, <2>1, <2>2
  <2> QED
    BY <2>1, <2>2, <2>3 DEF EntrySet
<1>5. \A f \in T : DOMAIN f = Fields
  BY <1>1
<1>6. EntrySet(T)
  BY <1>3, <1>4, <1>5 DEF EntrySet
<1>7. TasksOf(T) = TasksOf(S)
  BY <1>1 DEF TasksOf
<1> QED
  BY <1>6, <1>7 DEF T

\* Ends that come no later leave every instant with no more entries than before.
LEMMA EndingFrees ==
  ASSUME NEW S, EntrySet(S), NEW D, NEW o, NEW x \in Int,
         \A e \in S : e.start \in Int /\ e.end \in Int /\ (e.task \in D => x <= e.end),
         NEW P, NEW s \in Int
  PROVE  Cardinality(OfProviders(Live(EndAll(S, D, o, x), s), P)) <= Cardinality(OfProviders(Live(S, s), P))
<1> DEFINE T == EndAll(S, D, o, x)
           c == [e \in S |-> Ended(e, D, o, x)]
           A == {e \in Live(S, s) : e.provider \in P}
           B == {e \in Live(T, s) : e.provider \in P}
<1>1. /\ \A e \in S : /\ c[e].provider = e.provider /\ c[e].start = e.start
                      /\ e.task \in D => c[e].end = x
                      /\ e.task \notin D => c[e] = e
      /\ \A f \in T : \E e \in S : f = c[e]
  <2>1. \A e \in S : c[e] = Ended(e, D, o, x)
    OBVIOUS
  <2> HIDE DEF c
  <2>2. \A f \in T : \E e \in S : f = Ended(e, D, o, x)
    BY EndingPairs
  <2>3. ASSUME NEW e \in S
        PROVE  /\ Ended(e, D, o, x).provider = e.provider /\ Ended(e, D, o, x).start = e.start
               /\ e.task \in D => Ended(e, D, o, x).end = x
               /\ e.task \notin D => Ended(e, D, o, x) = e
    <3>1. DOMAIN e = Fields
      BY DEF EntrySet
    <3> QED
      BY <3>1, EndedEntry
  <2> QED
    BY <2>1, <2>2, <2>3
<1>2. IsFiniteSet(A) /\ A \subseteq S
  BY FS_Subset DEF EntrySet, Live
<1> DEFINE I == {c[e] : e \in A}
<1>3. IsFiniteSet(I) /\ Cardinality(I) <= Cardinality(A) /\ Cardinality(I) \in Nat /\ Cardinality(A) \in Nat
  <2> HIDE DEF A, c
  <2> QED
    BY <1>2, ImageFinite
<1>4. B \subseteq I
  <2> SUFFICES ASSUME NEW f \in B PROVE f \in I
    OBVIOUS
  <2> HIDE DEF c, T
  <2>1. f \in T /\ f.start <= s /\ s < f.end /\ f.provider \in P
    BY DEF Live
  <2>2. PICK e \in S : f = c[e]
    BY <1>1, <2>1
  <2>3. e.start = f.start /\ e.provider = f.provider /\ s < e.end
    <3>1. CASE e.task \in D
      <4>1. f.end = x /\ x <= e.end /\ e.end \in Int
        BY <1>1, <2>2, <3>1
      <4> QED
        BY <1>1, <2>1, <2>2, <4>1
    <3>2. CASE e.task \notin D
      BY <1>1, <2>1, <2>2, <3>2
    <3> QED
      BY <3>1, <3>2
  <2>4. e \in A
    BY <2>1, <2>3 DEF Live
  <2> QED
    BY <2>2, <2>4
<1>5. Cardinality(B) <= Cardinality(I) /\ Cardinality(B) \in Nat
  <2> HIDE DEF B, I
  <2> QED
    BY <1>3, <1>4, FS_Subset, FS_CardinalityType
<1>6. Cardinality(B) <= Cardinality(A)
  <2> HIDE DEF A, B, I
  <2> QED
    BY <1>3, <1>5
<1> QED
  BY <1>6 DEF OfProviders

\* Ends change no sum of what was taken.
LEMMA EndingKeepsSums ==
  ASSUME NEW S, EntrySet(S), NEW D, NEW o, NEW x,
         \A e \in S : e.risk \in Int /\ \A u \in Units : e.use[u] \in Int
  PROVE  LET T == EndAll(S, D, o, x)
         IN /\ SumOver(T, [e \in T |-> e.risk]) = SumOver(S, [e \in S |-> e.risk])
            /\ \A u \in Units : SumOver(T, [e \in T |-> e.use[u]]) = SumOver(S, [e \in S |-> e.use[u]])
<1> DEFINE T == EndAll(S, D, o, x)
           c == [e \in S |-> Ended(e, D, o, x)]
<1>1. /\ \A e \in S : c[e] \in T /\ c[e].risk = e.risk /\ c[e].use = e.use
      /\ \A f \in T : \E e \in S : c[e] = f
      /\ \A e, f \in S : c[e] = c[f] => e = f
  <2>1. \A e \in S : c[e] = Ended(e, D, o, x)
    OBVIOUS
  <2> HIDE DEF c
  <2>2. \A f \in T : \E e \in S : f = Ended(e, D, o, x)
    BY EndingPairs
  <2>3. ASSUME NEW e \in S, NEW f \in S, Ended(e, D, o, x) = Ended(f, D, o, x) PROVE e = f
    <3>1. DOMAIN e = Fields /\ DOMAIN f = Fields
      BY DEF EntrySet
    <3>2. e.task = f.task
      BY <2>3, <3>1, EndedEntry
    <3> QED
      BY <3>2 DEF EntrySet
  <2>4. ASSUME NEW e \in S
        PROVE  /\ Ended(e, D, o, x) \in T
               /\ Ended(e, D, o, x).risk = e.risk /\ Ended(e, D, o, x).use = e.use
    <3>1. DOMAIN e = Fields /\ Ended(e, D, o, x) \in T
      BY EndingPairs
    <3> QED
      BY <3>1, EndedEntry
  <2> QED
    BY <2>1, <2>2, <2>3, <2>4
<1>2. IsFiniteSet(S)
  BY DEF EntrySet
<1> HIDE DEF T, c
<1>3. SumOver(T, [e \in T |-> e.risk]) = SumOver(S, [e \in S |-> e.risk])
  <2> DEFINE f == [e \in S |-> e.risk]
             g == [e \in T |-> e.risk]
  <2>1. \A e \in S : c[e] \in T /\ f[e] = g[c[e]] /\ f[e] \in Int
    BY <1>1
  <2> HIDE DEF f, g
  <2>2. SumFunctionOnSet(f, S) = SumFunctionOnSet(g, T)
    BY <1>1, <1>2, <2>1, SumRenamed
  <2> QED
    BY <2>2 DEF SumOver, f, g
<1>4. ASSUME NEW u \in Units
      PROVE  SumOver(T, [e \in T |-> e.use[u]]) = SumOver(S, [e \in S |-> e.use[u]])
  <2> DEFINE f == [e \in S |-> e.use[u]]
             g == [e \in T |-> e.use[u]]
  <2>1. \A e \in S : c[e] \in T /\ f[e] = g[c[e]] /\ f[e] \in Int
    <3> TAKE e \in S
    <3>1. e.use[u] \in Int
      OBVIOUS
    <3>2. c[e] \in T /\ c[e].use[u] = e.use[u]
      BY <1>1
    <3> QED
      BY <3>1, <3>2
  <2> HIDE DEF f, g
  <2>2. SumFunctionOnSet(f, S) = SumFunctionOnSet(g, T)
    <3>1. \A z \in T : \E e \in S : c[e] = z
      BY <1>1
    <3>2. \A a, b \in S : c[a] = c[b] => a = b
      BY <1>1
    <3> QED
      BY <1>2, <2>1, <3>1, <3>2, SumRenamed
  <2> QED
    BY <2>2 DEF SumOver, f, g
<1> QED
  BY <1>3, <1>4 DEF T

-----------------------------------------------------------------------------
(* The books: every entry is a sound booking, and has the state its time allows. *)

Booked(g, env, e) ==
  /\ e.task \in g.tasks /\ e.start \in Nat /\ e.end \in Nat /\ e.start <= e.end
  /\ e.optional = (e.task \in g.optional)
  /\ \E p \in Qualified(g, e.task) :
       /\ p.id = e.backend /\ p.provider = e.provider /\ p.use = e.use /\ p.risk = e.risk
       /\ e.end - e.start <= p.p95
       /\ e.outcome # "cancelled" => e.end - e.start = p.p95
  /\ e.outcome # "cancelled" => e.end <= DueBy(g, env, e.task)

Timed(e, now, ph) ==
  /\ e.start <= now
  /\ \/ e.outcome = "completed" /\ e.end <= now
     \/ e.outcome = "running" /\ now <= e.end /\ ph = "planning"
     \/ e.outcome = "cancelled" /\ e.end = now /\ ph = "failed"

Preceded(g, S, e) ==
  \A d \in g.deps[e.task] : \E f \in S : f.task = d /\ f.outcome = "completed" /\ f.end <= e.start

Books(g, env, S, now, ph) ==
  /\ EntrySet(S)
  /\ \A e \in S : Booked(g, env, e) /\ Timed(e, now, ph) /\ Preceded(g, S, e)

NewEntry(g, t, p, now) ==
  [task |-> t, backend |-> p.id, provider |-> p.provider, start |-> now, end |-> now + p.p95,
   use |-> p.use, risk |-> p.risk, optional |-> t \in g.optional, outcome |-> "running"]

\* An entry for a task whose dependencies are done keeps the books.
LEMMA BooksGrow ==
  ASSUME NEW g, GraphShape(g), ValidGraph(g), NEW env, NEW S, NEW now \in Nat,
         Books(g, env, S, now, "planning"),
         NEW t \in g.tasks, t \notin TasksOf(S), g.deps[t] \subseteq DoneOf(S),
         NEW p \in Qualified(g, t), now + p.p95 <= DueBy(g, env, t)
  PROVE  Books(g, env, S \cup {NewEntry(g, t, p, now)}, now, "planning")
<1> DEFINE n == NewEntry(g, t, p, now)
           T == S \cup {n}
<1>1. /\ n.task = t /\ n.backend = p.id /\ n.provider = p.provider /\ n.start = now
      /\ n.end = now + p.p95 /\ n.use = p.use /\ n.risk = p.risk
      /\ n.optional = (t \in g.optional) /\ n.outcome = "running" /\ DOMAIN n = Fields
  BY DEF NewEntry, Fields
<1> HIDE DEF n
<1>2. p.p95 \in Nat
  BY QualifiedProfiles
<1>3. EntrySet(T)
  <2>1. IsFiniteSet(T)
    BY FS_AddElement DEF Books, EntrySet
  <2>2. \A e \in T : DOMAIN e = Fields
    BY <1>1 DEF Books, EntrySet
  <2>3. \A e \in S : e.task # n.task
    BY <1>1 DEF TasksOf
  <2>4. \A e, f \in T : e.task = f.task => e = f
    BY <2>3 DEF Books, EntrySet
  <2> QED
    BY <2>1, <2>2, <2>4 DEF EntrySet
<1>4. Booked(g, env, n)
  BY <1>1, <1>2 DEF Booked
<1>5. Timed(n, now, "planning")
  BY <1>1, <1>2 DEF Timed
<1>6. Preceded(g, T, n)
  <2> SUFFICES ASSUME NEW d \in g.deps[t]
               PROVE  \E f \in T : f.task = d /\ f.outcome = "completed" /\ f.end <= n.start
    BY <1>1 DEF Preceded
  <2>1. PICK f \in S : f.task = d /\ f.outcome = "completed"
    BY DEF DoneOf
  <2>2. f.end <= now
    BY <2>1 DEF Books, Timed
  <2> QED
    BY <1>1, <2>1, <2>2
<1>7. ASSUME NEW e \in S PROVE Booked(g, env, e) /\ Timed(e, now, "planning") /\ Preceded(g, T, e)
  <2>1. Preceded(g, S, e) /\ Booked(g, env, e) /\ Timed(e, now, "planning")
    BY DEF Books
  <2> QED
    BY <2>1 DEF Preceded
<1> QED
  BY <1>3, <1>4, <1>5, <1>6, <1>7 DEF Books, n

\* Running entries end: what is known of the others stays true.
LEMMA BooksEnd ==
  ASSUME NEW g, NEW env, NEW S, NEW now \in Nat, Books(g, env, S, now, "planning"),
         NEW D, NEW o, NEW x \in Nat, NEW ph, now <= x,
         \A e \in S : e.task \in D => e.outcome = "running",
         \A e \in S : e.outcome = "running" => x <= e.end,
         \/ /\ o = "completed" /\ ph = "planning"
            /\ \A e \in S : e.task \in D => e.end = x
         \/ /\ o = "cancelled" /\ ph = "failed" /\ x = now
            /\ \A e \in S : e.outcome = "running" => e.task \in D
  PROVE  Books(g, env, EndAll(S, D, o, x), x, ph)
<1> DEFINE T == EndAll(S, D, o, x)
<1>1. EntrySet(S) /\ \A e \in S : Booked(g, env, e) /\ Timed(e, now, "planning") /\ Preceded(g, S, e)
  BY DEF Books
<1>2. EntrySet(T)
  BY <1>1, EndingGives
<1>3. ASSUME NEW f \in T
      PROVE  Booked(g, env, f) /\ Timed(f, x, ph) /\ Preceded(g, T, f)
  <2>1. PICK e \in S : f = Ended(e, D, o, x)
    BY <1>1, EndingPairs
  <2>2. DOMAIN e = Fields
    BY <1>1 DEF EntrySet
  <2>3. /\ f.task = e.task /\ f.backend = e.backend /\ f.provider = e.provider /\ f.start = e.start
        /\ f.use = e.use /\ f.risk = e.risk /\ f.optional = e.optional
        /\ e.task \in D => f.outcome = o /\ f.end = x
        /\ e.task \notin D => f = e
    BY <2>1, <2>2, EndedEntry
  <2>4. e.start \in Nat /\ e.end \in Nat /\ e.start <= now
    BY <1>1 DEF Booked, Timed
  <2>5. e.task \in D => e.outcome = "running" /\ x <= e.end /\ (o = "completed" => e.end = x)
    OBVIOUS
  <2>6. Booked(g, env, f)
    <3>1. CASE e.task \in D
      <4>1. PICK p \in Qualified(g, e.task) :
              /\ p.id = e.backend /\ p.provider = e.provider /\ p.use = e.use /\ p.risk = e.risk
              /\ e.end - e.start = p.p95
        BY <1>1, <2>5, <3>1 DEF Booked
      <4>2. f.end - f.start <= p.p95 /\ (f.outcome # "cancelled" => f.end - f.start = p.p95)
        BY <2>3, <2>4, <2>5, <3>1, <4>1
      <4>3. f.outcome # "cancelled" => f.end <= DueBy(g, env, f.task)
        BY <1>1, <2>3, <2>5, <3>1 DEF Booked
      <4>4. f.start \in Nat /\ f.end \in Nat /\ f.start <= f.end
        BY <2>3, <2>4, <3>1
      <4>5. f.task \in g.tasks /\ f.optional = (f.task \in g.optional)
        BY <1>1, <2>3 DEF Booked
      <4> QED
        BY <2>3, <4>1, <4>2, <4>3, <4>4, <4>5 DEF Booked
    <3>2. CASE e.task \notin D
      BY <1>1, <2>3, <3>2
    <3> QED
      BY <3>1, <3>2
  <2>7. Timed(f, x, ph)
    <3>1. Timed(e, now, "planning")
      BY <1>1
    <3>2. CASE e.task \in D
      BY <2>3, <2>4, <2>5, <3>2 DEF Timed
    <3>3. CASE e.task \notin D
      <4>1. f = e
        BY <2>3, <3>3
      <4>2. CASE e.outcome = "running"
        BY <2>4, <3>1, <3>3, <4>1, <4>2 DEF Timed
      <4>3. CASE e.outcome = "completed"
        BY <2>4, <3>1, <4>1, <4>3 DEF Timed
      <4> QED
        BY <3>1, <4>2, <4>3 DEF Timed
    <3> QED
      BY <3>2, <3>3
  <2>8. Preceded(g, T, f)
    <3> SUFFICES ASSUME NEW d \in g.deps[e.task]
                 PROVE  \E h \in T : h.task = d /\ h.outcome = "completed" /\ h.end <= f.start
      BY <2>3 DEF Preceded
    <3>1. PICK h \in S : h.task = d /\ h.outcome = "completed" /\ h.end <= e.start
      BY <1>1 DEF Preceded
    <3>2. h.task \notin D
      BY <3>1
    <3>3. h \in T
      BY <3>2 DEF EndAll, Ended
    <3> QED
      BY <2>3, <3>1, <3>3
  <2> QED
    BY <2>6, <2>7, <2>8
<1> QED
  BY <1>2, <1>3 DEF Books

-----------------------------------------------------------------------------
(* What runs: one record for each running entry. *)

RunRecords(g) == [task : g.tasks, profile : UNION {Qualified(g, t) : t \in g.tasks}, end : Nat]

Runs(g, S, run) ==
  /\ run \in Seq(RunRecords(g))
  /\ \A i, j \in DOMAIN run : run[i].task = run[j].task => i = j
  /\ \A i \in DOMAIN run : \E e \in S : /\ e.task = run[i].task /\ e.outcome = "running"
                                        /\ e.end = run[i].end /\ e.provider = run[i].profile.provider
  /\ \A e \in S : e.outcome = "running" => \E i \in DOMAIN run : run[i].task = e.task

\* No more entries of some providers run than there are records of them.
LEMMA RunningAreRecorded ==
  ASSUME NEW g, NEW S, EntrySet(S), NEW run, Runs(g, S, run), NEW P
  PROVE  LET R == {e \in S : e.outcome = "running" /\ e.provider \in P}
             I == {i \in DOMAIN run : run[i].profile.provider \in P}
         IN /\ IsFiniteSet(R) /\ IsFiniteSet(I) /\ Cardinality(R) \in Nat /\ Cardinality(I) \in Nat
            /\ Cardinality(R) <= Cardinality(I) /\ Cardinality(I) <= Len(run) /\ Len(run) \in Nat
<1> DEFINE R == {e \in S : e.outcome = "running" /\ e.provider \in P}
           I == {i \in DOMAIN run : run[i].profile.provider \in P}
           c == [i \in I |-> CHOOSE e \in S : e.task = run[i].task]
<1>1. Len(run) \in Nat /\ DOMAIN run = 1..Len(run)
  BY DEF Runs
<1>2. IsFiniteSet(DOMAIN run) /\ Cardinality(DOMAIN run) = Len(run)
  <2> DEFINE N == Len(run)
  <2>1. N \in Nat /\ DOMAIN run = 1..N
    BY <1>1
  <2> HIDE DEF N
  <2>2. IsFiniteSet(1..N) /\ Cardinality(1..N) = N
    BY <2>1, FS_Interval
  <2> QED
    BY <2>1, <2>2 DEF N
<1>3. IsFiniteSet(I) /\ Cardinality(I) <= Len(run) /\ Cardinality(I) \in Nat
  <2> HIDE DEF I
  <2>1. I \subseteq DOMAIN run
    BY DEF I
  <2> QED
    BY <1>2, <2>1, FS_Subset, FS_CardinalityType
<1>4. IsFiniteSet({c[i] : i \in I}) /\ Cardinality({c[i] : i \in I}) <= Cardinality(I)
      /\ Cardinality({c[i] : i \in I}) \in Nat
  <2> HIDE DEF I, c
  <2> QED
    BY <1>3, ImageFinite
<1>5. R \subseteq {c[i] : i \in I}
  <2> SUFFICES ASSUME NEW e \in R PROVE \E i \in I : e = c[i]
    OBVIOUS
  <2>1. PICK i \in DOMAIN run : run[i].task = e.task
    BY DEF Runs
  <2>2. PICK f \in S : f.task = run[i].task /\ f.provider = run[i].profile.provider
    BY DEF Runs
  <2>3. f = e
    BY <2>1, <2>2 DEF EntrySet
  <2>4. i \in I
    BY <2>2, <2>3
  <2>5. (CHOOSE a \in S : a.task = run[i].task) = e
    BY <2>1 DEF EntrySet
  <2>6. c[i] = e
    BY <2>4, <2>5
  <2> QED
    BY <2>4, <2>6
<1>6. IsFiniteSet(R) /\ Cardinality(R) \in Nat /\ Cardinality(R) <= Cardinality({c[i] : i \in I})
  <2> DEFINE K == {c[i] : i \in I}
  <2> HIDE DEF R, K
  <2>1. IsFiniteSet(K) /\ R \subseteq K
    BY <1>4, <1>5 DEF K
  <2>2. IsFiniteSet(R) /\ Cardinality(R) \in Nat /\ Cardinality(R) <= Cardinality(K)
    BY <2>1, FS_Subset, FS_CardinalityType
  <2> QED
    BY <2>2 DEF K
<1>7. Cardinality(R) <= Cardinality(I)
  <2> HIDE DEF R, I, c
  <2> QED
    BY <1>3, <1>4, <1>6
<1> QED
  BY <1>1, <1>3, <1>6, <1>7

\* A started task is recorded as running, once.
LEMMA RunsGrow ==
  ASSUME NEW g, GraphShape(g), ValidGraph(g), NEW S, NEW run, Runs(g, S, run), NEW now \in Nat,
         NEW t \in g.tasks, t \notin TasksOf(S), NEW p \in Qualified(g, t)
  PROVE  Runs(g, S \cup {NewEntry(g, t, p, now)},
              Append(run, [task |-> t, profile |-> p, end |-> now + p.p95]))
<1> DEFINE n == NewEntry(g, t, p, now)
           r == [task |-> t, profile |-> p, end |-> now + p.p95]
           T == S \cup {n}
           new == Append(run, r)
           N == Len(run)
<1>1. /\ n.task = t /\ n.provider = p.provider /\ n.end = now + p.p95 /\ n.outcome = "running"
  BY DEF NewEntry
<1>2. p.p95 \in Nat
  BY QualifiedProfiles
<1>3. r \in RunRecords(g)
  BY <1>2 DEF RunRecords
<1>4. r.task = t /\ r.profile = p /\ r.end = now + p.p95
  OBVIOUS
<1>5. run \in Seq(RunRecords(g)) /\ N \in Nat /\ DOMAIN run = 1..N
  BY DEF Runs
<1> HIDE DEF n, r
<1>6. /\ new \in Seq(RunRecords(g)) /\ DOMAIN new = 1..(N + 1)
      /\ (\A i \in 1..N : new[i] = run[i]) /\ new[N + 1] = r
  BY <1>3, <1>5
<1> HIDE DEF new
<1>7. \A i \in 1..(N + 1) : i \in 1..N \/ i = N + 1
  BY <1>5
<1>8. ASSUME NEW i \in 1..N PROVE run[i].task # t
  <2>1. PICK e \in S : e.task = run[i].task
    BY <1>5 DEF Runs
  <2> QED
    BY <2>1 DEF TasksOf
<1>9. ASSUME NEW i \in DOMAIN new, NEW j \in DOMAIN new, new[i].task = new[j].task PROVE i = j
  <2>1. CASE i \in 1..N /\ j \in 1..N
    BY <1>5, <1>6, <1>9, <2>1 DEF Runs
  <2>2. CASE i = N + 1 /\ j = N + 1
    BY <2>2
  <2>3. CASE i = N + 1 /\ j \in 1..N
    BY <1>4, <1>6, <1>8, <1>9, <2>3
  <2>4. CASE i \in 1..N /\ j = N + 1
    BY <1>4, <1>6, <1>8, <1>9, <2>4
  <2> QED
    BY <1>6, <1>7, <2>1, <2>2, <2>3, <2>4
<1>10. ASSUME NEW i \in DOMAIN new
       PROVE  \E e \in T : /\ e.task = new[i].task /\ e.outcome = "running"
                           /\ e.end = new[i].end /\ e.provider = new[i].profile.provider
  <2>1. CASE i \in 1..N
    <3>1. PICK e \in S : /\ e.task = run[i].task /\ e.outcome = "running"
                         /\ e.end = run[i].end /\ e.provider = run[i].profile.provider
      BY <1>5, <2>1 DEF Runs
    <3> QED
      BY <1>6, <2>1, <3>1
  <2>2. CASE i = N + 1
    BY <1>1, <1>4, <1>6, <2>2
  <2> QED
    BY <1>6, <1>7, <2>1, <2>2
<1>11. ASSUME NEW e \in T, e.outcome = "running" PROVE \E i \in DOMAIN new : new[i].task = e.task
  <2>1. CASE e \in S
    <3>1. PICK i \in DOMAIN run : run[i].task = e.task
      BY <1>11, <2>1 DEF Runs
    <3> QED
      BY <1>5, <1>6, <3>1
  <2>2. CASE e = n
    BY <1>1, <1>4, <1>5, <1>6, <2>2
  <2> QED
    BY <2>1, <2>2
<1> QED
  BY <1>6, <1>9, <1>10, <1>11 DEF Runs, n, r, new

\* The records at the places I stay, the tasks of the others end.
LEMMA RunsEnd ==
  ASSUME NEW g, NEW S, EntrySet(S), NEW run, Runs(g, S, run), NEW I \in SUBSET DOMAIN run,
         NEW D, D = {run[i].task : i \in (DOMAIN run) \ I}, NEW o, o # "running", NEW x
  PROVE  Runs(g, EndAll(S, D, o, x), Picked(run, I))
<1> DEFINE T == EndAll(S, D, o, x)
           new == Picked(run, I)
<1>1. run \in Seq(RunRecords(g))
  BY DEF Runs
<1>2. new \in Seq(RunRecords(g)) /\ \E q : PickedBy(new, q, run, I)
  BY <1>1, PickedProperties
<1>3. PICK q : PickedBy(new, q, run, I)
  BY <1>2
<1> HIDE DEF new
<1> DEFINE N == Cardinality(I)
<1>4. /\ DOMAIN new = 1..N /\ \A i \in 1..N : new[i] = run[q[i]] /\ q[i] \in I /\ q[i] \in DOMAIN run
  BY <1>3 DEF PickedBy
<1>5. /\ \A i, j \in 1..N : q[i] = q[j] => i = j
      /\ \A k \in I : \E i \in 1..N : q[i] = k
  BY <1>3 DEF PickedBy, Enumerates
<1> HIDE DEF N
<1>6. ASSUME NEW i \in DOMAIN new, NEW j \in DOMAIN new, new[i].task = new[j].task PROVE i = j
  <2>1. run[q[i]].task = run[q[j]].task /\ q[i] \in DOMAIN run /\ q[j] \in DOMAIN run
    BY <1>4, <1>6
  <2>2. q[i] = q[j]
    BY <2>1 DEF Runs
  <2> QED
    BY <1>4, <1>5, <2>2
<1>7. \A k \in I : run[k].task \notin D
  <2> SUFFICES ASSUME NEW k \in I, NEW j \in (DOMAIN run) \ I, run[k].task = run[j].task PROVE FALSE
    OBVIOUS
  <2>1. k = j
    BY DEF Runs
  <2> QED
    BY <2>1
<1>8. ASSUME NEW i \in DOMAIN new
      PROVE  \E e \in T : /\ e.task = new[i].task /\ e.outcome = "running"
                          /\ e.end = new[i].end /\ e.provider = new[i].profile.provider
  <2>1. new[i] = run[q[i]] /\ q[i] \in I /\ q[i] \in DOMAIN run
    BY <1>4
  <2>2. PICK e \in S : /\ e.task = run[q[i]].task /\ e.outcome = "running"
                       /\ e.end = run[q[i]].end /\ e.provider = run[q[i]].profile.provider
    BY <2>1 DEF Runs
  <2>3. e.task \notin D
    BY <1>7, <2>1, <2>2
  <2>4. e \in T
    BY <2>3 DEF EndAll, Ended
  <2> QED
    BY <2>1, <2>2, <2>4
<1>9. ASSUME NEW f \in T, f.outcome = "running" PROVE \E i \in DOMAIN new : new[i].task = f.task
  <2>1. PICK e \in S : f = Ended(e, D, o, x)
    BY DEF EndAll
  <2>2. DOMAIN e = Fields
    BY DEF EntrySet
  <2>3. e.task \notin D /\ f = e
    BY <1>9, <2>1, <2>2, EndedEntry
  <2>4. PICK k \in DOMAIN run : run[k].task = e.task
    BY <1>9, <2>3 DEF Runs
  <2>5. k \in I
    BY <2>3, <2>4
  <2>6. PICK i \in 1..N : q[i] = k
    BY <1>5, <2>5
  <2> QED
    BY <1>4, <2>3, <2>4, <2>6
<1> QED
  BY <1>2, <1>6, <1>8, <1>9 DEF Runs, new

-----------------------------------------------------------------------------
(* Slots: at no instant are more entries live than run slots or provider slots. *)

Slots(env, p) == Least(ProviderLimit(env, p), env.parallelism)

SlotsKept(env, S) ==
  \A s \in Nat :
    /\ Cardinality(Live(S, s)) <= env.parallelism
    /\ \A p \in {e.provider : e \in S} :
         Cardinality(OfProviders(Live(S, s), {p})) <= Slots(env, p)

\* Every provider and the run as a whole have a slot.
LEMMA SlotsArePositive ==
  ASSUME NEW env, EnvelopeShape(env), ValidEnvelope(env), NEW p
  PROVE  /\ env.parallelism \in Nat \ {0} /\ ProviderLimit(env, p) \in Nat \ {0}
         /\ Slots(env, p) \in Nat \ {0}
         /\ Slots(env, p) <= env.parallelism /\ Slots(env, p) <= ProviderLimit(env, p)
         /\ \A k \in Int : k <= env.parallelism /\ k <= ProviderLimit(env, p) => k <= Slots(env, p)
<1>1. env.parallelism \in Nat \ {0}
  BY DEF EnvelopeShape, ValidEnvelope
<1>2. ProviderLimit(env, p) \in Nat \ {0}
  BY <1>1 DEF ProviderLimit, EnvelopeShape, ValidEnvelope
<1> QED
  BY <1>1, <1>2 DEF Slots, Least

\* The entries live from now on are those that run.
LEMMA LiveAreRunning ==
  ASSUME NEW g, NEW env, NEW S, NEW now \in Nat, Books(g, env, S, now, "planning"),
         NEW s \in Nat, now <= s, NEW e \in Live(S, s)
  PROVE  e.outcome = "running"
<1>1. e \in S /\ s < e.end /\ e.end \in Nat /\ Timed(e, now, "planning")
  BY DEF Live, Books, Booked
<1> QED
  BY <1>1 DEF Timed

\* An entry that starts while a slot is free leaves no instant with too many.
LEMMA SlotsGrow ==
  ASSUME NEW g, NEW env, EnvelopeShape(env), ValidEnvelope(env),
         NEW S, NEW now \in Nat, Books(g, env, S, now, "planning"),
         NEW run, Runs(g, S, run), SlotsKept(env, S),
         NEW n, n.start = now, n \notin S, Len(run) < env.parallelism,
         Cardinality({i \in DOMAIN run : run[i].profile.provider = n.provider})
           < ProviderLimit(env, n.provider)
  PROVE  SlotsKept(env, S \cup {n})
<1> DEFINE T == S \cup {n}
           Running(P) == {e \in S : e.outcome = "running" /\ e.provider \in P}
           All == {e.provider : e \in S}
<1>1. EntrySet(S) /\ IsFiniteSet(S) /\ \A e \in S : e.start \in Nat /\ e.end \in Nat
  BY DEF Books, EntrySet, Booked
<1>2. IsFiniteSet(T)
  BY <1>1, FS_AddElement
<1>3. SUFFICES ASSUME NEW s \in Nat
               PROVE  /\ Cardinality(Live(T, s)) <= env.parallelism
                      /\ \A p \in {e.provider : e \in T} :
                           Cardinality(OfProviders(Live(T, s), {p})) <= Slots(env, p)
  BY DEF SlotsKept
<1>4. CASE s < now
  <2>1. Live(T, s) = Live(S, s)
    BY <1>4 DEF Live
  <2>2. ASSUME NEW p \in {e.provider : e \in T} PROVE Cardinality(OfProviders(Live(T, s), {p})) <= Slots(env, p)
    <3>1. CASE p \in All
      BY <2>1, <3>1 DEF SlotsKept
    <3>2. CASE p \notin All
      <4>1. OfProviders(Live(T, s), {p}) = {}
        BY <2>1, <3>2 DEF OfProviders, Live
      <4>2. Slots(env, p) \in Nat
        BY SlotsArePositive
      <4>3. Cardinality(OfProviders(Live(T, s), {p})) = 0
        BY <4>1, FS_EmptySet
      <4> QED
        BY <4>2, <4>3
    <3> QED
      BY <3>1, <3>2
  <2> QED
    BY <2>1, <2>2 DEF SlotsKept
<1>5. CASE now <= s
  <2>1. ASSUME NEW P
        PROVE  LET A == OfProviders(Live(T, s), P)
                   I == {i \in DOMAIN run : run[i].profile.provider \in P}
               IN /\ IsFiniteSet(A) /\ Cardinality(A) \in Nat /\ Cardinality(I) \in Nat
                  /\ Cardinality(A) <= Cardinality(I) + 1 /\ Cardinality(I) <= Len(run) /\ Len(run) \in Nat
    <3> DEFINE A == OfProviders(Live(T, s), P)
               R == Running(P)
               I == {i \in DOMAIN run : run[i].profile.provider \in P}
    <3>1. /\ IsFiniteSet(R) /\ IsFiniteSet(I) /\ Cardinality(R) \in Nat /\ Cardinality(I) \in Nat
          /\ Cardinality(R) <= Cardinality(I) /\ Cardinality(I) <= Len(run) /\ Len(run) \in Nat
      BY <1>1, RunningAreRecorded
    <3>2. A \subseteq R \cup {n}
      <4> SUFFICES ASSUME NEW e \in A, e # n PROVE e \in R
        OBVIOUS
      <4>1. e \in Live(S, s) /\ e.provider \in P /\ e \in S
        BY DEF OfProviders, Live
      <4>2. e.outcome = "running"
        BY <1>5, <4>1, LiveAreRunning
      <4> QED
        BY <4>1, <4>2
    <3> HIDE DEF A, R, I
    <3>3. IsFiniteSet(R \cup {n}) /\ Cardinality(R \cup {n}) <= Cardinality(R) + 1 /\ Cardinality(R \cup {n}) \in Nat
      <4>1. /\ IsFiniteSet(R \cup {n})
            /\ Cardinality(R \cup {n}) = IF n \in R THEN Cardinality(R) ELSE Cardinality(R) + 1
        BY <3>1, FS_AddElement
      <4> QED
        BY <3>1, <4>1
    <3>4. IsFiniteSet(A) /\ Cardinality(A) \in Nat /\ Cardinality(A) <= Cardinality(R \cup {n})
      BY <3>2, <3>3, FS_Subset, FS_CardinalityType
    <3>5. IsFiniteSet(A) /\ Cardinality(A) \in Nat /\ Cardinality(I) \in Nat /\ Cardinality(A) <= Cardinality(I) + 1
          /\ Cardinality(I) <= Len(run) /\ Len(run) \in Nat
      BY <3>1, <3>3, <3>4
    <3> QED
      BY <3>5 DEF A, I
  <2>2. env.parallelism \in Nat
    BY SlotsArePositive
  <2>3. IsFiniteSet(Live(T, s))
    BY <1>2, FS_Subset DEF Live
  <2>4. Cardinality(Live(T, s)) <= env.parallelism
    <3> DEFINE P == {e.provider : e \in T}
               I == {i \in DOMAIN run : run[i].profile.provider \in P}
    <3>1. OfProviders(Live(T, s), P) = Live(T, s)
      BY DEF OfProviders, Live
    <3>2. /\ Cardinality(OfProviders(Live(T, s), P)) \in Nat /\ Cardinality(I) \in Nat
          /\ Cardinality(OfProviders(Live(T, s), P)) <= Cardinality(I) + 1
          /\ Cardinality(I) <= Len(run) /\ Len(run) \in Nat
      <4> HIDE DEF P
      <4> QED
        BY <2>1
    <3> HIDE DEF I, P
    <3> QED
      BY <2>2, <3>1, <3>2
  <2>5. ASSUME NEW p \in {e.provider : e \in T} PROVE Cardinality(OfProviders(Live(T, s), {p})) <= Slots(env, p)
    <3> DEFINE A == OfProviders(Live(T, s), {p})
               I == {i \in DOMAIN run : run[i].profile.provider = p}
    <3>1. CASE p = n.provider
      <4>1. {i \in DOMAIN run : run[i].profile.provider \in {p}} = I
        OBVIOUS
      <4>2. /\ Cardinality(A) \in Nat /\ Cardinality(I) \in Nat
            /\ Cardinality(A) <= Cardinality(I) + 1
            /\ Cardinality(I) <= Len(run) /\ Len(run) \in Nat
        <5> HIDE DEF I
        <5> QED
          BY <2>1, <4>1
      <4>3. Cardinality(I) < ProviderLimit(env, p) /\ ProviderLimit(env, p) \in Nat
        BY <3>1, SlotsArePositive
      <4> HIDE DEF A, I
      <4>4. Cardinality(A) <= env.parallelism /\ Cardinality(A) <= ProviderLimit(env, p)
        BY <2>2, <4>2, <4>3
      <4>5. Cardinality(A) <= Slots(env, p)
        BY <4>2, <4>4, SlotsArePositive
      <4> QED
        BY <4>5 DEF A
    <3>2. CASE p # n.provider
      <4>1. A = OfProviders(Live(S, s), {p})
        BY <3>2 DEF OfProviders, Live
      <4>2. p \in {e.provider : e \in S}
        BY <3>2
      <4> QED
        BY <4>1, <4>2 DEF SlotsKept
    <3> QED
      BY <3>1, <3>2
  <2> QED
    BY <2>4, <2>5
<1>6. s < now \/ now <= s
  OBVIOUS
<1> QED
  BY <1>4, <1>5, <1>6

\* Entries that end leave no instant with too many.
LEMMA SlotsEnd ==
  ASSUME NEW env, EnvelopeShape(env), ValidEnvelope(env), NEW S, EntrySet(S), SlotsKept(env, S),
         NEW D, NEW o, NEW x \in Int,
         \A e \in S : e.start \in Int /\ e.end \in Int /\ (e.task \in D => x <= e.end)
  PROVE  SlotsKept(env, EndAll(S, D, o, x))
<1> DEFINE T == EndAll(S, D, o, x)
<1>1. IsFiniteSet(S) /\ IsFiniteSet(T)
  <2>1. EntrySet(T)
    BY EndingGives
  <2> QED
    BY <2>1 DEF EntrySet
<1>2. ASSUME NEW s \in Nat, NEW P
      PROVE  /\ Cardinality(OfProviders(Live(T, s), P)) <= Cardinality(OfProviders(Live(S, s), P))
             /\ Cardinality(OfProviders(Live(T, s), P)) \in Nat /\ Cardinality(OfProviders(Live(S, s), P)) \in Nat
  <2>1. Cardinality(OfProviders(Live(T, s), P)) <= Cardinality(OfProviders(Live(S, s), P))
    BY EndingFrees
  <2>2. IsFiniteSet(OfProviders(Live(T, s), P)) /\ IsFiniteSet(OfProviders(Live(S, s), P))
    <3> HIDE DEF T
    <3>1. OfProviders(Live(T, s), P) \subseteq T /\ OfProviders(Live(S, s), P) \subseteq S
      BY DEF OfProviders, Live
    <3> QED
      BY <1>1, <3>1, FS_Subset
  <2> QED
    BY <2>1, <2>2, FS_CardinalityType
<1>3. {e.provider : e \in T} = {e.provider : e \in S}
  <2>1. ASSUME NEW e \in S PROVE \E f \in T : f.provider = e.provider
    <3>1. Ended(e, D, o, x) \in T /\ DOMAIN e = Fields
      BY DEF EntrySet, EndAll
    <3> QED
      BY <3>1, EndedEntry
  <2>2. ASSUME NEW f \in T PROVE \E e \in S : e.provider = f.provider
    <3>1. PICK e \in S : f = Ended(e, D, o, x)
      BY DEF EndAll
    <3>2. DOMAIN e = Fields
      BY DEF EntrySet
    <3>3. f.provider = e.provider
      BY <3>1, <3>2, EndedEntry
    <3> QED
      BY <3>3
  <2> QED
    BY <2>1, <2>2
<1>4. SUFFICES ASSUME NEW s \in Nat
               PROVE  /\ Cardinality(Live(T, s)) <= env.parallelism
                      /\ \A p \in {e.provider : e \in T} :
                           Cardinality(OfProviders(Live(T, s), {p})) <= Slots(env, p)
  BY DEF SlotsKept
<1>5. env.parallelism \in Nat
  BY SlotsArePositive
<1>6. Cardinality(Live(T, s)) <= env.parallelism
  <2> DEFINE P == {e.provider : e \in S}
  <2>1. OfProviders(Live(S, s), P) = Live(S, s)
    BY DEF OfProviders, Live
  <2>2. OfProviders(Live(T, s), P) = Live(T, s)
    <3> HIDE DEF T
    <3> QED
      BY <1>3 DEF OfProviders, Live
  <2>3. Cardinality(Live(S, s)) <= env.parallelism
    BY DEF SlotsKept
  <2> HIDE DEF P, T
  <2>4. /\ Cardinality(Live(T, s)) <= Cardinality(Live(S, s))
        /\ Cardinality(Live(T, s)) \in Nat /\ Cardinality(Live(S, s)) \in Nat
    BY <1>2, <2>1, <2>2
  <2> QED
    BY <1>5, <2>3, <2>4
<1>7. ASSUME NEW p \in {e.provider : e \in T} PROVE Cardinality(OfProviders(Live(T, s), {p})) <= Slots(env, p)
  <2> HIDE DEF T
  <2>1. p \in {e.provider : e \in S}
    BY <1>3
  <2>2. Cardinality(OfProviders(Live(S, s), {p})) <= Slots(env, p)
    BY <2>1 DEF SlotsKept
  <2>3. Slots(env, p) \in Nat
    BY SlotsArePositive
  <2>4. /\ Cardinality(OfProviders(Live(T, s), {p})) <= Cardinality(OfProviders(Live(S, s), {p}))
        /\ Cardinality(OfProviders(Live(T, s), {p})) \in Nat /\ Cardinality(OfProviders(Live(S, s), {p})) \in Nat
    BY <1>2
  <2> QED
    BY <2>2, <2>3, <2>4
<1> QED
  BY <1>6, <1>7

-----------------------------------------------------------------------------
(* Effects: who overlaps a writer of a resource does nothing to it. *)

EffectsApart(g, S) ==
  \A e, f \in S :
    LET a == g.effect[e.task]  b == g.effect[f.task]
    IN (/\ e # f /\ a.resource # "none" /\ a.resource = b.resource
        /\ a.kind # "pure" /\ b.kind # "pure"
        /\ e.start < f.end /\ f.start < e.end)
       => ~Writes(a.kind) /\ ~Writes(b.kind)

\* What runs leaves t's resource to t.
LeavesTo(g, run, t) ==
  LET a == g.effect[t]
  IN (a.resource # "none" /\ a.kind # "pure") =>
       \A i \in DOMAIN run :
         LET b == g.effect[run[i].task]
         IN b.resource = a.resource => ~Writes(a.kind) /\ ~Writes(b.kind)

\* A task that starts when its resource is left to it conflicts with no other.
LEMMA EffectsGrow ==
  ASSUME NEW g, NEW env, NEW S, NEW now \in Nat, Books(g, env, S, now, "planning"),
         NEW run, Runs(g, S, run), EffectsApart(g, S),
         NEW n, n.start = now, LeavesTo(g, run, n.task)
  PROVE  EffectsApart(g, S \cup {n})
<1> DEFINE T == S \cup {n}
           Clash(e, f) == LET a == g.effect[e.task]  b == g.effect[f.task]
                          IN /\ e # f /\ a.resource # "none" /\ a.resource = b.resource
                             /\ a.kind # "pure" /\ b.kind # "pure"
                             /\ e.start < f.end /\ f.start < e.end
           Quiet(e, f) == ~Writes(g.effect[e.task].kind) /\ ~Writes(g.effect[f.task].kind)
<1>1. \A e \in S : e.start \in Nat /\ e.end \in Nat /\ e.start <= now
  BY DEF Books, Booked, Timed
<1>2. ASSUME NEW f \in S, Clash(n, f) PROVE Quiet(n, f)
  <2>1. f \in Live(S, now)
    BY <1>1, <1>2 DEF Live
  <2>2. f.outcome = "running"
    BY <2>1, LiveAreRunning
  <2>3. PICK i \in DOMAIN run : run[i].task = f.task
    BY <2>2 DEF Runs
  <2> QED
    BY <1>2, <2>3 DEF LeavesTo
<1>3. ASSUME NEW e \in T, NEW f \in T, Clash(e, f) PROVE Quiet(e, f)
  <2>1. CASE e \in S /\ f \in S
    BY <1>3, <2>1 DEF EffectsApart
  <2>2. CASE e = n /\ f \in S
    BY <1>2, <1>3, <2>2
  <2>3. CASE e \in S /\ f = n
    <3>1. Clash(n, e)
      BY <1>3, <2>3
    <3> QED
      BY <1>2, <2>3, <3>1
  <2>4. CASE e = n /\ f = n
    BY <1>3, <2>4
  <2> QED
    BY <2>1, <2>2, <2>3, <2>4
<1> QED
  BY <1>3 DEF EffectsApart

\* Entries that end no later than planned conflict no more than before.
LEMMA EffectsEnd ==
  ASSUME NEW g, NEW S, EntrySet(S), EffectsApart(g, S), NEW D, NEW o, NEW x \in Int,
         \A e \in S : e.start \in Int /\ e.end \in Int /\ (e.task \in D => x <= e.end)
  PROVE  EffectsApart(g, EndAll(S, D, o, x))
<1> DEFINE T == EndAll(S, D, o, x)
<1>1. ASSUME NEW f \in T
      PROVE  \E e \in S : /\ f = Ended(e, D, o, x) /\ f.task = e.task /\ f.start = e.start
                          /\ f.end \in Int /\ f.end <= e.end
  <2>1. PICK e \in S : f = Ended(e, D, o, x)
    BY EndingPairs
  <2>2. DOMAIN e = Fields
    BY DEF EntrySet
  <2>3. /\ f.task = e.task /\ f.start = e.start
        /\ e.task \in D => f.end = x
        /\ e.task \notin D => f = e
    BY <2>1, <2>2, EndedEntry
  <2>4. f.end \in Int /\ f.end <= e.end
    BY <2>3
  <2> QED
    BY <2>1, <2>3, <2>4
<1>2. SUFFICES ASSUME NEW f \in T, NEW h \in T, f # h, g.effect[f.task].resource # "none",
                      g.effect[f.task].resource = g.effect[h.task].resource,
                      g.effect[f.task].kind # "pure", g.effect[h.task].kind # "pure",
                      f.start < h.end, h.start < f.end
               PROVE  ~Writes(g.effect[f.task].kind) /\ ~Writes(g.effect[h.task].kind)
  BY DEF EffectsApart
<1> HIDE DEF T
<1>3. PICK c \in S : f = Ended(c, D, o, x) /\ f.task = c.task /\ f.start = c.start /\ f.end \in Int /\ f.end <= c.end
  BY <1>1
<1>4. PICK d \in S : h = Ended(d, D, o, x) /\ h.task = d.task /\ h.start = d.start /\ h.end \in Int /\ h.end <= d.end
  BY <1>1
<1>5. c # d
  BY <1>2, <1>3, <1>4
<1>6. c.start < d.end /\ d.start < c.end
  BY <1>2, <1>3, <1>4
<1> QED
  BY <1>2, <1>3, <1>4, <1>5, <1>6 DEF EffectsApart

-----------------------------------------------------------------------------
(* Accounts: what is used is what the entries took. *)

AccountsKept(env, S, us, ri) ==
  /\ us = [u \in Units |-> SumOver(S, [e \in S |-> e.use[u]])]
  /\ ri = SumOver(S, [e \in S |-> e.risk])
  /\ us \in [Units -> Int] /\ ri \in Int
  /\ Within(us, env.caps) /\ ri <= env.risk

\* The demands of an entry are those of a profile.
LEMMA BookedNumbers ==
  ASSUME NEW g, GraphShape(g), ValidGraph(g), NEW env, NEW e, Booked(g, env, e)
  PROVE  e.risk \in Int /\ e.use \in [Units -> Int] /\ \A u \in Units : e.use[u] \in Int
<1>1. e.task \in g.tasks
  BY DEF Booked
<1>2. PICK p \in Qualified(g, e.task) : p.use = e.use /\ p.risk = e.risk
  BY DEF Booked
<1> QED
  BY <1>1, <1>2, QualifiedProfiles

\* A new entry adds its demand to what is used, and the rest stays.
LEMMA AccountsGrow ==
  ASSUME NEW env, NEW S, IsFiniteSet(S),
         \A e \in S : e.risk \in Int /\ \A u \in Units : e.use[u] \in Int,
         NEW us, NEW ri, AccountsKept(env, S, us, ri),
         NEW n, n \notin S, n.risk \in Int, n.use \in [Units -> Int],
         Within(Plus(us, n.use), env.caps), ri + n.risk <= env.risk
  PROVE  AccountsKept(env, S \cup {n}, Plus(us, n.use), ri + n.risk)
<1> DEFINE T == S \cup {n}
<1>1. ri + n.risk = SumOver(T, [e \in T |-> e.risk])
  <2> DEFINE f == [e \in T |-> e.risk]
             h == [e \in S |-> e.risk]
  <2>1. (\A e \in T : f[e] \in Int /\ f[e] = e.risk) /\ \A e \in S : f[e] = h[e]
    OBVIOUS
  <2>2. ri = SumOver(S, h)
    BY DEF AccountsKept
  <2> HIDE DEF f, h
  <2>3. SumFunctionOnSet(f, S \cup {n}) = f[n] + SumFunctionOnSet(f, S)
    BY <2>1, SumAdd
  <2>4. SumFunctionOnSet(f, S) = SumFunctionOnSet(h, S)
    BY <2>1, SumSame
  <2>5. ri \in Int /\ f[n] = n.risk
    BY <2>1 DEF AccountsKept
  <2>6. ri + n.risk = SumFunctionOnSet(f, T)
    BY <2>2, <2>3, <2>4, <2>5 DEF SumOver
  <2> QED
    BY <2>6 DEF f, SumOver
<1>2. ASSUME NEW u \in Units PROVE us[u] + n.use[u] = SumOver(T, [e \in T |-> e.use[u]])
  <2> DEFINE f == [e \in T |-> e.use[u]]
             h == [e \in S |-> e.use[u]]
  <2>1. (\A e \in T : f[e] \in Int /\ f[e] = e.use[u]) /\ \A e \in S : f[e] = h[e]
    OBVIOUS
  <2>2. us[u] = SumOver(S, h)
    BY DEF AccountsKept
  <2> HIDE DEF f, h
  <2>3. SumFunctionOnSet(f, S \cup {n}) = f[n] + SumFunctionOnSet(f, S)
    BY <2>1, SumAdd
  <2>4. SumFunctionOnSet(f, S) = SumFunctionOnSet(h, S)
    BY <2>1, SumSame
  <2>5. us[u] \in Int /\ f[n] = n.use[u] /\ n.use[u] \in Int
    BY <2>1 DEF AccountsKept
  <2>6. us[u] + n.use[u] = SumFunctionOnSet(f, T)
    BY <2>2, <2>3, <2>4, <2>5 DEF SumOver
  <2> QED
    BY <2>6 DEF f, SumOver
<1>3. Plus(us, n.use) = [u \in Units |-> SumOver(T, [e \in T |-> e.use[u]])]
  BY <1>2 DEF Plus
<1>4. Plus(us, n.use) \in [Units -> Int] /\ ri + n.risk \in Int
  BY DEF AccountsKept, Plus
<1> QED
  BY <1>1, <1>3, <1>4 DEF AccountsKept

\* Ending entries changes no account.
LEMMA AccountsEnd ==
  ASSUME NEW env, NEW S, EntrySet(S),
         \A e \in S : e.risk \in Int /\ \A u \in Units : e.use[u] \in Int,
         NEW us, NEW ri, AccountsKept(env, S, us, ri), NEW D, NEW o, NEW x
  PROVE  AccountsKept(env, EndAll(S, D, o, x), us, ri)
<1> DEFINE T == EndAll(S, D, o, x)
<1>1. /\ SumOver(T, [e \in T |-> e.risk]) = SumOver(S, [e \in S |-> e.risk])
      /\ \A u \in Units : SumOver(T, [e \in T |-> e.use[u]]) = SumOver(S, [e \in S |-> e.use[u]])
  BY EndingKeepsSums
<1> HIDE DEF T
<1>2. us = [u \in Units |-> SumOver(T, [e \in T |-> e.use[u]])] /\ ri = SumOver(T, [e \in T |-> e.risk])
  BY <1>1 DEF AccountsKept
<1>3. AccountsKept(env, T, us, ri)
  BY <1>2 DEF AccountsKept
<1> QED
  BY <1>3 DEF T

-----------------------------------------------------------------------------
(* What is skipped, and what a pass still has to look at. *)

SkipsSound(g, S, sk) ==
  /\ sk \in Seq(g.tasks) /\ Distinct(sk)
  /\ \A i \in DOMAIN sk : sk[i] \notin TasksOf(S) /\ sk[i] \notin MustFinish(g)

Passed(g, S, sk, ps) ==
  /\ ps \in Seq(g.tasks) /\ Distinct(ps)
  /\ \A i \in DOMAIN ps : /\ ps[i] \notin TasksOf(S) /\ ps[i] \notin ToSet(sk)
                          /\ g.deps[ps[i]] \subseteq DoneOf(S)

\* T's members, in this order.
Orders(o, T) == o \in Seq(T) /\ Distinct(o) /\ \A t \in T : \E i \in DOMAIN o : o[i] = t

\* A listing of a set is an order of it.
LEMMA EnumerationsOrder ==
  ASSUME NEW T, NEW o, Enumerates(o, T)
  PROVE  Orders(o, T)
BY DEF Enumerates, Orders, Distinct

\* Skipping tasks that have not started and need not finish keeps the skips sound.
LEMMA SkipsGrow ==
  ASSUME NEW g, NEW S, NEW sk, SkipsSound(g, S, sk), NEW T \in SUBSET g.tasks, NEW o, Orders(o, T),
         T \cap (TasksOf(S) \cup ToSet(sk) \cup MustFinish(g)) = {}
  PROVE  SkipsSound(g, S, sk \o o) /\ ToSet(sk \o o) = ToSet(sk) \cup T
<1> DEFINE m == sk \o o
           N == Len(sk)
<1>1. sk \in Seq(g.tasks) /\ o \in Seq(T) /\ o \in Seq(g.tasks)
  BY DEF SkipsSound, Orders
<1>2. /\ N \in Nat /\ Len(o) \in Nat /\ DOMAIN sk = 1..N /\ DOMAIN o = 1..Len(o)
      /\ m \in Seq(g.tasks) /\ DOMAIN m = 1..(N + Len(o))
      /\ \A i \in 1..(N + Len(o)) : m[i] = IF i <= N THEN sk[i] ELSE o[i - N]
  BY <1>1
<1>3. /\ \A i \in 1..N : m[i] = sk[i] /\ m[i] \in ToSet(sk) /\ i \in DOMAIN m
      /\ \A i \in (N + 1)..(N + Len(o)) : i - N \in 1..Len(o) /\ m[i] = o[i - N] /\ m[i] \in T
      /\ \A i \in 1..Len(o) : N + i \in DOMAIN m /\ m[N + i] = o[i]
      /\ \A i \in DOMAIN m : i \in 1..N \/ i \in (N + 1)..(N + Len(o))
  <2>1. \A i \in 1..N : m[i] = sk[i] /\ m[i] \in ToSet(sk) /\ i \in DOMAIN m
    BY <1>2 DEF ToSet
  <2>2. ASSUME NEW i \in (N + 1)..(N + Len(o))
        PROVE  i - N \in 1..Len(o) /\ m[i] = o[i - N] /\ m[i] \in T
    BY <1>1, <1>2
  <2>3. ASSUME NEW i \in 1..Len(o) PROVE N + i \in DOMAIN m /\ m[N + i] = o[i]
    <3>1. N + i \in 1..(N + Len(o)) /\ ~(N + i <= N) /\ N + i - N = i
      BY <1>2
    <3> QED
      BY <1>2, <3>1
  <2>4. \A i \in DOMAIN m : i \in 1..N \/ i \in (N + 1)..(N + Len(o))
    BY <1>2
  <2> QED
    BY <2>1, <2>2, <2>3, <2>4
<1> HIDE DEF m, N
<1>4. Distinct(m)
  <2> SUFFICES ASSUME NEW i \in DOMAIN m, NEW j \in DOMAIN m, m[i] = m[j] PROVE i = j
    BY DEF Distinct
  <2>1. CASE i \in 1..N /\ j \in 1..N
    BY <1>2, <1>3, <2>1 DEF SkipsSound, Distinct
  <2>2. CASE i \in (N + 1)..(N + Len(o)) /\ j \in (N + 1)..(N + Len(o))
    <3>1. i - N \in DOMAIN o /\ j - N \in DOMAIN o /\ o[i - N] = o[j - N]
      BY <1>2, <1>3, <2>2
    <3>2. \A k, l \in DOMAIN o : o[k] = o[l] => k = l
      BY DEF Orders, Distinct
    <3>3. i - N = j - N
      BY <3>1, <3>2
    <3> QED
      BY <1>2, <2>2, <3>3
  <2>3. CASE i \in 1..N /\ j \in (N + 1)..(N + Len(o))
    BY <1>3, <2>3
  <2>4. CASE j \in 1..N /\ i \in (N + 1)..(N + Len(o))
    BY <1>3, <2>4
  <2> QED
    BY <1>3, <2>1, <2>2, <2>3, <2>4
<1>5. \A i \in DOMAIN m : m[i] \notin TasksOf(S) /\ m[i] \notin MustFinish(g)
  BY <1>2, <1>3 DEF SkipsSound
<1>6. ToSet(m) = ToSet(sk) \cup T
  <2>1. ASSUME NEW i \in DOMAIN m PROVE m[i] \in ToSet(sk) \cup T
    BY <1>3
  <2>2. ASSUME NEW i \in DOMAIN sk PROVE \E j \in DOMAIN m : m[j] = sk[i]
    BY <1>2, <1>3
  <2>3. ASSUME NEW t \in T PROVE \E j \in DOMAIN m : m[j] = t
    <3>1. PICK i \in DOMAIN o : o[i] = t
      BY DEF Orders
    <3> QED
      BY <1>2, <1>3, <3>1
  <2> QED
    BY <2>1, <2>2, <2>3 DEF ToSet
<1> QED
  BY <1>2, <1>4, <1>5, <1>6 DEF SkipsSound, m

\* What is left of a pass, whatever became of its first task.
LEMMA PassMoves ==
  ASSUME NEW g, NEW S, NEW sk, NEW ps, Passed(g, S, sk, ps), ps # <<>>,
         NEW T, NEW sl, TasksOf(T) \subseteq TasksOf(S) \cup {Head(ps)}, DoneOf(S) \subseteq DoneOf(T),
         ToSet(sl) \subseteq ToSet(sk) \cup {Head(ps)}
  PROVE  Passed(g, T, sl, Tail(ps)) /\ Head(ps) \in g.tasks
<1>1. /\ ps \in Seq(g.tasks) /\ Len(ps) \in Nat /\ Len(ps) >= 1 /\ DOMAIN ps = 1..Len(ps)
      /\ Head(ps) = ps[1] /\ ps[1] \in g.tasks
      /\ Tail(ps) \in Seq(g.tasks) /\ DOMAIN Tail(ps) = 1..(Len(ps) - 1)
      /\ \A i \in 1..(Len(ps) - 1) : Tail(ps)[i] = ps[i + 1]
  <2>1. ps \in Seq(g.tasks)
    BY DEF Passed
  <2> QED
    BY <2>1
<1>2. \A i \in 1..(Len(ps) - 1) : i + 1 \in DOMAIN ps /\ i + 1 # 1 /\ 1 \in DOMAIN ps
  BY <1>1
<1>3. ASSUME NEW i \in DOMAIN Tail(ps)
      PROVE  /\ Tail(ps)[i] \notin TasksOf(T) /\ Tail(ps)[i] \notin ToSet(sl)
             /\ g.deps[Tail(ps)[i]] \subseteq DoneOf(T)
  <2>1. ps[i + 1] # Head(ps)
    BY <1>1, <1>2 DEF Passed, Distinct
  <2> QED
    BY <1>1, <1>2, <2>1 DEF Passed
<1>4. Distinct(Tail(ps))
  <2> SUFFICES ASSUME NEW i \in DOMAIN Tail(ps), NEW j \in DOMAIN Tail(ps), Tail(ps)[i] = Tail(ps)[j] PROVE i = j
    BY DEF Distinct
  <2>1. i + 1 = j + 1 /\ i \in Int /\ j \in Int
    BY <1>1, <1>2 DEF Passed, Distinct
  <2> QED
    BY <2>1
<1> QED
  BY <1>1, <1>3, <1>4 DEF Passed

-----------------------------------------------------------------------------
(* The log tells every life: of an entry e, of a task without one, of the run. *)

\* e was selected and started, and it ended if it ended.
LifeTold(l, e) ==
  \E i, j \in DOMAIN l :
    /\ Told(l, e.task, "selected") = {i} /\ Told(l, e.task, "started") = {j} /\ i < j
    /\ l[j].time = e.start /\ Told(l, e.task, "skipped") = {}
    /\ \/ /\ e.outcome = "running"
          /\ Told(l, e.task, "completed") = {} /\ Told(l, e.task, "cancelled") = {}
       \/ /\ e.outcome \in Outcomes
          /\ \E k \in DOMAIN l :
               /\ j < k /\ Told(l, e.task, "completed") \cup Told(l, e.task, "cancelled") = {k}
               /\ l[k].type = e.outcome /\ l[k].time = e.end

\* t has done nothing, and was skipped once or never.
IdleTold(l, t, sk) ==
  /\ \A type \in TaskEvents \ {"skipped"} : Told(l, t, type) = {}
  /\ IF t \in ToSet(sk) THEN \E k \in DOMAIN l : Told(l, t, "skipped") = {k}
     ELSE Told(l, t, "skipped") = {}

RunTold(l, now, ph) ==
  /\ ph = "planning" => ToldOfRun(l, "run.completed") = {} /\ ToldOfRun(l, "run.failed") = {}
  /\ ph # "planning" => l[Len(l)].time = now
  /\ ph = "completed" => ToldOfRun(l, "run.completed") = {Len(l)} /\ ToldOfRun(l, "run.failed") = {}
  /\ ph = "failed" => ToldOfRun(l, "run.failed") = {Len(l)} /\ ToldOfRun(l, "run.completed") = {}

Logged(g, l, S, sk, now, ph) ==
  /\ LogShape(g, l, now) /\ RunTold(l, now, ph)
  /\ \A e \in S : LifeTold(l, e)
  /\ \A t \in g.tasks : t \notin TasksOf(S) => IdleTold(l, t, sk)

\* What a longer log tells of a task the new events are not about.
LEMMA OthersStay ==
  ASSUME NEW l, NEW m, NEW T, NEW x, NEW type, Extends(l, m, T, x, type)
  PROVE  /\ \A e : e.task \notin T /\ LifeTold(l, e) => LifeTold(m, e)
         /\ \A t, sk : t \notin T /\ IdleTold(l, t, sk) => IdleTold(m, t, sk)
<1>1. /\ \A i \in DOMAIN l : i \in DOMAIN m /\ m[i] = l[i]
      /\ \A t, y : t \notin T => Told(m, t, y) = Told(l, t, y)
  BY DEF Extends
<1>2. ASSUME NEW e, e.task \notin T, LifeTold(l, e) PROVE LifeTold(m, e)
  <2>1. PICK i, j \in DOMAIN l :
          /\ Told(l, e.task, "selected") = {i} /\ Told(l, e.task, "started") = {j} /\ i < j
          /\ l[j].time = e.start /\ Told(l, e.task, "skipped") = {}
          /\ \/ /\ e.outcome = "running"
                /\ Told(l, e.task, "completed") = {} /\ Told(l, e.task, "cancelled") = {}
             \/ /\ e.outcome \in Outcomes
                /\ \E k \in DOMAIN l :
                     /\ j < k /\ Told(l, e.task, "completed") \cup Told(l, e.task, "cancelled") = {k}
                     /\ l[k].type = e.outcome /\ l[k].time = e.end
    BY <1>2 DEF LifeTold
  <2>2. /\ i \in DOMAIN m /\ j \in DOMAIN m /\ m[j].time = e.start
        /\ \A y : Told(m, e.task, y) = Told(l, e.task, y)
    BY <1>1, <1>2, <2>1
  <2>3. CASE e.outcome = "running" /\ Told(l, e.task, "completed") = {} /\ Told(l, e.task, "cancelled") = {}
    BY <2>1, <2>2, <2>3 DEF LifeTold
  <2>4. CASE /\ e.outcome \in Outcomes
             /\ \E k \in DOMAIN l :
                  /\ j < k /\ Told(l, e.task, "completed") \cup Told(l, e.task, "cancelled") = {k}
                  /\ l[k].type = e.outcome /\ l[k].time = e.end
    <3>1. PICK k \in DOMAIN l :
                  /\ j < k /\ Told(l, e.task, "completed") \cup Told(l, e.task, "cancelled") = {k}
                  /\ l[k].type = e.outcome /\ l[k].time = e.end
      BY <2>4
    <3>2. k \in DOMAIN m /\ m[k] = l[k]
      BY <1>1
    <3> QED
      BY <2>1, <2>2, <2>4, <3>1, <3>2 DEF LifeTold
  <2> QED
    BY <2>1, <2>3, <2>4
<1>3. ASSUME NEW t, NEW sk, t \notin T, IdleTold(l, t, sk) PROVE IdleTold(m, t, sk)
  BY <1>1, <1>3 DEF IdleTold
<1> QED
  BY <1>2, <1>3

\* The run goes on, or ends with its last event.
LEMMA RunGoesOn ==
  ASSUME NEW g, NEW l, NEW now \in Nat, LogShape(g, l, now), RunTold(l, now, "planning"),
         NEW x \in Nat, now <= x, NEW T \in SUBSET g.tasks, NEW o \in Seq(T), NEW type \in TaskEvents
  PROVE  LogShape(g, l \o Batch(o, x, type), x) /\ RunTold(l \o Batch(o, x, type), x, "planning")
<1>1. type \notin RunEvents /\ "run.completed" \in RunEvents /\ "run.failed" \in RunEvents
  BY DEF TaskEvents, RunEvents
<1>2. /\ LogShape(g, l \o Batch(o, x, type), x)
      /\ \A y \in RunEvents \ {type} : ToldOfRun(l \o Batch(o, x, type), y) = ToldOfRun(l, y)
  BY BatchKeepsShape
<1> QED
  BY <1>1, <1>2 DEF RunTold

\* Two events, one after the other.
LEMMA TwoJoin ==
  ASSUME NEW c, NEW d
  PROVE  <<c>> \o <<d>> = <<c, d>>
<1> DEFINE u == <<c>> \o <<d>>
           v == <<c, d>>
           W == {c, d}
<1>1. u \in Seq(W) /\ v \in Seq(W) /\ Len(u) = 2 /\ Len(v) = 2
  OBVIOUS
<1>2. u[1] = c /\ u[2] = d /\ v[1] = c /\ v[2] = d
  OBVIOUS
<1> HIDE DEF u, v
<1>3. u = v
  BY <1>1, <1>2, SeqEqual
<1> QED
  BY <1>3 DEF u, v

\* A task starts.
LEMMA LogStarts ==
  ASSUME NEW g, NEW l, NEW S, NEW sk, NEW now \in Nat, Logged(g, l, S, sk, now, "planning"),
         NEW t \in g.tasks, t \notin TasksOf(S), t \notin ToSet(sk),
         NEW n, n.task = t, n.start = now, n.outcome = "running"
  PROVE  Logged(g, l \o <<[time |-> now, type |-> "selected", task |-> t],
                          [time |-> now, type |-> "started", task |-> t]>>,
                S \cup {n}, sk, now, "planning")
<1> DEFINE o == <<t>>
           b == l \o Batch(o, now, "selected")
           m == b \o Batch(o, now, "started")
           V == Happenings(g)
<1>1. o \in Seq({t}) /\ Distinct(o) /\ DOMAIN o = {1} /\ (\A c \in {t} : \E i \in DOMAIN o : o[i] = c) /\ {t} \in SUBSET g.tasks
  BY DEF Distinct
<1>2. "selected" \in TaskEvents /\ "started" \in TaskEvents /\ "skipped" \in TaskEvents
      /\ "completed" \in TaskEvents /\ "cancelled" \in TaskEvents
  BY DEF TaskEvents
<1>3. m = l \o <<[time |-> now, type |-> "selected", task |-> t], [time |-> now, type |-> "started", task |-> t]>>
  <2> DEFINE c == [time |-> now, type |-> "selected", task |-> t]
             d == [time |-> now, type |-> "started", task |-> t]
  <2>1. Batch(o, now, "selected") = <<c>>
    BY DEF Batch
  <2>4. Batch(o, now, "started") = <<d>>
    BY DEF Batch
  <2>2. l \in Seq(V) /\ c \in V /\ d \in V
    BY <1>2 DEF Logged, LogShape, Happenings
  <2> HIDE DEF c, d, V, o
  <2>3. (l \o <<c>>) \o <<d>> = l \o <<c, d>>
    <3>1. <<c>> \in Seq(V) /\ <<d>> \in Seq(V)
      BY <2>2
    <3>2. (l \o <<c>>) \o <<d>> = l \o (<<c>> \o <<d>>)
      BY <2>2, <3>1, ConcatAssociative
    <3>3. <<c>> \o <<d>> = <<c, d>>
      BY TwoJoin
    <3> QED
      BY <3>2, <3>3
  <2> QED
    BY <2>1, <2>3, <2>4 DEF c, d
<1> HIDE DEF o
<1>4. LogShape(g, l, now) /\ RunTold(l, now, "planning")
  BY DEF Logged
<1>5. LogShape(g, b, now) /\ RunTold(b, now, "planning")
  BY <1>1, <1>2, <1>4, RunGoesOn
<1>6. Extends(l, b, {t}, now, "selected")
  <2>1. l \in Seq(V)
    BY <1>4 DEF LogShape
  <2> QED
    BY <1>1, <2>1, BatchExtends
<1>7. LogShape(g, m, now) /\ RunTold(m, now, "planning")
  <2> HIDE DEF b
  <2> QED
    BY <1>1, <1>2, <1>5, RunGoesOn
<1>8. Extends(b, m, {t}, now, "started")
  <2>1. b \in Seq(V)
    BY <1>5 DEF LogShape
  <2> HIDE DEF b
  <2> QED
    BY <1>1, <2>1, BatchExtends
<1>9. Len(b) = Len(l) + 1 /\ Len(l) \in Nat /\ DOMAIN b = 1..Len(b)
  <2>1. l \in Seq(V) /\ b \in Seq(V)
    BY <1>4, <1>5 DEF LogShape
  <2>2. Len(b) = Len(l) + Len(o)
    BY <1>1, <2>1, BatchExtends
  <2>3. Len(o) = 1
    BY DEF o
  <2> HIDE DEF b
  <2> QED
    BY <2>1, <2>2, <2>3
<1> HIDE DEF b, m
<1>10. LifeTold(m, n)
  <2>1. IdleTold(l, t, sk)
    BY DEF Logged
  <2>2. \A y \in TaskEvents : Told(l, t, y) = {}
    BY <2>1 DEF IdleTold
  <2>3. PICK i \in DOMAIN b : i > Len(l) /\ Told(b, t, "selected") = Told(l, t, "selected") \cup {i}
    BY <1>6 DEF Extends
  <2>4. PICK j \in DOMAIN m : j > Len(b) /\ m[j].time = now /\ Told(m, t, "started") = Told(b, t, "started") \cup {j}
    BY <1>8 DEF Extends
  <2>5. /\ \A y : y # "selected" => Told(b, t, y) = Told(l, t, y)
        /\ \A y : y # "started" => Told(m, t, y) = Told(b, t, y)
        /\ i \in DOMAIN m
    BY <1>6, <1>8 DEF Extends
  <2>6. Told(m, t, "selected") = {i}
    BY <1>2, <2>2, <2>3, <2>5
  <2>7. Told(m, t, "started") = {j}
    BY <1>2, <2>2, <2>4, <2>5
  <2>8. Told(m, t, "skipped") = {} /\ Told(m, t, "completed") = {} /\ Told(m, t, "cancelled") = {}
    BY <1>2, <2>2, <2>5
  <2>9. i < j
    <3>1. m \in Seq(V)
      BY <1>7 DEF LogShape
    <3>2. i \in Int /\ j \in Int
      BY <1>9, <2>3, <2>4, <3>1
    <3> QED
      BY <1>9, <2>3, <2>4, <3>2
  <2> QED
    BY <2>4, <2>5, <2>6, <2>7, <2>8, <2>9 DEF LifeTold
<1>11. ASSUME NEW e \in S PROVE LifeTold(m, e)
  <2>1. e.task \notin {t} /\ LifeTold(l, e)
    BY DEF Logged, TasksOf
  <2>2. LifeTold(b, e)
    BY <1>6, <2>1, OthersStay
  <2> QED
    BY <1>8, <2>1, <2>2, OthersStay
<1>12. ASSUME NEW c \in g.tasks, c \notin TasksOf(S \cup {n}) PROVE IdleTold(m, c, sk)
  <2>1. c \notin {t} /\ c \notin TasksOf(S)
    BY <1>12 DEF TasksOf
  <2>2. IdleTold(l, c, sk)
    BY <2>1 DEF Logged
  <2>3. IdleTold(b, c, sk)
    BY <1>6, <2>1, <2>2, OthersStay
  <2> QED
    BY <1>8, <2>1, <2>3, OthersStay
<1>13. Logged(g, m, S \cup {n}, sk, now, "planning")
  BY <1>7, <1>10, <1>11, <1>12 DEF Logged
<1> QED
  BY <1>3, <1>13

\* The tasks in T are skipped.
LEMMA LogSkips ==
  ASSUME NEW g, NEW l, NEW S, NEW sk, NEW now \in Nat, Logged(g, l, S, sk, now, "planning"),
         NEW T \in SUBSET g.tasks, NEW o, Orders(o, T), T \cap (TasksOf(S) \cup ToSet(sk)) = {},
         NEW sl, ToSet(sl) = ToSet(sk) \cup T
  PROVE  Logged(g, l \o Batch(o, now, "skipped"), S, sl, now, "planning")
<1> DEFINE m == l \o Batch(o, now, "skipped")
<1>1. o \in Seq(T) /\ Distinct(o) /\ (\A c \in T : \E i \in DOMAIN o : o[i] = c) /\ "skipped" \in TaskEvents
  BY DEF Orders, TaskEvents
<1>2. LogShape(g, l, now) /\ RunTold(l, now, "planning") /\ l \in Seq(Happenings(g))
  BY DEF Logged, LogShape
<1>3. LogShape(g, m, now) /\ RunTold(m, now, "planning")
  BY <1>1, <1>2, RunGoesOn
<1>4. Extends(l, m, T, now, "skipped")
  BY <1>1, <1>2, BatchExtends
<1> HIDE DEF m
<1>5. ASSUME NEW e \in S PROVE LifeTold(m, e)
  <2>1. e.task \notin T /\ LifeTold(l, e)
    BY DEF Logged, TasksOf
  <2> QED
    BY <1>4, <2>1, OthersStay
<1>6. ASSUME NEW t \in g.tasks, t \notin TasksOf(S) PROVE IdleTold(m, t, sl)
  <2>1. IdleTold(l, t, sk)
    BY <1>6 DEF Logged
  <2>2. CASE t \notin T
    <3>1. IdleTold(m, t, sk)
      BY <1>4, <2>1, <2>2, OthersStay
    <3> QED
      BY <2>2, <3>1 DEF IdleTold
  <2>3. CASE t \in T
    <3>1. /\ \A type \in TaskEvents \ {"skipped"} : Told(m, t, type) = {}
      BY <1>4, <2>1 DEF IdleTold, Extends
    <3>2. Told(l, t, "skipped") = {}
      BY <2>1, <2>3 DEF IdleTold
    <3>3. PICK k \in DOMAIN m : Told(m, t, "skipped") = Told(l, t, "skipped") \cup {k}
      BY <1>4, <2>3 DEF Extends
    <3> QED
      BY <2>3, <3>1, <3>2, <3>3 DEF IdleTold
  <2> QED
    BY <2>2, <2>3
<1> QED
  BY <1>3, <1>5, <1>6 DEF Logged, m

\* Running tasks end.
LEMMA LogEnds ==
  ASSUME NEW g, NEW l, NEW S, EntrySet(S), NEW sk, NEW now \in Nat, Logged(g, l, S, sk, now, "planning"),
         NEW x \in Nat, now <= x, NEW outcome \in Outcomes,
         NEW D \in SUBSET g.tasks, D \subseteq TasksOf(S), NEW o, Orders(o, D),
         \A e \in S : e.task \in D => e.outcome = "running"
  PROVE  Logged(g, l \o Batch(o, x, outcome), EndAll(S, D, outcome, x), sk, x, "planning")
<1> DEFINE m == l \o Batch(o, x, outcome)
           T == EndAll(S, D, outcome, x)
<1>1. o \in Seq(D) /\ Distinct(o) /\ (\A c \in D : \E i \in DOMAIN o : o[i] = c) /\ outcome \in TaskEvents
  BY DEF Orders, TaskEvents, Outcomes
<1>2. LogShape(g, l, now) /\ RunTold(l, now, "planning") /\ l \in Seq(Happenings(g))
  BY DEF Logged, LogShape
<1>3. LogShape(g, m, x) /\ RunTold(m, x, "planning")
  BY <1>1, <1>2, RunGoesOn
<1>4. Extends(l, m, D, x, outcome)
  BY <1>1, <1>2, BatchExtends
<1>5. TasksOf(T) = TasksOf(S)
  BY EndingGives
<1> HIDE DEF m
<1>6. ASSUME NEW f \in T PROVE LifeTold(m, f)
  <2>1. PICK e \in S : f = Ended(e, D, outcome, x)
    BY EndingPairs
  <2>2. DOMAIN e = Fields
    BY DEF EntrySet
  <2>3. /\ f.task = e.task /\ f.start = e.start
        /\ e.task \in D => f.outcome = outcome /\ f.end = x
        /\ e.task \notin D => f = e
    BY <2>1, <2>2, EndedEntry
  <2>4. LifeTold(l, e)
    BY DEF Logged
  <2>5. CASE e.task \notin D
    BY <1>4, <2>3, <2>4, <2>5, OthersStay
  <2>6. CASE e.task \in D
    <3> DEFINE t == e.task
    <3>1. e.outcome = "running" /\ e.outcome \notin Outcomes
      BY <2>6 DEF Outcomes
    <3>2. PICK i, j \in DOMAIN l :
            /\ Told(l, t, "selected") = {i} /\ Told(l, t, "started") = {j} /\ i < j
            /\ l[j].time = e.start /\ Told(l, t, "skipped") = {}
            /\ Told(l, t, "completed") = {} /\ Told(l, t, "cancelled") = {}
      BY <2>4, <3>1 DEF LifeTold
    <3>3. PICK k \in DOMAIN m : /\ k > Len(l) /\ m[k] = [time |-> x, type |-> outcome, task |-> t]
                                /\ Told(m, t, outcome) = Told(l, t, outcome) \cup {k}
      BY <1>4, <2>6 DEF Extends
    <3>4. /\ i \in DOMAIN m /\ j \in DOMAIN m /\ m[j] = l[j]
          /\ \A y : y # outcome => Told(m, t, y) = Told(l, t, y)
      BY <1>4 DEF Extends
    <3>5. Told(m, t, "completed") \cup Told(m, t, "cancelled") = {k}
      BY <3>2, <3>3, <3>4 DEF Outcomes
    <3>6. j < k
      <4>1. DOMAIN l = 1..Len(l) /\ Len(l) \in Nat /\ m \in Seq(Happenings(g))
        BY <1>2, <1>3 DEF LogShape
      <4>2. k \in Int /\ j \in Int /\ j <= Len(l)
        BY <3>3, <4>1
      <4> QED
        BY <3>3, <4>1, <4>2
    <3>7. outcome # "selected" /\ outcome # "started" /\ outcome # "skipped"
      BY DEF Outcomes
    <3>8. /\ Told(m, f.task, "selected") = {i} /\ Told(m, f.task, "started") = {j} /\ i < j
          /\ m[j].time = f.start /\ Told(m, f.task, "skipped") = {}
      BY <2>3, <3>2, <3>4, <3>7
    <3>9. /\ f.outcome \in Outcomes /\ j < k
          /\ Told(m, f.task, "completed") \cup Told(m, f.task, "cancelled") = {k}
          /\ m[k].type = f.outcome /\ m[k].time = f.end
      BY <2>3, <2>6, <3>3, <3>5, <3>6
    <3> QED
      BY <3>3, <3>4, <3>8, <3>9 DEF LifeTold
  <2> QED
    BY <2>5, <2>6
<1>7. ASSUME NEW t \in g.tasks, t \notin TasksOf(T) PROVE IdleTold(m, t, sk)
  <2>1. t \notin TasksOf(S)
    BY <1>5, <1>7
  <2>2. IdleTold(l, t, sk)
    BY <2>1 DEF Logged
  <2>3. CASE t \notin D
    BY <1>4, <2>2, <2>3, OthersStay
  <2>4. CASE t \in D
    BY <2>1, <2>4
  <2> QED
    BY <2>3, <2>4
<1> QED
  BY <1>3, <1>6, <1>7 DEF Logged, m

\* The run ends.
LEMMA LogCloses ==
  ASSUME NEW g, NoTask \notin g.tasks, NEW l, NEW S, \A e \in S : e.task \in g.tasks, NEW sk, NEW now \in Nat,
         Logged(g, l, S, sk, now, "planning"), NEW ph, NEW type,
         \/ ph = "completed" /\ type = "run.completed"
         \/ ph = "failed" /\ type = "run.failed"
  PROVE  Logged(g, l \o <<[time |-> now, type |-> type, task |-> NoTask]>>, S, sk, now, ph)
<1> DEFINE o == <<NoTask>>
           r == [time |-> now, type |-> type, task |-> NoTask]
           m == l \o Batch(o, now, type)
<1>1. o \in Seq({NoTask}) /\ Distinct(o) /\ (\A c \in {NoTask} : \E i \in DOMAIN o : o[i] = c) /\ Len(o) = 1
  BY DEF Distinct
<1>2. Batch(o, now, type) = <<r>>
  BY DEF Batch
<1>3. LogShape(g, l, now) /\ RunTold(l, now, "planning") /\ l \in Seq(Happenings(g))
  BY DEF Logged, LogShape
<1>4. type \in RunEvents \ {"run.started"}
  BY DEF RunEvents
<1> HIDE DEF o
<1>5. /\ LogShape(g, m, now)
      /\ \A y \in RunEvents \ {type} : ToldOfRun(m, y) = ToldOfRun(l, y)
  BY <1>1, <1>3, <1>4, BatchKeepsShape
<1>6. Extends(l, m, {NoTask}, now, type)
  BY <1>1, <1>3, BatchExtends
<1>7. m = l \o <<r>>
  BY <1>2
<1> HIDE DEF m, r
<1>8. /\ Len(l) \in Nat /\ DOMAIN m = 1..(Len(l) + 1) /\ DOMAIN l = 1..Len(l) /\ m[Len(l) + 1] = r /\ Len(m) = Len(l) + 1
      /\ \A i \in 1..Len(l) : m[i] = l[i]
  <2>1. l \in Seq(Happenings(g) \cup {r})
    BY <1>3
  <2> QED
    BY <1>7, <2>1
<1>9. ToldOfRun(m, type) = {Len(m)}
  <2>1. ToldOfRun(l, type) = {}
    BY <1>3 DEF RunTold
  <2>2. \A i \in DOMAIN l : l[i].type # type
    BY <2>1 DEF ToldOfRun
  <2>3. r.type = type
    BY DEF r
  <2> QED
    BY <1>8, <2>2, <2>3 DEF ToldOfRun
<1>10. RunTold(m, now, ph)
  <2>1. m[Len(m)].time = now
    BY <1>8 DEF r
  <2> QED
    BY <1>3, <1>5, <1>9, <2>1 DEF RunTold, RunEvents
<1>11. ASSUME NEW e \in S PROVE LifeTold(m, e)
  <2>1. e.task \notin {NoTask} /\ LifeTold(l, e)
    BY DEF Logged
  <2> QED
    BY <1>6, <2>1, OthersStay
<1>12. ASSUME NEW t \in g.tasks, t \notin TasksOf(S) PROVE IdleTold(m, t, sk)
  <2>1. t \notin {NoTask} /\ IdleTold(l, t, sk)
    BY <1>12 DEF Logged
  <2> QED
    BY <1>6, <2>1, OthersStay
<1>13. Logged(g, m, S, sk, now, ph)
  BY <1>5, <1>10, <1>11, <1>12 DEF Logged
<1> QED
  BY <1>7, <1>13 DEF r

-----------------------------------------------------------------------------
(* The invariant of a schedule. *)

Affordable(g, env, S, us, ri) ==
  S # {} =>
    \E f \in JointPlans(g, MustFinish(g) \ TasksOf(S)) :
      /\ Within(Plus(us, UseOf(f, MustFinish(g) \ TasksOf(S))), env.caps)
      /\ ri + RiskOf(f, MustFinish(g) \ TasksOf(S)) <= env.risk

SInv ==
  /\ GoodPlan(plan)
  /\ phase \in {"planning", "completed", "failed"} /\ time \in Nat /\ time <= E.deadline
  /\ Books(G, E, entries, time, phase)
  /\ Runs(G, entries, running)
  /\ SlotsKept(E, entries)
  /\ EffectsApart(G, entries)
  /\ AccountsKept(E, entries, used, risk)
  /\ SkipsSound(G, entries, skipped)
  /\ phase = "planning" => Passed(G, entries, skipped, pass)
  /\ opened \in BOOLEAN /\ (phase = "planning" /\ ~opened => pass = <<>>)
  /\ Logged(G, log, entries, skipped, time, phase)
  /\ Affordable(G, E, entries, used, risk)
  /\ phase = "completed" => DoneOf(entries) \cup ToSet(skipped) = G.tasks

-----------------------------------------------------------------------------
(* Each step keeps the invariant. *)

\* The invariant holds of a good plan about to be scheduled.
LEMMA FreshKeeps ==
  ASSUME GoodPlan(plan), Fresh
  PROVE  SInv
<1>1. GraphShape(G) /\ ValidGraph(G) /\ EnvelopeShape(E) /\ ValidEnvelope(E)
  BY DEF GoodPlan, G, E
<1>2. /\ phase = "planning" /\ time = 0 /\ pass = <<>> /\ opened = FALSE
      /\ running = <<>> /\ entries = {} /\ skipped = <<>> /\ used = Zero /\ risk = 0
      /\ log = <<[time |-> 0, type |-> "run.started", task |-> NoTask]>>
  BY DEF Fresh
<1>3. Books(G, E, {}, 0, "planning")
  BY FS_EmptySet DEF Books, EntrySet
<1>4. Runs(G, {}, <<>>)
  BY DEF Runs
<1>5. SlotsKept(E, {})
  <2> SUFFICES ASSUME NEW s \in Nat PROVE Cardinality(Live({}, s)) <= E.parallelism
    BY DEF SlotsKept
  <2>1. Live({}, s) = {}
    BY DEF Live
  <2>2. Cardinality(Live({}, s)) = 0
    BY <2>1, FS_EmptySet
  <2>3. E.parallelism \in Nat
    BY <1>1, SlotsArePositive
  <2> QED
    BY <2>2, <2>3
<1>6. EffectsApart(G, {})
  BY DEF EffectsApart
<1>7. AccountsKept(E, {}, Zero, 0)
  <2>1. SumOver({}, [e \in {} |-> e.risk]) = 0 /\ \A u \in Units : SumOver({}, [e \in {} |-> e.use[u]]) = 0
    BY SumEmpty DEF SumOver
  <2>2. Zero = [u \in Units |-> SumOver({}, [e \in {} |-> e.use[u]])] /\ Zero \in [Units -> Int]
    BY <2>1 DEF Zero
  <2>3. Within(Zero, E.caps) /\ 0 <= E.risk
    BY <1>1 DEF Within, Zero, ValidEnvelope, EnvelopeShape
  <2> QED
    BY <2>1, <2>2, <2>3 DEF AccountsKept
<1>8. SkipsSound(G, {}, <<>>) /\ Passed(G, {}, <<>>, <<>>)
  BY DEF SkipsSound, Passed, Distinct
<1>9. Logged(G, <<[time |-> 0, type |-> "run.started", task |-> NoTask]>>, {}, <<>>, 0, "planning")
  <2> DEFINE r == [time |-> 0, type |-> "run.started", task |-> NoTask]
             l == <<r>>
  <2>1. r \in Happenings(G)
    BY DEF Happenings, RunEvents
  <2>2. r.type = "run.started" /\ r.time = 0
    OBVIOUS
  <2> HIDE DEF r
  <2>3. l \in Seq(Happenings(G)) /\ Len(l) = 1 /\ l[1] = r /\ DOMAIN l = {1}
    BY <2>1
  <2> HIDE DEF l
  <2>4. LogShape(G, l, 0)
    BY <2>2, <2>3 DEF LogShape
  <2>5. RunTold(l, 0, "planning")
    BY <2>2, <2>3 DEF RunTold, ToldOfRun
  <2>6. \A t, y : y \in TaskEvents => Told(l, t, y) = {}
    BY <2>2, <2>3 DEF Told, TaskEvents
  <2>7. \A t \in G.tasks : IdleTold(l, t, <<>>)
    <3>1. ToSet(<<>>) = {} /\ "skipped" \in TaskEvents
      BY DEF ToSet, TaskEvents
    <3> QED
      BY <2>6, <3>1 DEF IdleTold
  <2>8. Logged(G, l, {}, <<>>, 0, "planning")
    BY <2>4, <2>5, <2>7 DEF Logged
  <2> QED
    BY <2>8 DEF l, r
<1>10. Affordable(G, E, {}, Zero, 0)
  BY DEF Affordable
<1>11. 0 <= E.deadline
  BY <1>1 DEF ValidEnvelope, EnvelopeShape
<1> QED
  BY <1>2, <1>3, <1>4, <1>5, <1>6, <1>7, <1>8, <1>9, <1>10, <1>11 DEF SInv

\* It is kept when blocked tasks are skipped.
LEMMA SkipBlockedKeeps ==
  ASSUME SInv, SkipBlocked
  PROVE  SInv'
<1>1. G' = G /\ E' = E
  BY DEF G, E, SkipBlocked
<1>2. GraphShape(G) /\ ValidGraph(G)
  BY DEF SInv, GoodPlan, G
<1> DEFINE o == Listed(Behind, Increasing(Behind))
<1>3. Behind \in SUBSET G.tasks /\ Behind \cap (TasksOf(entries) \cup ToSet(skipped)) = {}
      /\ \A t \in Behind : G.deps[t] \cap ToSet(skipped) # {}
  BY DEF Behind, Started, Skipped, TasksOf
<1>4. Enumerates(o, Behind)
  <2>1. IsFiniteSet(Behind) /\ \A t \in Behind : t \in Int
    BY <1>2, <1>3, FS_Subset DEF GraphShape
  <2>2. StrictOrder(Behind, Increasing(Behind))
    BY <2>1, IncreasingOrders
  <2> QED
    BY <2>1, <2>2, ListedEnumerates
<1>5. Orders(o, Behind)
  BY <1>4, EnumerationsOrder
<1>6. log' = log \o Batch(o, time, "skipped")
  BY DEF Batch, Event, SkipBlocked
<1>7. /\ skipped' = skipped \o o /\ phase = "planning" /\ ~opened
      /\ UNCHANGED <<plan, phase, time, pass, opened, moved, running, entries, used, risk>>
  BY DEF SkipBlocked, AtHead
<1> HIDE DEF o
<1>8. Behind \cap MustFinish(G) = {}
  <2> SUFFICES ASSUME NEW t \in Behind, t \in MustFinish(G) PROVE FALSE
    OBVIOUS
  <2>1. G.deps[t] \subseteq MustFinish(G)
    BY <1>2, MandatoryCloses DEF Closed
  <2>2. PICK d \in ToSet(skipped) : d \in G.deps[t]
    BY <1>3
  <2>3. d \notin MustFinish(G)
    BY <2>2 DEF SInv, SkipsSound, ToSet
  <2> QED
    BY <2>1, <2>2, <2>3
<1>9. SkipsSound(G, entries, skipped') /\ ToSet(skipped') = ToSet(skipped) \cup Behind
  <2>1. SkipsSound(G, entries, skipped) /\ Behind \cap (TasksOf(entries) \cup ToSet(skipped) \cup MustFinish(G)) = {}
    BY <1>3, <1>8 DEF SInv
  <2> QED
    BY <1>3, <1>5, <1>7, <2>1, SkipsGrow
<1>10. Logged(G, log', entries, skipped', time, "planning")
  <2>1. Logged(G, log, entries, skipped, time, "planning") /\ time \in Nat
    BY <1>7 DEF SInv
  <2>2. Logged(G, log \o Batch(o, time, "skipped"), entries, skipped', time, "planning")
    BY <1>3, <1>5, <1>9, <2>1, LogSkips
  <2> QED
    BY <1>6, <2>2
<1>11. Passed(G, entries, skipped', <<>>)
  BY DEF Passed, Distinct
<1>12. pass' = <<>>
  BY <1>7 DEF SInv
<1> QED
  BY <1>1, <1>7, <1>9, <1>10, <1>11, <1>12 DEF SInv

\* It is kept when a pass is opened.
LEMMA OpenPassKeeps ==
  ASSUME SInv, OpenPass
  PROVE  SInv'
<1> USE DEF OpenPass, AtHead
<1>1. G' = G /\ E' = E
  BY DEF G, E
<1>2. Enumerates(SortReady, Ready)
  BY PassListsReady DEF SInv
<1>3. Orders(SortReady, Ready)
  BY <1>2, EnumerationsOrder
<1>4. \A t \in Ready : t \in G.tasks /\ t \notin TasksOf(entries) /\ t \notin ToSet(skipped)
                       /\ G.deps[t] \subseteq DoneOf(entries)
  BY DEF Ready, Started, Skipped, Completed, TasksOf, DoneOf
<1>5. Passed(G, entries, skipped, pass')
  <2>1. pass' \in Seq(Ready) /\ Distinct(pass')
    BY <1>3 DEF Orders
  <2>2. pass' \in Seq(G.tasks)
    BY <1>4, <2>1
  <2>3. \A i \in DOMAIN pass' : pass'[i] \in Ready
    BY <2>1
  <2> QED
    BY <1>4, <2>1, <2>2, <2>3 DEF Passed
<1> QED
  BY <1>1, <1>5 DEF SInv

\* It is kept when a ready task has to wait.
LEMMA HoldKeeps ==
  ASSUME SInv, Hold
  PROVE  SInv'
<1>1. G' = G /\ E' = E
  BY DEF G, E, Hold
<1>2. Passed(G, entries, skipped, Tail(pass))
  <2>1. Passed(G, entries, skipped, pass) /\ pass # <<>>
    BY DEF SInv, Hold, InPass
  <2> QED
    BY <2>1, PassMoves
<1> QED
  BY <1>1, <1>2 DEF SInv, Hold, InPass

\* It is kept when the ready tasks are looked at again.
LEMMA PassAgainKeeps ==
  ASSUME SInv, PassAgain
  PROVE  SInv'
<1>1. G' = G /\ E' = E
  BY DEF G, E, PassAgain
<1>2. Passed(G, entries, skipped, <<>>)
  BY DEF Passed, Distinct
<1> QED
  BY <1>1, <1>2 DEF SInv, PassAgain, PassEnds

\* It is kept when an optional task is skipped because nothing it could use fits.
LEMMA SkipUnaffordableKeeps ==
  ASSUME SInv, SkipUnaffordable
  PROVE  SInv'
<1> DEFINE t == Head(pass)
           o == <<t>>
<1>1. G' = G /\ E' = E
  BY DEF G, E, SkipUnaffordable
<1>2. /\ phase = "planning" /\ opened /\ pass # <<>> /\ t \notin Protected
      /\ skipped' = Append(skipped, t) /\ log' = Append(log, Event(t, "skipped")) /\ pass' = Tail(pass)
      /\ UNCHANGED <<plan, phase, time, opened, running, entries, used, risk>>
  BY DEF SkipUnaffordable, InPass
<1>3. Passed(G, entries, skipped, pass)
  BY <1>2 DEF SInv
<1>4. t \in G.tasks /\ t \notin TasksOf(entries) /\ t \notin ToSet(skipped)
  <2>1. pass \in Seq(G.tasks) /\ Len(pass) >= 1 /\ Head(pass) = pass[1] /\ 1 \in DOMAIN pass
    <3>1. pass \in Seq(G.tasks)
      BY <1>3 DEF Passed
    <3> QED
      BY <1>2, <3>1
  <2> QED
    BY <1>3, <2>1 DEF Passed
<1>5. Orders(o, {t})
  BY DEF Orders, Distinct
<1>6. t \notin MustFinish(G)
  BY <1>2 DEF Protected, MustFinish
<1>7. skipped' = skipped \o o /\ log' = log \o Batch(o, time, "skipped")
  <2>1. Batch(o, time, "skipped") = <<Event(t, "skipped")>>
    BY DEF Batch, Event
  <2>2. skipped \in Seq(G.tasks) /\ log \in Seq(Happenings(G))
    BY DEF SInv, SkipsSound, Logged, LogShape
  <2>3. Append(skipped, t) = skipped \o <<t>>
    BY <1>4, <2>2, AppendIsConcat
  <2>4. Append(log, Event(t, "skipped")) = log \o <<Event(t, "skipped")>>
    <3>1. Event(t, "skipped") \in Happenings(G)
      BY <1>4 DEF Event, Happenings, TaskEvents, SInv
    <3> QED
      BY <2>2, <3>1, AppendIsConcat
  <2> QED
    BY <1>2, <2>1, <2>3, <2>4
<1> DEFINE T == {t}
<1>11. /\ T \in SUBSET G.tasks /\ T \cap (TasksOf(entries) \cup ToSet(skipped) \cup MustFinish(G)) = {}
       /\ T \cap (TasksOf(entries) \cup ToSet(skipped)) = {} /\ Orders(o, T)
  BY <1>4, <1>5, <1>6
<1> HIDE DEF o, T
<1>8. SkipsSound(G, entries, skipped') /\ ToSet(skipped') = ToSet(skipped) \cup T
  <2>1. SkipsSound(G, entries, skipped)
    BY DEF SInv
  <2>2. SkipsSound(G, entries, skipped \o o) /\ ToSet(skipped \o o) = ToSet(skipped) \cup T
    BY <1>11, <2>1, SkipsGrow
  <2> QED
    BY <1>7, <2>2
<1>9. Logged(G, log', entries, skipped', time, "planning")
  <2>1. Logged(G, log, entries, skipped, time, "planning") /\ time \in Nat
    BY <1>2 DEF SInv
  <2>2. Logged(G, log \o Batch(o, time, "skipped"), entries, skipped', time, "planning")
    BY <1>8, <1>11, <2>1, LogSkips
  <2> QED
    BY <1>7, <2>2
<1>10. Passed(G, entries, skipped', pass')
  <2>1. TasksOf(entries) \subseteq TasksOf(entries) \cup {Head(pass)} /\ DoneOf(entries) \subseteq DoneOf(entries)
        /\ ToSet(skipped') \subseteq ToSet(skipped) \cup {Head(pass)}
    BY <1>8 DEF T
  <2> QED
    BY <1>2, <1>3, <2>1, PassMoves
<1> QED
  BY <1>1, <1>2, <1>8, <1>9, <1>10 DEF SInv

\* It is kept when the schedule is complete.
LEMMA CompleteKeeps ==
  ASSUME SInv, Complete
  PROVE  SInv'
<1>1. G' = G /\ E' = E
  BY DEF G, E, Complete
<1>2. /\ phase = "planning" /\ phase' = "completed" /\ DoneOf(entries) \cup ToSet(skipped) = G.tasks
      /\ log' = Append(log, Event(NoTask, "run.completed"))
      /\ UNCHANGED <<plan, time, pass, opened, moved, running, entries, skipped, used, risk>>
  BY DEF Complete, AtHead, Unended, Completed, Skipped, DoneOf
<1>3. GraphShape(G) /\ Books(G, E, entries, time, "planning") /\ SkipsSound(G, entries, skipped) /\ time \in Nat
  BY <1>2 DEF SInv, GoodPlan, G
<1>4. ASSUME NEW e \in entries PROVE e.outcome = "completed" /\ e.task \in G.tasks
  <2>1. e.task \in G.tasks /\ e.task \in TasksOf(entries)
    BY <1>3 DEF Books, Booked, TasksOf
  <2>2. e.task \notin ToSet(skipped)
    BY <1>3, <2>1 DEF SkipsSound, ToSet
  <2>3. PICK f \in entries : f.outcome = "completed" /\ f.task = e.task
    BY <1>2, <2>1, <2>2 DEF DoneOf
  <2> QED
    BY <1>3, <2>1, <2>3 DEF Books, EntrySet
<1>5. Books(G, E, entries, time, "completed")
  BY <1>3, <1>4 DEF Books, Timed
<1>6. NoTask \notin G.tasks
  BY <1>3 DEF GraphShape, NoTask
<1>7. Logged(G, log', entries, skipped, time, "completed")
  <2>1. Logged(G, log, entries, skipped, time, "planning") /\ log \in Seq(Happenings(G))
    BY <1>2 DEF SInv, Logged, LogShape
  <2> DEFINE r == [time |-> time, type |-> "run.completed", task |-> NoTask]
  <2>2. Logged(G, log \o <<r>>, entries, skipped, time, "completed")
    BY <1>3, <1>4, <1>6, <2>1, LogCloses
  <2>3. log' = Append(log, r) /\ r \in Happenings(G)
    BY <1>2, <1>3 DEF Event, Happenings, RunEvents
  <2> HIDE DEF r
  <2>4. Append(log, r) = log \o <<r>>
    BY <2>1, <2>3, AppendIsConcat
  <2> QED
    BY <2>2, <2>3, <2>4
<1> QED
  BY <1>1, <1>2, <1>5, <1>7 DEF SInv

\* What the guards of Start establish of the task and the profile chosen for it.
LEMMA StartIsSound ==
  ASSUME SInv, Start
  PROVE  LET t == Head(pass)  p == ChooseProfile(OnTime(t))
         IN /\ t \in G.tasks /\ t \notin TasksOf(entries) /\ t \notin ToSet(skipped)
            /\ G.deps[t] \subseteq DoneOf(entries)
            /\ p \in Feasible(t) /\ p \in Qualified(G, t)
            /\ ~ProviderFull(p.provider) /\ LeavesTo(G, running, t) /\ Len(running) < E.parallelism
<1> DEFINE t == Head(pass)
           c == OnTime(t)
           p == ChooseProfile(c)
<1>1. /\ phase = "planning" /\ pass # <<>> /\ Len(running) < Capacity
      /\ c # {} /\ ~ProviderFull(p.provider) /\ ~EffectConflicts(t)
  BY DEF Start, InPass
<1>2. GraphShape(G) /\ ValidGraph(G) /\ EnvelopeShape(E) /\ ValidEnvelope(E)
  BY DEF SInv, GoodPlan, G, E
<1>3. Passed(G, entries, skipped, pass)
  BY <1>1 DEF SInv
<1>4. t \in G.tasks /\ t \notin TasksOf(entries) /\ t \notin ToSet(skipped) /\ G.deps[t] \subseteq DoneOf(entries)
  <2>1. pass \in Seq(G.tasks)
    BY <1>3 DEF Passed
  <2>2. pass[1] \in G.tasks /\ Head(pass) = pass[1] /\ 1 \in DOMAIN pass
    BY <1>1, <2>1
  <2> QED
    BY <1>3, <2>2 DEF Passed
<1>5. p \in Feasible(t) /\ p \in Qualified(G, t)
  <2>1. c \subseteq Feasible(t) /\ c \in SUBSET Qualified(G, t)
    BY DEF OnTime, Feasible
  <2> HIDE DEF c, t
  <2>2. ChooseProfile(c) \in c
    BY <1>1, <1>2, <1>4, <2>1, ChosenIsCandidate
  <2> QED
    BY <2>1, <2>2
<1>6. Len(running) < E.parallelism
  <2>1. E.parallelism \in Nat \ {0}
    BY <1>2, SlotsArePositive
  <2>2. running \in Seq(RunRecords(G))
    BY DEF SInv, Runs
  <2>3. Len(running) \in Nat
    BY <2>2
  <2> QED
    BY <1>1, <2>1, <2>3 DEF Capacity
<1>7. LeavesTo(G, running, t)
  <2> DEFINE a == G.effect[t]
             active == ActiveEffects(a.resource)
  <2> SUFFICES ASSUME a.resource # "none", a.kind # "pure", NEW i \in DOMAIN running,
                      G.effect[running[i].task].resource = a.resource
               PROVE  ~Writes(a.kind) /\ ~Writes(G.effect[running[i].task].kind)
    BY DEF LeavesTo
  <2>1. G.effect[running[i].task].kind \in active
    BY DEF ActiveEffects
  <2>2. IF a.kind = "read" THEN ~\E k \in active : Writes(k) ELSE active = {}
    BY <1>1 DEF EffectConflicts
  <2> QED
    BY <2>1, <2>2 DEF Writes
<1> QED
  BY <1>1, <1>4, <1>5, <1>6, <1>7

\* It is kept when a task starts: the chosen profile leaves what the protected work needs.
LEMMA StartKeeps ==
  ASSUME SInv, Start
  PROVE  SInv'
<1> DEFINE t == Head(pass)
           p == ChooseProfile(OnTime(t))
           n == NewEntry(G, t, p, time)
           T == entries \cup {n}
<1>1. G' = G /\ E' = E
  BY DEF G, E, Start
<1>2. /\ phase = "planning" /\ pass # <<>> /\ pass' = Tail(pass)
      /\ used' = Plus(used, p.use) /\ risk' = risk + p.risk
      /\ running' = Append(running, [task |-> t, profile |-> p, end |-> time + p.p95])
      /\ entries' = T
      /\ log' = log \o <<[time |-> time, type |-> "selected", task |-> t],
                         [time |-> time, type |-> "started", task |-> t]>>
      /\ UNCHANGED <<plan, phase, time, opened, skipped>>
  BY DEF Start, InPass, Entry, NewEntry, Event
<1>3. GraphShape(G) /\ ValidGraph(G) /\ EnvelopeShape(E) /\ ValidEnvelope(E)
  BY DEF SInv, GoodPlan, G, E
<1>4. /\ t \in G.tasks /\ t \notin TasksOf(entries) /\ t \notin ToSet(skipped)
      /\ G.deps[t] \subseteq DoneOf(entries)
      /\ p \in Feasible(t) /\ p \in Qualified(G, t)
      /\ ~ProviderFull(p.provider) /\ LeavesTo(G, running, t) /\ Len(running) < E.parallelism
  BY StartIsSound
<1>5. /\ Books(G, E, entries, time, "planning") /\ time \in Nat /\ EntrySet(entries) /\ IsFiniteSet(entries)
      /\ Runs(G, entries, running) /\ SlotsKept(E, entries) /\ EffectsApart(G, entries)
      /\ AccountsKept(E, entries, used, risk) /\ SkipsSound(G, entries, skipped)
      /\ Passed(G, entries, skipped, pass) /\ Logged(G, log, entries, skipped, time, "planning")
  BY <1>2 DEF SInv, Books, EntrySet
<1>6. /\ Within(Plus(used, p.use), E.caps)
      /\ time + p.p95 <= DueBy(G, E, t)
      /\ risk + p.risk <= E.risk
      /\ \E f \in JointPlans(G, Protected \ (Started \cup {t})) :
              /\ Within(Plus(Plus(used, p.use), UseOf(f, Protected \ (Started \cup {t}))), E.caps)
              /\ risk + p.risk + RiskOf(f, Protected \ (Started \cup {t})) <= E.risk
  <2>1. GoodPlan(plan) /\ used \in [Units -> Int] /\ risk \in Int
    BY <1>5 DEF SInv, AccountsKept
  <2> HIDE DEF t, p
  <2> QED
    BY <1>4, <2>1, ChoiceLeavesRoom
<1>7. p.p95 \in Nat /\ p.risk \in Int /\ p.use \in [Units -> Int]
  <2> HIDE DEF t, p
  <2> QED
    BY <1>3, <1>4, QualifiedProfiles
<1>8. /\ n.task = t /\ n.provider = p.provider /\ n.start = time /\ n.outcome = "running"
      /\ n.risk = p.risk /\ n.use = p.use
  BY DEF NewEntry
<1>9. n \notin entries
  BY <1>4, <1>8 DEF TasksOf
<1> HIDE DEF t, p
<1>10. Books(G, E, T, time, "planning")
  BY <1>3, <1>4, <1>5, <1>6, BooksGrow
<1>11. Runs(G, T, running')
  <2>1. Runs(G, T, Append(running, [task |-> t, profile |-> p, end |-> time + p.p95]))
    BY <1>3, <1>4, <1>5, RunsGrow
  <2> QED
    BY <1>2, <2>1
<1>12. SlotsKept(E, T)
  <2>1. Cardinality({i \in DOMAIN running : running[i].profile.provider = n.provider}) < ProviderLimit(E, n.provider)
    <3> DEFINE I == {i \in DOMAIN running : running[i].profile.provider = p.provider}
    <3>1. ~(Cardinality(I) >= ProviderLimit(E, p.provider))
      BY <1>4 DEF ProviderFull
    <3>2. ProviderLimit(E, p.provider) \in Nat
      BY <1>3, SlotsArePositive
    <3>3. Cardinality(I) \in Nat
      <4>1. running \in Seq(RunRecords(G))
        BY <1>5 DEF Runs
      <4>2. DOMAIN running = 1..Len(running) /\ Len(running) \in Nat
        BY <4>1
      <4>3. I \subseteq DOMAIN running
        OBVIOUS
      <4> HIDE DEF I
      <4>4. IsFiniteSet(1..Len(running))
        BY <4>2, FS_Interval
      <4> QED
        BY <4>2, <4>3, <4>4, FS_Subset, FS_CardinalityType
    <3> HIDE DEF I
    <3>5. Cardinality(I) < ProviderLimit(E, p.provider)
      BY <3>1, <3>2, <3>3
    <3> QED
      BY <1>8, <3>5 DEF I
  <2> HIDE DEF n
  <2> QED
    BY <1>3, <1>4, <1>5, <1>8, <1>9, <2>1, SlotsGrow
<1>13. EffectsApart(G, T)
  <2> HIDE DEF n
  <2> QED
    BY <1>4, <1>5, <1>8, EffectsGrow
<1>14. AccountsKept(E, T, used', risk')
  <2>1. \A e \in entries : e.risk \in Int /\ \A u \in Units : e.use[u] \in Int
    BY <1>3, <1>5, BookedNumbers DEF Books
  <2>2. AccountsKept(E, T, Plus(used, n.use), risk + n.risk)
    <3> HIDE DEF n
    <3> QED
      BY <1>5, <1>6, <1>7, <1>8, <1>9, <2>1, AccountsGrow
  <2> QED
    BY <1>2, <1>8, <2>2
<1>15. TasksOf(T) = TasksOf(entries) \cup {t} /\ DoneOf(entries) \subseteq DoneOf(T)
  <2> HIDE DEF n
  <2> QED
    BY <1>8 DEF TasksOf, DoneOf
<1>16. SkipsSound(G, T, skipped)
  <2>1. \A i \in DOMAIN skipped : skipped[i] \in ToSet(skipped)
    BY DEF ToSet
  <2> QED
    BY <1>4, <1>5, <1>15, <2>1 DEF SkipsSound
<1>17. Passed(G, T, skipped, pass')
  <2>1. TasksOf(T) \subseteq TasksOf(entries) \cup {Head(pass)}
    BY <1>15 DEF t
  <2>2. ToSet(skipped) \subseteq ToSet(skipped) \cup {Head(pass)}
    OBVIOUS
  <2> HIDE DEF T
  <2>3. Passed(G, T, skipped, Tail(pass))
    BY <1>2, <1>5, <1>15, <2>1, <2>2, PassMoves
  <2> QED
    BY <1>2, <2>3
<1>18. Logged(G, log', T, skipped, time, "planning")
  <2> HIDE DEF n
  <2>1. Logged(G, log \o <<[time |-> time, type |-> "selected", task |-> t],
                         [time |-> time, type |-> "started", task |-> t]>>, T, skipped, time, "planning")
    BY <1>4, <1>5, <1>8, LogStarts
  <2> QED
    BY <1>2, <2>1
<1>19. Affordable(G, E, T, used', risk')
  <2>1. Protected \ (Started \cup {t}) = MustFinish(G) \ TasksOf(T)
    BY <1>15 DEF Protected, MustFinish, Started, TasksOf
  <2> HIDE DEF n, T
  <2> QED
    BY <1>2, <1>6, <2>1 DEF Affordable
<1> HIDE DEF T
<1> QED
  BY <1>1, <1>2, <1>10, <1>11, <1>12, <1>13, <1>14, <1>16, <1>17, <1>18, <1>19 DEF SInv

\* The tasks of the records at the places I, in the order q.
LEMMA TasksInOrder ==
  ASSUME NEW g, NEW S, NEW run, Runs(g, S, run), NEW I \in SUBSET DOMAIN run, NEW q, Enumerates(q, I)
  PROVE  /\ Orders([i \in DOMAIN q |-> run[q[i]].task], {run[k].task : k \in I})
         /\ {run[k].task : k \in I} \in SUBSET g.tasks
<1> DEFINE o == [i \in DOMAIN q |-> run[q[i]].task]
           D == {run[k].task : k \in I}
<1>1. run \in Seq(RunRecords(g)) /\ \A i, j \in DOMAIN run : run[i].task = run[j].task => i = j
  BY DEF Runs
<1>2. /\ q \in Seq(I) /\ Len(q) \in Nat /\ DOMAIN q = 1..Len(q)
      /\ \A i, j \in DOMAIN q : q[i] = q[j] => i = j
      /\ \A k \in I : \E i \in DOMAIN q : q[i] = k
      /\ \A i \in DOMAIN q : q[i] \in I
  <2>1. q \in Seq(I)
    BY DEF Enumerates
  <2>2. Len(q) \in Nat /\ DOMAIN q = 1..Len(q) /\ \A i \in DOMAIN q : q[i] \in I
    BY <2>1
  <2> QED
    BY <2>1, <2>2 DEF Enumerates
<1>3. D \in SUBSET g.tasks
  <2>1. \A k \in I : run[k] \in RunRecords(g)
    BY <1>1
  <2> QED
    BY <2>1 DEF RunRecords
<1>4. o \in Seq(D)
  <2>1. \A i \in 1..Len(q) : run[q[i]].task \in D
    BY <1>2
  <2>2. o \in [1..Len(q) -> D]
    BY <1>2, <2>1
  <2> HIDE DEF o, D
  <2> QED
    BY <1>2, <2>2
<1>5. Distinct(o)
  BY <1>1, <1>2 DEF Distinct
<1>6. \A t \in D : \E i \in DOMAIN o : o[i] = t
  BY <1>2
<1> QED
  BY <1>3, <1>4, <1>5, <1>6 DEF Orders

\* What is cancelled when the run is refused: all that runs, in some order, before the last event.
LEMMA RefuseTells ==
  ASSUME SInv, Refuse
  PROVE  \E o, D :
           /\ Orders(o, D) /\ D \in SUBSET G.tasks /\ D \subseteq TasksOf(entries)
           /\ \A e \in entries : e.task \in D <=> e.outcome = "running"
           /\ entries' = EndAll(entries, D, "cancelled", time)
           /\ log' = (log \o Batch(o, time, "cancelled"))
                       \o <<[time |-> time, type |-> "run.failed", task |-> NoTask]>>
<1> DEFINE R == DOMAIN running
           B == {p \in R \X R : LexLess(<<running[p[1]].end, p[1]>>, <<running[p[2]].end, p[2]>>)}
           q == Listed(R, B)
           D == {running[i].task : i \in R}
           o == [i \in DOMAIN q |-> running[q[i]].task]
           r == [time |-> time, type |-> "run.failed", task |-> NoTask]
<1>1. /\ phase = "planning" /\ phase' = "failed" /\ running' = <<>>
      /\ log' = log \o [i \in DOMAIN q |-> Event(running[q[i]].task, "cancelled")] \o <<Event(NoTask, "run.failed")>>
      /\ entries' = {IF e.outcome = "running" THEN [e EXCEPT !.outcome = "cancelled", !.end = time]
                     ELSE e : e \in entries}
      /\ UNCHANGED <<plan, time, pass, opened, moved, skipped, used, risk>>
  BY DEF Refuse, InPass
<1>2. GraphShape(G) /\ ValidGraph(G) /\ EnvelopeShape(E) /\ ValidEnvelope(E)
  BY DEF SInv, GoodPlan, G, E
<1>3. /\ Books(G, E, entries, time, "planning") /\ time \in Nat /\ EntrySet(entries)
      /\ Runs(G, entries, running) /\ SlotsKept(E, entries) /\ EffectsApart(G, entries)
      /\ AccountsKept(E, entries, used, risk) /\ SkipsSound(G, entries, skipped)
      /\ Logged(G, log, entries, skipped, time, "planning") /\ Affordable(G, E, entries, used, risk)
  BY <1>1 DEF SInv, Books
<1>4. /\ R = 1..Len(running) /\ Len(running) \in Nat /\ IsFiniteSet(R)
      /\ \A i \in R : running[i].end \in Nat /\ running[i].task \in G.tasks
  <2>1. running \in Seq(RunRecords(G))
    BY <1>3 DEF Runs
  <2>2. R = 1..Len(running) /\ Len(running) \in Nat /\ \A i \in R : running[i] \in RunRecords(G)
    BY <2>1
  <2>3. IsFiniteSet(R)
    BY <2>2, FS_Interval
  <2> QED
    BY <2>2, <2>3 DEF RunRecords
<1>5. Enumerates(q, R)
  <2> DEFINE key == [i \in R |-> <<running[i].end, i>>]
  <2>1. \A i \in R : DOMAIN key[i] = 1..2 /\ (\A k \in 1..2 : key[i][k] \in Int) /\ key[i][2] = i
    BY <1>4
  <2>2. \A i, j \in R : i # j => \E k \in 1..2 : key[i][k] # key[j][k]
    BY <2>1
  <2>3. \A i, j \in R : <<i, j>> \in B <=> LexLess(key[i], key[j])
    OBVIOUS
  <2> HIDE DEF key, B, R
  <2>5. (\A i \in R : DOMAIN key[i] = 1..2 /\ \A k \in 1..2 : key[i][k] \in Int) /\ 2 \in Nat
    BY <2>1
  <2>4. StrictOrder(R, B)
    BY <2>2, <2>3, <2>5, LexOrders
  <2> QED
    BY <1>4, <2>4, ListedEnumerates
<1>6. Orders(o, D) /\ D \in SUBSET G.tasks
  <2>1. R \in SUBSET DOMAIN running
    OBVIOUS
  <2> HIDE DEF R, q
  <2> QED
    BY <1>3, <1>5, <2>1, TasksInOrder
<1>7. \A e \in entries : e.task \in D <=> e.outcome = "running"
  <2>1. ASSUME NEW e \in entries, e.task \in D PROVE e.outcome = "running"
    <3>1. PICK i \in R : running[i].task = e.task
      BY <2>1
    <3>2. PICK f \in entries : f.task = running[i].task /\ f.outcome = "running"
      BY <1>3 DEF Runs
    <3> QED
      BY <1>3, <3>1, <3>2 DEF EntrySet
  <2>2. ASSUME NEW e \in entries, e.outcome = "running" PROVE e.task \in D
    <3>1. PICK i \in DOMAIN running : running[i].task = e.task
      BY <1>3, <2>2 DEF Runs
    <3> QED
      BY <3>1
  <2> QED
    BY <2>1, <2>2
<1> HIDE DEF D
<1>8. entries' = EndAll(entries, D, "cancelled", time)
  <2>1. \A e \in entries :
          (IF e.outcome = "running" THEN [e EXCEPT !.outcome = "cancelled", !.end = time] ELSE e)
            = Ended(e, D, "cancelled", time)
    BY <1>7 DEF Ended
  <2> QED
    BY <1>1, <2>1 DEF EndAll
<1>9. log' = (log \o Batch(o, time, "cancelled")) \o <<r>>
  <2>1. [i \in DOMAIN q |-> Event(running[q[i]].task, "cancelled")] = Batch(o, time, "cancelled")
    BY DEF Batch, Event
  <2>2. Event(NoTask, "run.failed") = r
    BY DEF Event
  <2> HIDE DEF o, q, r
  <2> QED
    BY <1>1, <2>1, <2>2
<1>10. D \subseteq TasksOf(entries)
  <2> SUFFICES ASSUME NEW t \in D PROVE t \in TasksOf(entries)
    OBVIOUS
  <2>1. PICK i \in DOMAIN running : running[i].task = t
    BY DEF D, R
  <2> QED
    BY <1>3, <2>1 DEF Runs, TasksOf
<1> HIDE DEF R, B, q, o, r
<1> QED
  BY <1>6, <1>7, <1>8, <1>9, <1>10 DEF r

\* It is kept when the run is refused and what runs is cancelled.
LEMMA RefuseKeeps ==
  ASSUME SInv, Refuse
  PROVE  SInv'
<1>1. G' = G /\ E' = E
  BY DEF G, E, Refuse
<1>2. /\ phase = "planning" /\ phase' = "failed" /\ running' = <<>>
      /\ UNCHANGED <<plan, time, pass, opened, moved, skipped, used, risk>>
  BY DEF Refuse, InPass
<1>3. GraphShape(G) /\ ValidGraph(G) /\ EnvelopeShape(E) /\ ValidEnvelope(E)
  BY DEF SInv, GoodPlan, G, E
<1>4. /\ Books(G, E, entries, time, "planning") /\ time \in Nat /\ EntrySet(entries)
      /\ Runs(G, entries, running) /\ SlotsKept(E, entries) /\ EffectsApart(G, entries)
      /\ AccountsKept(E, entries, used, risk) /\ SkipsSound(G, entries, skipped)
      /\ Logged(G, log, entries, skipped, time, "planning") /\ Affordable(G, E, entries, used, risk)
  BY <1>2 DEF SInv, Books
<1>5. PICK o, D :
        /\ Orders(o, D) /\ D \in SUBSET G.tasks /\ D \subseteq TasksOf(entries)
        /\ \A e \in entries : e.task \in D <=> e.outcome = "running"
        /\ entries' = EndAll(entries, D, "cancelled", time)
        /\ log' = (log \o Batch(o, time, "cancelled"))
                    \o <<[time |-> time, type |-> "run.failed", task |-> NoTask]>>
  BY RefuseTells
<1> DEFINE T == EndAll(entries, D, "cancelled", time)
<1>6. (\A e \in entries : e.task \in D <=> e.outcome = "running") /\ D \in SUBSET G.tasks /\ D \subseteq TasksOf(entries)
  BY <1>5
<1>7. entries' = T
  BY <1>5
<1>8. \A e \in entries : /\ e.start \in Int /\ e.end \in Int /\ e.start <= time /\ time \in Int
                         /\ e.outcome = "running" => time <= e.end
  BY <1>4 DEF Books, Booked, Timed
<1>9. Books(G, E, T, time, "failed")
  <2>1. time <= time
    BY <1>4
  <2> QED
    BY <1>4, <1>8, <1>6, <2>1, BooksEnd
<1>10. \A e \in entries : e.start \in Int /\ e.end \in Int /\ (e.task \in D => time <= e.end)
  BY <1>8, <1>6
<1>11. SlotsKept(E, T)
  BY <1>3, <1>4, <1>8, <1>10, SlotsEnd
<1>12. EffectsApart(G, T)
  <2>1. time \in Int
    BY <1>4
  <2> QED
    BY <1>4, <1>10, <2>1, EffectsEnd
<1>13. AccountsKept(E, T, used, risk)
  <2>1. \A e \in entries : e.risk \in Int /\ \A u \in Units : e.use[u] \in Int
    BY <1>3, <1>4, BookedNumbers DEF Books
  <2> QED
    BY <1>4, <2>1, AccountsEnd
<1>14. TasksOf(T) = TasksOf(entries) /\ EntrySet(T)
  BY <1>4, EndingGives
<1>15. SkipsSound(G, T, skipped)
  BY <1>4, <1>14 DEF SkipsSound
<1>16. Runs(G, T, <<>>)
  <2>1. \A e \in T : e.outcome # "running"
    BY <1>9 DEF Books, Timed
  <2> QED
    BY <2>1 DEF Runs
<1>17. Logged(G, log', T, skipped, time, "failed")
  <2>1. "cancelled" \in Outcomes /\ time <= time
    BY <1>4 DEF Outcomes
  <2>3. Logged(G, log \o Batch(o, time, "cancelled"), T, skipped, time, "planning")
    BY <1>4, <1>5, <2>1, LogEnds
  <2>4. NoTask \notin G.tasks
    BY <1>3 DEF GraphShape, NoTask
  <2>5. \A e \in T : e.task \in G.tasks
    BY <1>9 DEF Books, Booked
  <2> HIDE DEF T
  <2>6. Logged(G, (log \o Batch(o, time, "cancelled")) \o <<[time |-> time, type |-> "run.failed", task |-> NoTask]>>,
               T, skipped, time, "failed")
    BY <1>4, <2>3, <2>4, <2>5, LogCloses
  <2> QED
    BY <1>5, <2>6
<1>18. Affordable(G, E, T, used, risk)
  <2>1. T # {} => entries # {}
    BY DEF EndAll
  <2> HIDE DEF T
  <2> QED
    BY <1>4, <1>14, <2>1 DEF Affordable
<1> HIDE DEF T
<1> QED
  BY <1>1, <1>2, <1>7, <1>9, <1>11, <1>12, <1>13, <1>15, <1>16, <1>17, <1>18 DEF SInv

\* What completes when the clock moves: all that ends first, in some order.
LEMMA AdvanceTells ==
  ASSUME SInv, Advance
  PROVE  \E next, I, D, o :
           /\ next \in Nat /\ time' = next
           /\ I \in SUBSET DOMAIN running /\ running' = Picked(running, I)
           /\ \A i \in DOMAIN running : running[i].end = next <=> i \notin I
           /\ D = {running[i].task : i \in (DOMAIN running) \ I}
           /\ \E i \in DOMAIN running : running[i].end = next
           /\ Orders(o, D) /\ D \in SUBSET G.tasks /\ D \subseteq TasksOf(entries)
           /\ \A e \in entries : e.task \in D => e.outcome = "running" /\ e.end = next
           /\ \A e \in entries : e.outcome = "running" => next <= e.end
           /\ entries' = EndAll(entries, D, "completed", next)
           /\ log' = log \o Batch(o, next, "completed")
<1> DEFINE ends == {running[i].end : i \in DOMAIN running}
           next == Min(ends)
           J == {i \in DOMAIN running : running[i].end = next}
           I == {i \in DOMAIN running : running[i].end # next}
           ended == Picked(running, J)
           done == {ended[i].task : i \in DOMAIN ended}
           D == {running[i].task : i \in J}
<1>1. /\ phase = "planning" /\ running # <<>> /\ time' = next
      /\ running' = Picked(running, I)
      /\ entries' = {IF e.task \in done THEN [e EXCEPT !.outcome = "completed", !.end = next] ELSE e : e \in entries}
      /\ log' = log \o [i \in DOMAIN ended |-> [time |-> next, type |-> "completed", task |-> ended[i].task]]
      /\ pass' = <<>> /\ opened' = FALSE
      /\ UNCHANGED <<plan, phase, moved, skipped, used, risk>>
  BY DEF Advance, PassEnds
<1>2. GraphShape(G) /\ ValidGraph(G) /\ EnvelopeShape(E) /\ ValidEnvelope(E)
  BY DEF SInv, GoodPlan, G, E
<1>3. /\ Books(G, E, entries, time, "planning") /\ time \in Nat /\ EntrySet(entries)
      /\ Runs(G, entries, running) /\ SlotsKept(E, entries) /\ EffectsApart(G, entries)
      /\ AccountsKept(E, entries, used, risk) /\ SkipsSound(G, entries, skipped)
      /\ Logged(G, log, entries, skipped, time, "planning") /\ Affordable(G, E, entries, used, risk)
  BY <1>1 DEF SInv, Books
<1>4. running \in Seq(RunRecords(G))
  BY <1>3 DEF Runs
<1>5. next \in ends /\ \A i \in DOMAIN running : next <= running[i].end /\ running[i].end \in Nat
  <2>1. /\ DOMAIN running = 1..Len(running) /\ Len(running) \in Nat /\ Len(running) >= 1
        /\ \A i \in DOMAIN running : running[i] \in RunRecords(G)
    <3>1. DOMAIN running = 1..Len(running) /\ Len(running) \in Nat /\ \A i \in DOMAIN running : running[i] \in RunRecords(G)
      BY <1>4
    <3>2. running # <<>>
      BY <1>1
    <3>3. Len(running) # 0
      BY <1>4, <3>2
    <3> QED
      BY <3>1, <3>3
  <2>2. \A i \in DOMAIN running : running[i].end \in Nat
    BY <2>1 DEF RunRecords
  <2>3. ends \in SUBSET Int /\ ends # {}
    BY <2>1, <2>2
  <2>4. IsFiniteSet(ends)
    <3> DEFINE h == [i \in DOMAIN running |-> running[i].end]
    <3>1. IsFiniteSet({h[i] : i \in DOMAIN running})
      <4>1. IsFiniteSet(DOMAIN running)
        BY <2>1, FS_Interval
      <4> HIDE DEF h
      <4> QED
        BY <4>1, ImageFinite
    <3>2. {h[i] : i \in DOMAIN running} = ends
      OBVIOUS
    <3> QED
      BY <3>1, <3>2
  <2> HIDE DEF ends
  <2>5. Min(ends) \in ends /\ \A y \in ends : Min(ends) <= y
    BY <2>3, <2>4, ExtremaExist
  <2> QED
    BY <2>2, <2>5 DEF ends
<1> HIDE DEF next
<1>6. PICK i0 \in DOMAIN running : running[i0].end = next
  BY <1>5
<1>7. next \in Nat
  BY <1>5, <1>6
<1>8. J \in SUBSET DOMAIN running /\ I \in SUBSET DOMAIN running /\ (DOMAIN running) \ I = J
  OBVIOUS
<1> HIDE DEF ends, J, I
<1>9. PICK q : PickedBy(ended, q, running, J)
  BY <1>4, <1>8, PickedProperties
<1>10. /\ Enumerates(q, J) /\ DOMAIN ended = DOMAIN q
       /\ (\A i \in DOMAIN q : ended[i] = running[q[i]] /\ q[i] \in J)
       /\ \A k \in J : \E i \in DOMAIN q : q[i] = k
  <2>1. /\ Enumerates(q, J) /\ DOMAIN ended = 1..Cardinality(J)
        /\ \A i \in 1..Cardinality(J) : ended[i] = running[q[i]] /\ q[i] \in J
    BY <1>9 DEF PickedBy
  <2>2. DOMAIN q = 1..Cardinality(J) /\ \A k \in J : \E i \in 1..Cardinality(J) : q[i] = k
    BY <2>1 DEF Enumerates
  <2> QED
    BY <2>1, <2>2
<1> HIDE DEF ended
<1> DEFINE o == [i \in DOMAIN q |-> running[q[i]].task]
<1>11. Orders(o, D) /\ D \in SUBSET G.tasks
  <2>1. Runs(G, entries, running) /\ J \in SUBSET DOMAIN running /\ Enumerates(q, J)
    BY <1>3, <1>8, <1>10
  <2> QED
    BY <2>1, TasksInOrder
<1>12. done = D
  <2>1. ASSUME NEW t \in done PROVE t \in D
    BY <1>10
  <2>2. ASSUME NEW t \in D PROVE t \in done
    BY <1>10
  <2> QED
    BY <2>1, <2>2
<1>13. entries' = EndAll(entries, D, "completed", next)
  BY <1>1, <1>12 DEF EndAll, Ended
<1>14. log' = log \o Batch(o, next, "completed")
  <2>1. [i \in DOMAIN ended |-> [time |-> next, type |-> "completed", task |-> ended[i].task]]
          = Batch(o, next, "completed")
    BY <1>10 DEF Batch
  <2> HIDE DEF o
  <2> QED
    BY <1>1, <2>1
<1>15. \A e \in entries : e.task \in D => e.outcome = "running" /\ e.end = next
  <2> SUFFICES ASSUME NEW e \in entries, e.task \in D PROVE e.outcome = "running" /\ e.end = next
    OBVIOUS
  <2>1. PICK i \in J : running[i].task = e.task
    OBVIOUS
  <2>2. i \in DOMAIN running /\ running[i].end = next
    BY DEF J
  <2>3. PICK f \in entries : f.task = running[i].task /\ f.outcome = "running" /\ f.end = running[i].end
    BY <1>3, <2>2 DEF Runs
  <2> QED
    BY <1>3, <2>1, <2>2, <2>3 DEF EntrySet
<1>16. \A e \in entries : e.outcome = "running" => next <= e.end
  <2> SUFFICES ASSUME NEW e \in entries, e.outcome = "running" PROVE next <= e.end
    OBVIOUS
  <2>1. PICK i \in DOMAIN running : running[i].task = e.task
    BY <1>3 DEF Runs
  <2>2. PICK f \in entries : f.task = running[i].task /\ f.end = running[i].end
    BY <1>3 DEF Runs
  <2>3. f = e
    BY <1>3, <2>1, <2>2 DEF EntrySet
  <2> QED
    BY <1>5, <2>2, <2>3
<1>17. D \subseteq TasksOf(entries)
  <2> SUFFICES ASSUME NEW t \in D PROVE t \in TasksOf(entries)
    OBVIOUS
  <2>1. PICK i \in DOMAIN running : running[i].task = t
    BY <1>8 DEF D
  <2> QED
    BY <1>3, <2>1 DEF Runs, TasksOf
<1>18. (\A i \in DOMAIN running : running[i].end = next <=> i \notin I) /\ D = {running[i].task : i \in (DOMAIN running) \ I}
  BY <1>8 DEF I, J, D
<1> HIDE DEF o, D, done
<1> QED
  BY <1>1, <1>6, <1>7, <1>8, <1>11, <1>13, <1>14, <1>15, <1>16, <1>17, <1>18

\* It is kept when the clock moves to the next end and what ends there completes.
LEMMA AdvanceKeeps ==
  ASSUME SInv, Advance
  PROVE  SInv'
<1>1. G' = G /\ E' = E
  BY DEF G, E, Advance
<1>2. /\ phase = "planning" /\ pass' = <<>> /\ opened' = FALSE
      /\ UNCHANGED <<plan, phase, moved, skipped, used, risk>>
  BY DEF Advance, PassEnds
<1>3. GraphShape(G) /\ ValidGraph(G) /\ EnvelopeShape(E) /\ ValidEnvelope(E)
  BY DEF SInv, GoodPlan, G, E
<1>4. /\ Books(G, E, entries, time, "planning") /\ time \in Nat /\ EntrySet(entries)
      /\ Runs(G, entries, running) /\ SlotsKept(E, entries) /\ EffectsApart(G, entries)
      /\ AccountsKept(E, entries, used, risk) /\ SkipsSound(G, entries, skipped)
      /\ Logged(G, log, entries, skipped, time, "planning") /\ Affordable(G, E, entries, used, risk)
  BY <1>2 DEF SInv, Books
<1>5. PICK next, I, D, o :
        /\ next \in Nat /\ time' = next
        /\ I \in SUBSET DOMAIN running /\ running' = Picked(running, I)
        /\ \A i \in DOMAIN running : running[i].end = next <=> i \notin I
        /\ D = {running[i].task : i \in (DOMAIN running) \ I}
        /\ \E i \in DOMAIN running : running[i].end = next
        /\ Orders(o, D) /\ D \in SUBSET G.tasks /\ D \subseteq TasksOf(entries)
        /\ \A e \in entries : e.task \in D => e.outcome = "running" /\ e.end = next
        /\ \A e \in entries : e.outcome = "running" => next <= e.end
        /\ entries' = EndAll(entries, D, "completed", next)
        /\ log' = log \o Batch(o, next, "completed")
  BY AdvanceTells
<1>6. PICK i0 \in DOMAIN running : running[i0].end = next
  BY <1>5
<1>7. next \in Nat
  BY <1>5
<1> DEFINE T == EndAll(entries, D, "completed", next)
<1>8. /\ \A e \in entries : e.task \in D => e.outcome = "running" /\ e.end = next
      /\ \A e \in entries : e.outcome = "running" => next <= e.end
      /\ D \in SUBSET G.tasks
  BY <1>5
<1>9. entries' = T /\ time' = next
  BY <1>5
<1>10. \A e \in entries : /\ e.start \in Int /\ e.end \in Int /\ e.start <= time /\ e.task \in G.tasks
                          /\ e.outcome = "running" => time <= e.end /\ e.end <= DueBy(G, E, e.task)
  BY <1>4 DEF Books, Booked, Timed
<1>11. time <= next /\ next <= E.deadline
  <2>1. PICK f \in entries : f.task = running[i0].task /\ f.outcome = "running" /\ f.end = running[i0].end
    BY <1>4, <1>6 DEF Runs
  <2>2. f.task \in G.tasks /\ f.end = next /\ time <= next /\ next <= DueBy(G, E, f.task)
    BY <1>6, <1>10, <2>1
  <2>3. DueBy(G, E, f.task) <= E.deadline /\ DueBy(G, E, f.task) \in Int /\ E.deadline \in Int
    BY <1>3, <2>2 DEF DueBy, Least, GraphShape, EnvelopeShape
  <2> QED
    BY <1>7, <2>2, <2>3
<1>12. Books(G, E, T, next, "planning")
  BY <1>4, <1>7, <1>8, <1>11, BooksEnd
<1>13. \A e \in entries : e.start \in Int /\ e.end \in Int /\ (e.task \in D => next <= e.end)
  BY <1>7, <1>10, <1>8
<1>14. next \in Int
  BY <1>7
<1>15. SlotsKept(E, T)
  BY <1>3, <1>4, <1>13, <1>14, SlotsEnd
<1>16. EffectsApart(G, T)
  BY <1>4, <1>13, <1>14, EffectsEnd
<1>17. AccountsKept(E, T, used, risk)
  <2>1. \A e \in entries : e.risk \in Int /\ \A u \in Units : e.use[u] \in Int
    BY <1>3, <1>4, BookedNumbers DEF Books
  <2> QED
    BY <1>4, <2>1, AccountsEnd
<1>18. TasksOf(T) = TasksOf(entries) /\ EntrySet(T)
  BY <1>4, EndingGives
<1>19. SkipsSound(G, T, skipped)
  BY <1>4, <1>18 DEF SkipsSound
<1>20. Runs(G, T, running')
  <2>1. Runs(G, T, Picked(running, I))
    BY <1>4, <1>5, RunsEnd
  <2> QED
    BY <1>5, <2>1
<1>21. Logged(G, log', T, skipped, next, "planning")
  <2>1. "completed" \in Outcomes
    BY DEF Outcomes
  <2>2. Logged(G, log \o Batch(o, next, "completed"), T, skipped, next, "planning")
    BY <1>4, <1>5, <1>11, <2>1, LogEnds
  <2> QED
    BY <1>5, <2>2
<1>22. Affordable(G, E, T, used, risk)
  <2>1. T # {} => entries # {}
    BY DEF EndAll
  <2> HIDE DEF T
  <2> QED
    BY <1>4, <1>18, <2>1 DEF Affordable
<1>23. Passed(G, T, skipped, <<>>)
  BY DEF Passed, Distinct
<1> HIDE DEF T
<1> QED
  BY <1>1, <1>2, <1>7, <1>9, <1>11, <1>12, <1>15, <1>16, <1>17, <1>19, <1>20, <1>21, <1>22, <1>23 DEF SInv

\* Every step of schedule keeps the invariant.
THEOREM StepsKeep ==
  ASSUME SInv, [ScheduleStep \/ Returned]_vars
  PROVE  SInv'
<1>1. CASE ScheduleStep
  BY <1>1, SkipBlockedKeeps, OpenPassKeeps, StartKeeps, HoldKeeps, SkipUnaffordableKeeps, RefuseKeeps,
     AdvanceKeeps, PassAgainKeeps, CompleteKeeps DEF ScheduleStep
<1>2. CASE UNCHANGED vars
  BY <1>2 DEF vars, SInv, G, E
<1> QED
  BY <1>1, <1>2 DEF Returned

\* The invariant of schedule holds of every plan with a graph and an envelope that validate.
THEOREM SchedulesKeep == ScheduleSpec => []SInv
<1>1. ScheduleInit => SInv
  <2> SUFFICES ASSUME ScheduleInit PROVE SInv
    OBVIOUS
  <2>1. GoodPlan(plan) /\ Fresh
    BY PlansAssumption DEF ScheduleInit, Admitted, GoodPlan
  <2> QED
    BY <2>1, FreshKeeps
<1>2. SInv /\ [ScheduleStep \/ Returned]_vars => SInv'
  BY StepsKeep
<1> QED
  BY <1>1, <1>2, PTL DEF ScheduleSpec

-----------------------------------------------------------------------------
(* The bound. *)

\* The peak that _peak_concurrency finds is within the slots.
LEMMA PeaksAreBounded ==
  ASSUME NEW S, IsFiniteSet(S), NEW k \in Nat, \A e \in S : e.start \in Nat,
         \A s \in Nat : Cardinality(Live(S, s)) <= k
  PROVE  PeakConcurrency(S) <= k
<1> DEFINE h == [e \in S |-> Cardinality(Live(S, e.start))]
           C == {h[e] : e \in S}
<1>1. ASSUME NEW e \in S PROVE h[e] \in Nat /\ h[e] <= k
  <2>1. Live(S, e.start) \subseteq S
    BY DEF Live
  <2>2. IsFiniteSet(Live(S, e.start)) /\ Cardinality(Live(S, e.start)) \in Nat
    BY <2>1, FS_Subset, FS_CardinalityType
  <2> QED
    BY <2>2
<1>2. C = {Cardinality({f \in S : f.start <= e.start /\ e.start < f.end}) : e \in S}
  BY DEF Live
<1> HIDE DEF h
<1>3. IsFiniteSet(C)
  BY ImageFinite
<1>4. C \in SUBSET Int /\ \A y \in C : y <= k
  BY <1>1
<1>5. PeakConcurrency(S) = Largest(C)
  BY <1>2 DEF PeakConcurrency
<1> HIDE DEF C
<1>6. Largest(C) <= k
  BY <1>3, <1>4, LargestProperties
<1> QED
  BY <1>5, <1>6

\* The work of entries that share k slots until an end takes at least a k-th of it.
LEMMA WorkFits ==
  ASSUME NEW S, IsFiniteSet(S), NEW k \in Nat \ {0}, NEW m \in Nat,
         \A e \in S : e.start \in Nat /\ e.end \in Nat /\ e.start <= e.end /\ e.end <= m,
         \A s \in Nat : Cardinality(Live(S, s)) <= k
  PROVE  /\ CeilDiv(SumOver(S, [e \in S |-> e.end - e.start]), k) \in Int
         /\ CeilDiv(SumOver(S, [e \in S |-> e.end - e.start]), k) <= m
<1> DEFINE from == [e \in S |-> e.start]
           to == [e \in S |-> e.end]
           length == [e \in S |-> e.end - e.start]
           a == SumFunctionOnSet(length, S)
<1>1. \A e \in S : from[e] = e.start /\ to[e] = e.end /\ length[e] = to[e] - from[e] /\ length[e] \in Int
  OBVIOUS
<1>2. \A s \in Nat : Cardinality({e \in S : from[e] <= s /\ s < to[e]}) <= k
  <2> SUFFICES ASSUME NEW s \in Nat PROVE Cardinality({e \in S : from[e] <= s /\ s < to[e]}) <= k
    OBVIOUS
  <2>1. {e \in S : from[e] <= s /\ s < to[e]} = Live(S, s)
    BY <1>1 DEF Live
  <2> QED
    BY <2>1
<1>3. length = [e \in S |-> to[e] - from[e]]
  OBVIOUS
<1> HIDE DEF from, to, length
<1>4. \A e \in S : from[e] \in Int /\ to[e] \in Int /\ 0 <= from[e] /\ from[e] <= to[e] /\ to[e] <= m
  BY <1>1
<1>5. k \in Nat
  OBVIOUS
<1>6. SumFunctionOnSet([e \in S |-> to[e] - from[e]], S) <= k * m
  BY <1>2, <1>4, <1>5, IntervalsFill
<1>7. a \in Int
  BY <1>1, SumType
<1>8. a <= k * m
  BY <1>3, <1>6
<1> HIDE DEF a
<1>9. CeilDiv(a, k) \in Int /\ CeilDiv(a, k) <= m
  BY <1>7, <1>8, CeilDivBound
<1> QED
  BY <1>9 DEF a, length, SumOver

\* How long the task of each entry took.
LengthOf(S, t) == (CHOOSE e \in S : e.task = t).end - (CHOOSE e \in S : e.task = t).start
Lengths(S) == [t \in TasksOf(S) |-> LengthOf(S, t)]

\* The lengths of entries are times.
LEMMA LengthsAreTimes ==
  ASSUME NEW S, EntrySet(S), NEW e \in S
  PROVE  /\ (CHOOSE f \in S : f.task = e.task) = e
         /\ e.task \in TasksOf(S) /\ Lengths(S)[e.task] = e.end - e.start
<1>1. \A f \in S : f.task = e.task => f = e
  BY DEF EntrySet
<1>2. (CHOOSE f \in S : f.task = e.task) = e
  BY <1>1
<1> QED
  BY <1>2 DEF TasksOf, Lengths, LengthOf

\* No chain of work is longer than the time from its first start to the end.
LEMMA RanksFit ==
  ASSUME NEW g, GraphShape(g), ValidGraph(g), NEW S, EntrySet(S), NEW m \in Nat,
         \A e \in S : /\ e.task \in g.tasks /\ e.start \in Nat /\ e.end \in Nat
                      /\ e.start <= e.end /\ e.end <= m /\ Preceded(g, S, e)
  PROVE  \A t \in TasksOf(S) : /\ UpwardRanks(g, Lengths(S), TasksOf(S))[t] \in Int
                               /\ UpwardRanks(g, Lengths(S), TasksOf(S))[t] <= m
<1> DEFINE T == TasksOf(S)
           rank == UpwardRanks(g, Lengths(S), T)
           Bad == {t \in T : \E e \in S : e.task = t /\ ~(rank[t] <= m - e.start)}
<1>1. T \in SUBSET g.tasks /\ \A t \in T : \E e \in S : e.task = t
  BY DEF TasksOf
<1>2. \A t \in T : Lengths(S)[t] \in Int
  BY <1>1, LengthsAreTimes
<1>3. TasksAreClosed(g) /\ Acyclic(g)
  BY GoodGraphs
<1> HIDE DEF T
<1>4. rank \in [T -> Int] /\ Ranks(rank, g, Lengths(S), T)
  BY <1>1, <1>2, <1>3, RanksExist
<1>5. \A t \in T : rank[t] = Lengths(S)[t] + Largest({rank[c] : c \in Successors(g, t) \cap T})
  <2> HIDE DEF rank
  <2> QED
    BY <1>4 DEF Ranks
<1> HIDE DEF rank
<1>6. Bad = {}
  <2> SUFFICES ASSUME Bad # {} PROVE FALSE
    OBVIOUS
  <2>1. Bad \in SUBSET g.tasks
    BY <1>1
  <2>2. PICK t \in Bad : \A c \in Bad : t \notin g.deps[c]
    <3> HIDE DEF Bad
    <3> QED
      BY <1>3, <2>1, SinksExist
  <2>3. PICK e \in S : e.task = t /\ ~(rank[t] <= m - e.start)
    OBVIOUS
  <2> DEFINE C == Successors(g, t) \cap T
             R == {rank[c] : c \in C}
  <2>4. ASSUME NEW c \in C PROVE rank[c] \in Int /\ rank[c] <= m - e.end
    <3>1. c \in T /\ t \in g.deps[c] /\ c \notin Bad
      BY <2>2 DEF Successors
    <3>2. PICK f \in S : f.task = c
      BY <1>1, <3>1
    <3>3. rank[c] <= m - f.start
      BY <3>1, <3>2
    <3>4. PICK d \in S : d.task = t /\ d.end <= f.start
      BY <3>1, <3>2 DEF Preceded
    <3>5. d = e
      BY <2>3, <3>4 DEF EntrySet
    <3>6. rank[c] \in Int
      BY <1>4, <3>1
    <3> QED
      BY <3>3, <3>4, <3>5, <3>6
  <2>5. IsFiniteSet(R)
    <3>1. IsFiniteSet(C)
      BY <1>1, <1>3, FS_Subset DEF TasksAreClosed
    <3> HIDE DEF C
    <3> QED
      BY <3>1, ImageFinite
  <2>6. R \in SUBSET Int /\ \A y \in R : y <= m - e.end
    <3> HIDE DEF C
    <3> QED
      BY <2>4
  <2> HIDE DEF R
  <2>7. Largest(R) \in Int /\ (Largest(R) = 0 \/ Largest(R) <= m - e.end)
    BY <2>5, <2>6, LargestProperties
  <2>8. rank[t] = (e.end - e.start) + Largest(R)
    BY <1>5, <2>3, LengthsAreTimes DEF R
  <2> QED
    BY <2>3, <2>7, <2>8
<1>7. ASSUME NEW t \in T PROVE rank[t] \in Int /\ rank[t] <= m
  <2>1. PICK e \in S : e.task = t
    BY <1>1
  <2>2. rank[t] <= m - e.start
    BY <1>6, <2>1
  <2>3. rank[t] \in Int
    BY <1>4
  <2> QED
    BY <2>2, <2>3
<1> QED
  BY <1>7 DEF T, rank

\* The parts the two bounds are the largest of.
ChainsOf(g, S) == {UpwardRanks(g, Lengths(S), TasksOf(S))[t] : t \in TasksOf(S)}
WorkOf(S) == SumOver(S, [e \in S |-> e.end - e.start])
ShareOf(env, S, p) == CeilDiv(WorkOf(OfProviders(S, {p})), Slots(env, p))
SharesOf(env, S) == {ShareOf(env, S, p) : p \in {e.provider : e \in S}}

\* The parts of _model_bound: the longest path, all work, and each provider's.
LEMMA ModelBoundParts ==
  ASSUME NEW g, GraphShape(g), ValidGraph(g), NEW env, NEW S, EntrySet(S),
         \A e \in S : e.task \in g.tasks /\ e.start \in Nat /\ e.end \in Nat
  PROVE  ModelBound(g, env, S)
           = Largest(ChainsOf(g, S) \cup {CeilDiv(WorkOf(S), env.parallelism)} \cup SharesOf(env, S))
<1> DEFINE T == TasksOf(S)
           length == [t \in {e.task : e \in S} |-> LET e == CHOOSE e \in S : e.task = t IN e.end - e.start]
           work(W) == SumOver(W, [e \in W |-> e.end - e.start])
           ranks == UpwardRanks(g, length, DOMAIN length)
<1>1. length = Lengths(S) /\ DOMAIN length = T
  BY DEF Lengths, LengthOf, TasksOf
<1>2. DOMAIN ranks = T
  <2>1. T \in SUBSET g.tasks /\ \A t \in T : Lengths(S)[t] \in Int
    BY LengthsAreTimes DEF TasksOf
  <2>2. UpwardRanks(g, Lengths(S), T) \in [T -> Int]
    <3> HIDE DEF T
    <3> QED
      BY <2>1, GoodGraphs, RanksExist
  <2> HIDE DEF length, T
  <2> QED
    BY <1>1, <2>2
<1>3. {ranks[t] : t \in DOMAIN ranks} = ChainsOf(g, S)
  <2> HIDE DEF length
  <2>1. ranks = UpwardRanks(g, Lengths(S), TasksOf(S))
    BY <1>1
  <2> QED
    BY <1>2, <2>1 DEF ChainsOf
<1>4. work(S) = WorkOf(S)
  BY DEF WorkOf
<1>5. {CeilDiv(work({e \in S : e.provider = p}), Least(ProviderLimit(env, p), env.parallelism))
         : p \in {e.provider : e \in S}} = SharesOf(env, S)
  <2>1. ASSUME NEW p
        PROVE  CeilDiv(work({e \in S : e.provider = p}), Least(ProviderLimit(env, p), env.parallelism))
                 = ShareOf(env, S, p)
    <3>1. {e \in S : e.provider = p} = OfProviders(S, {p})
      BY DEF OfProviders
    <3>2. work({e \in S : e.provider = p}) = WorkOf(OfProviders(S, {p}))
      BY <3>1 DEF WorkOf
    <3> QED
      BY <3>2 DEF ShareOf, Slots
  <2> QED
    BY <2>1 DEF SharesOf
<1>6. ModelBound(g, env, S)
        = Largest({ranks[t] : t \in DOMAIN ranks}
             \union {CeilDiv(work(S), env.parallelism)}
             \union {CeilDiv(work({e \in S : e.provider = p}),
                             Least(ProviderLimit(env, p), env.parallelism))
                     : p \in {e.provider : e \in S}})
  BY DEF ModelBound
<1> QED
  BY <1>3, <1>4, <1>5, <1>6

\* No schedule ends before the bound of its own entries.
LEMMA BoundFits ==
  ASSUME NEW g, GraphShape(g), ValidGraph(g), NEW env, EnvelopeShape(env), ValidEnvelope(env),
         NEW S, EntrySet(S), SlotsKept(env, S), NEW m \in Nat,
         \A e \in S : /\ e.task \in g.tasks /\ e.start \in Nat /\ e.end \in Nat
                      /\ e.start <= e.end /\ e.end <= m /\ Preceded(g, S, e)
  PROVE  ModelBound(g, env, S) \in Int /\ ModelBound(g, env, S) <= m
<1> DEFINE A == ChainsOf(g, S)
           x == CeilDiv(WorkOf(S), env.parallelism)
           B == SharesOf(env, S)
<1>1. IsFiniteSet(S) /\ IsFiniteSet(TasksOf(S)) /\ IsFiniteSet({e.provider : e \in S})
  <2> DEFINE h == [e \in S |-> e.task]
             k == [e \in S |-> e.provider]
  <2>1. IsFiniteSet(S)
    BY DEF EntrySet
  <2>2. {h[e] : e \in S} = TasksOf(S) /\ {k[e] : e \in S} = {e.provider : e \in S}
    BY DEF TasksOf
  <2> HIDE DEF h, k
  <2>3. IsFiniteSet({h[e] : e \in S}) /\ IsFiniteSet({k[e] : e \in S})
    BY <2>1, ImageFinite
  <2> QED
    BY <2>1, <2>2, <2>3
<1>2. IsFiniteSet(A) /\ A \in SUBSET Int /\ \A y \in A : y <= m
  <2> DEFINE rank == UpwardRanks(g, Lengths(S), TasksOf(S))
  <2>1. \A t \in TasksOf(S) : rank[t] \in Int /\ rank[t] <= m
    BY RanksFit
  <2> HIDE DEF rank
  <2>2. IsFiniteSet({rank[t] : t \in TasksOf(S)})
    BY <1>1, ImageFinite
  <2>3. A = {rank[t] : t \in TasksOf(S)}
    BY DEF ChainsOf, rank
  <2> QED
    BY <2>1, <2>2, <2>3
<1>3. x \in Int /\ x <= m
  <2>1. env.parallelism \in Nat \ {0}
    BY SlotsArePositive
  <2>2. \A s \in Nat : Cardinality(Live(S, s)) <= env.parallelism
    BY DEF SlotsKept
  <2> QED
    BY <1>1, <2>1, <2>2, WorkFits DEF WorkOf
<1>4. ASSUME NEW p \in {e.provider : e \in S} PROVE ShareOf(env, S, p) \in Int /\ ShareOf(env, S, p) <= m
  <2> DEFINE P == OfProviders(S, {p})
  <2>1. P \subseteq S /\ \A s : Live(P, s) = OfProviders(Live(S, s), {p})
    BY DEF OfProviders, Live
  <2>2. Slots(env, p) \in Nat \ {0}
    BY SlotsArePositive
  <2>3. \A s \in Nat : Cardinality(OfProviders(Live(S, s), {p})) <= Slots(env, p)
    BY DEF SlotsKept
  <2> HIDE DEF P
  <2>4. IsFiniteSet(P) /\ \A s \in Nat : Cardinality(Live(P, s)) <= Slots(env, p)
    BY <1>1, <2>1, <2>3, FS_Subset
  <2>5. \A e \in P : e.start \in Nat /\ e.end \in Nat /\ e.start <= e.end /\ e.end <= m
    BY <2>1
  <2>6. CeilDiv(WorkOf(P), Slots(env, p)) \in Int /\ CeilDiv(WorkOf(P), Slots(env, p)) <= m
    BY <2>2, <2>4, <2>5, WorkFits DEF WorkOf
  <2> QED
    BY <2>6 DEF ShareOf, P
<1>5. IsFiniteSet(B) /\ B \in SUBSET Int /\ \A y \in B : y <= m
  <2> DEFINE Q == {e.provider : e \in S}
             h == [p \in Q |-> ShareOf(env, S, p)]
  <2>1. B = {h[p] : p \in Q} /\ \A p \in Q : h[p] \in Int /\ h[p] <= m
    BY <1>4 DEF SharesOf
  <2> HIDE DEF h, Q, B
  <2>2. IsFiniteSet({h[p] : p \in Q})
    BY <1>1, ImageFinite DEF Q
  <2> QED
    BY <2>1, <2>2
<1> HIDE DEF A, x, B
<1> DEFINE C == A \cup {x} \cup B
<1>6. IsFiniteSet(C) /\ C \in SUBSET Int /\ (\A y \in C : y <= m) /\ C # {}
  <2>1. IsFiniteSet(A \cup {x})
    BY <1>2, FS_AddElement
  <2> QED
    BY <1>2, <1>3, <1>5, <2>1, FS_Union
<1> HIDE DEF C
<1>7. Largest(C) \in Int /\ Largest(C) <= m
  BY <1>6, LargestProperties
<1> QED
  BY <1>7, ModelBoundParts DEF C, A, x, B

\* The scheduler's own bound is the verifier's.
LEMMA BoundsAgree ==
  ASSUME GraphShape(G), ValidGraph(G), EntrySet(entries),
         \A e \in entries : e.task \in G.tasks /\ e.start \in Nat /\ e.end \in Nat
  PROVE  EntryLowerBound = ModelBound(G, E, entries)
<1> DEFINE S == entries
           T == TasksOf(S)
           of(t) == CHOOSE e \in S : e.task = t
           provider == [t \in T |-> of(t).provider]
           share(p) == CeilDiv(SumOver({t \in T : provider[t] = p}, Lengths(S)), Slots(E, p))
<1>1. /\ \A e \in S : e.task \in T /\ of(e.task) = e /\ Lengths(S)[e.task] = e.end - e.start
                      /\ provider[e.task] = e.provider /\ e.end - e.start \in Int
      /\ \A t \in T : \E e \in S : e.task = t
      /\ \A e, f \in S : e.task = f.task => e = f
      /\ IsFiniteSet(S)
  BY LengthsAreTimes DEF TasksOf, EntrySet
<1> HIDE DEF T, provider
<1>2. ASSUME NEW P, NEW W \in SUBSET T, \A e \in S : e \in P <=> e.task \in W, P \in SUBSET S
      PROVE  SumOver(W, Lengths(S)) = WorkOf(P)
  <2> DEFINE h == [e \in P |-> e.task]
             f == [e \in P |-> e.end - e.start]
             l == Lengths(S)
  <2>1. IsFiniteSet(P)
    BY <1>1, <1>2, FS_Subset
  <2>2. \A e \in P : h[e] \in W /\ f[e] = l[h[e]] /\ f[e] \in Int
    BY <1>1, <1>2
  <2>3. \A e, d \in P : h[e] = h[d] => e = d
    BY <1>1, <1>2
  <2>4. \A t \in W : \E e \in P : h[e] = t
    BY <1>1, <1>2
  <2> HIDE DEF h, f, l
  <2>5. SumFunctionOnSet(f, P) = SumFunctionOnSet(l, W)
    BY <2>1, <2>2, <2>3, <2>4, SumRenamed
  <2> QED
    BY <2>5 DEF f, l, SumOver, WorkOf
<1>3. SumOver(T, Lengths(S)) = WorkOf(S)
  <2>1. T \in SUBSET T /\ S \in SUBSET S /\ \A e \in S : e \in S <=> e.task \in T
    BY <1>1
  <2> QED
    BY <1>2, <2>1
<1>4. ASSUME NEW p PROVE share(p) = ShareOf(E, S, p)
  <2> DEFINE W == {t \in T : provider[t] = p}
             P == OfProviders(S, {p})
  <2>1. W \in SUBSET T /\ P \in SUBSET S /\ \A e \in S : e \in P <=> e.task \in W
    BY <1>1 DEF OfProviders
  <2> HIDE DEF W, P
  <2>2. SumOver(W, Lengths(S)) = WorkOf(P)
    BY <1>2, <2>1
  <2> QED
    BY <2>2 DEF ShareOf, W, P
<1>5. {provider[t] : t \in T} = {e.provider : e \in S}
  <2>1. ASSUME NEW t \in T PROVE \E e \in S : e.provider = provider[t]
    BY <1>1
  <2>2. ASSUME NEW e \in S PROVE \E t \in T : provider[t] = e.provider
    BY <1>1
  <2> QED
    BY <2>1, <2>2
<1>6. {share(p) : p \in {provider[t] : t \in T}} = SharesOf(E, S)
  <2> HIDE DEF share
  <2> QED
    BY <1>4, <1>5 DEF SharesOf
<1>7. EntryLowerBound = DurationLowerBound(Lengths(S), provider)
  BY DEF EntryLowerBound, Lengths, LengthOf, T, provider, TasksOf
<1>8. DOMAIN Lengths(S) = T
  BY DEF Lengths, T
<1>9. DurationLowerBound(Lengths(S), provider)
        = Largest({UpwardRanks(G, Lengths(S), T)[t] : t \in T}
             \union {CeilDiv(SumOver(T, Lengths(S)), E.parallelism)}
             \union {share(p) : p \in {provider[t] : t \in T}})
  BY <1>8 DEF DurationLowerBound, Slots
<1>10. {UpwardRanks(G, Lengths(S), T)[t] : t \in T} = ChainsOf(G, S)
  BY DEF ChainsOf, T
<1>11. EntryLowerBound = Largest(ChainsOf(G, S) \cup {CeilDiv(WorkOf(S), E.parallelism)} \cup SharesOf(E, S))
  <2> HIDE DEF share
  <2> QED
    BY <1>3, <1>6, <1>7, <1>9, <1>10
<1> QED
  BY <1>11, ModelBoundParts

-----------------------------------------------------------------------------
(* What the log tells is what the verifier asks for. *)

\* A sequence without repetition is as long as the set of its members.
LEMMA DistinctCounts ==
  ASSUME NEW V, NEW s \in Seq(V), Distinct(s)
  PROVE  Len(s) = Cardinality(ToSet(s))
<1>1. DOMAIN s = 1..Len(s) /\ Len(s) \in Nat
  OBVIOUS
<1>2. s \in Bijection(1..Len(s), ToSet(s))
  <2>1. s \in [1..Len(s) -> ToSet(s)]
    <3>1. s \in [1..Len(s) -> V]
      OBVIOUS
    <3> QED
      BY <1>1, <3>1 DEF ToSet
  <2>2. \A i, j \in 1..Len(s) : s[i] = s[j] => i = j
    BY <1>1 DEF Distinct
  <2>3. \A v \in ToSet(s) : \E i \in 1..Len(s) : s[i] = v
    BY <1>1 DEF ToSet
  <2> QED
    BY <2>1, <2>2, <2>3 DEF Bijection, Injection, Surjection, IsInjective
<1> QED
  BY <1>1, <1>2, FS_CountingElements DEF ExistsBijection

\* What the log tells of an entry is what the verifier asks of a task that was started.
LEMMA LivesAlign ==
  ASSUME NEW r, NEW e \in r.entries, \A f \in r.entries : f.task = e.task => f = e,
         LifeTold(r.events, e), e.outcome \in Outcomes
  PROVE  Aligned(r, e.task)
<1>1. EntryOf(r, e.task) = e
  BY DEF EntryOf
<1>2. e.outcome # "running"
  BY DEF Outcomes
<1>3. PICK i, j, k \in DOMAIN r.events :
        /\ Told(r.events, e.task, "selected") = {i} /\ Told(r.events, e.task, "started") = {j} /\ i < j
        /\ r.events[j].time = e.start /\ Told(r.events, e.task, "skipped") = {}
        /\ j < k /\ Told(r.events, e.task, "completed") \cup Told(r.events, e.task, "cancelled") = {k}
        /\ r.events[k].type = e.outcome /\ r.events[k].time = e.end
  BY <1>2 DEF LifeTold
<1>4. \A type : Said(r, e.task, type) = Told(r.events, e.task, type)
  BY DEF Said, Told
<1> QED
  BY <1>1, <1>3, <1>4 DEF Aligned

-----------------------------------------------------------------------------
(* The verifier's parts, of a schedule that has returned. *)

\* What the parts are read from.
Sound(g, env, r, now, ph) ==
  /\ GraphShape(g) /\ ValidGraph(g) /\ EnvelopeShape(env) /\ ValidEnvelope(env)
  /\ now \in Nat /\ now <= env.deadline /\ ph \in {"completed", "failed"}
  /\ r.makespan = now /\ r.success = (ph = "completed")
  /\ Books(g, env, r.entries, now, ph) /\ SlotsKept(env, r.entries)
  /\ AccountsKept(env, r.entries, r.used, r.risk)
  /\ SkipsSound(g, r.entries, r.skipped)
  /\ Logged(g, r.events, r.entries, r.skipped, now, ph)
  /\ ph = "completed" => /\ DoneOf(r.entries) \cup ToSet(r.skipped) = g.tasks
                         /\ r.bound = ModelBound(g, env, r.entries)

\* What soundness says of each entry.
LEMMA SoundEntries ==
  ASSUME NEW g, NEW env, NEW r, NEW now, NEW ph, Sound(g, env, r, now, ph)
  PROVE  /\ EntrySet(r.entries)
         /\ \A e \in r.entries :
              /\ e.task \in g.tasks /\ e.start \in Nat /\ e.end \in Nat /\ e.start <= e.end /\ e.end <= now
              /\ e.outcome \in Outcomes /\ e.optional = (e.task \in g.optional)
              /\ Booked(g, env, e) /\ Preceded(g, r.entries, e)
              /\ ph = "completed" => e.outcome = "completed"
<1>1. Books(g, env, r.entries, now, ph) /\ now \in Nat /\ ph # "planning"
  BY DEF Sound
<1>2. ASSUME NEW e \in r.entries
      PROVE  /\ e.task \in g.tasks /\ e.start \in Nat /\ e.end \in Nat /\ e.start <= e.end /\ e.end <= now
             /\ e.outcome \in Outcomes /\ e.optional = (e.task \in g.optional)
             /\ Booked(g, env, e) /\ Preceded(g, r.entries, e)
             /\ ph = "completed" => e.outcome = "completed"
  <2>1. Booked(g, env, e) /\ Timed(e, now, ph) /\ Preceded(g, r.entries, e)
    BY <1>1 DEF Books
  <2>2. /\ e.task \in g.tasks /\ e.start \in Nat /\ e.end \in Nat /\ e.start <= e.end
        /\ e.optional = (e.task \in g.optional)
    BY <2>1 DEF Booked
  <2>3. e.end <= now /\ e.outcome \in Outcomes /\ (ph = "completed" => e.outcome = "completed")
    BY <1>1, <2>1, <2>2 DEF Timed, Outcomes
  <2> QED
    BY <2>1, <2>2, <2>3
<1>3. EntrySet(r.entries)
  BY <1>1 DEF Books
<1> QED
  BY <1>2, <1>3

\* The checks of verify_conservation on entries.
LEMMA EntriesVerify ==
  ASSUME NEW g, NEW env, NEW r, NEW now, NEW ph, Sound(g, env, r, now, ph)
  PROVE  /\ EntryIdentity(g, r) /\ EntryShape(g, r) /\ ProfileIntegrity(g, r)
         /\ TaskDeadlines(g, env, r) /\ DependencyOrder(g, r)
<1>1. /\ EntrySet(r.entries)
      /\ \A e \in r.entries :
              /\ e.task \in g.tasks /\ e.start \in Nat /\ e.end \in Nat /\ e.start <= e.end /\ e.end <= now
              /\ e.outcome \in Outcomes /\ e.optional = (e.task \in g.optional)
              /\ Booked(g, env, e) /\ Preceded(g, r.entries, e)
  BY SoundEntries
<1>2. EntryIdentity(g, r)
  BY <1>1 DEF EntryIdentity, Scheduled, EntrySet
<1>3. EntryShape(g, r)
  <2>1. r.makespan = now
    BY DEF Sound
  <2> QED
    BY <1>1, <2>1 DEF EntryShape
<1>4. ProfileIntegrity(g, r)
  <2> SUFFICES ASSUME NEW e \in r.entries
               PROVE  \E p \in g.profiles[e.task] :
                        /\ p.id = e.backend /\ p.provider = e.provider
                        /\ p.quality >= g.minq[e.task]
                        /\ p.use = e.use /\ p.risk = e.risk
                        /\ IF e.outcome = "completed" THEN e.end - e.start = p.p95 ELSE e.end - e.start <= p.p95
    BY DEF ProfileIntegrity
  <2>1. PICK p \in Qualified(g, e.task) :
          /\ p.id = e.backend /\ p.provider = e.provider /\ p.use = e.use /\ p.risk = e.risk
          /\ e.end - e.start <= p.p95
          /\ e.outcome # "cancelled" => e.end - e.start = p.p95
    BY <1>1 DEF Booked
  <2> QED
    BY <2>1 DEF Qualified
<1>5. TaskDeadlines(g, env, r)
  BY <1>1 DEF TaskDeadlines, Booked
<1>6. DependencyOrder(g, r)
  BY <1>1 DEF DependencyOrder, Preceded
<1> QED
  BY <1>2, <1>3, <1>4, <1>5, <1>6

\* Its checks on the log as a whole.
LEMMA EventsVerify ==
  ASSUME NEW g, NEW env, NEW r, NEW now, NEW ph, Sound(g, env, r, now, ph)
  PROVE  EventOrder(r) /\ EventIdentity(g, r) /\ RunLifecycle(r)
<1> DEFINE l == r.events
<1>1. /\ LogShape(g, l, now) /\ RunTold(l, now, ph) /\ r.makespan = now /\ r.success = (ph = "completed")
      /\ ph \in {"completed", "failed"}
  BY DEF Sound, Logged
<1>2. l \in Seq(Happenings(g)) /\ DOMAIN l = 1..Len(l) /\ Len(l) \in Nat /\ Len(l) >= 1
  <2>1. l \in Seq(Happenings(g)) /\ Len(l) >= 1
    BY <1>1 DEF LogShape
  <2> QED
    BY <2>1
<1>3. \A i \in 1..Len(l) : l[i] \in Happenings(g)
  BY <1>2
<1>4. EventOrder(r)
  <2> SUFFICES ASSUME NEW i \in DOMAIN l PROVE l[i].time >= 0 /\ (i > 1 => l[i - 1].time <= l[i].time)
    BY DEF EventOrder
  <2>1. l[i].time \in Nat
    BY <1>2, <1>3 DEF Happenings
  <2>2. i > 1 => l[i - 1].time <= l[i].time
    BY <1>1, <1>2 DEF LogShape
  <2> QED
    BY <2>1, <2>2
<1>5. EventIdentity(g, r)
  BY <1>2, <1>3 DEF EventIdentity, Happenings
<1>6. RunLifecycle(r)
  <2>1. \A type : SaidRun(r, type) = ToldOfRun(l, type)
    BY DEF SaidRun, ToldOfRun
  <2>2. ToldOfRun(l, "run.started") = {1} /\ l[1].time = 0
    BY <1>1, <1>2 DEF ToldOfRun, LogShape
  <2>3. l[Len(l)].time = now
    BY <1>1 DEF RunTold
  <2>4. CASE ph = "completed"
    BY <1>1, <2>1, <2>2, <2>3, <2>4 DEF RunLifecycle, RunTold
  <2>5. CASE ph = "failed"
    BY <1>1, <2>1, <2>2, <2>3, <2>5 DEF RunLifecycle, RunTold
  <2> QED
    BY <1>1, <2>4, <2>5
<1> QED
  BY <1>4, <1>5, <1>6

\* Its checks on the life of each task, on skips and on completeness.
LEMMA TasksVerify ==
  ASSUME NEW g, NEW env, NEW r, NEW now, NEW ph, Sound(g, env, r, now, ph)
  PROVE  TaskLifecycle(g, r) /\ SkipIntegrity(g, r) /\ Completeness(g, r)
<1> DEFINE S == r.entries
           l == r.events
           sk == r.skipped
<1>1. /\ \A e \in S : LifeTold(l, e)
      /\ \A t \in g.tasks : t \notin TasksOf(S) => IdleTold(l, t, sk)
      /\ SkipsSound(g, S, sk) /\ GraphShape(g) /\ ValidGraph(g)
      /\ r.success = (ph = "completed")
  BY DEF Sound, Logged
<1>2. /\ EntrySet(S)
      /\ \A e \in S : /\ e.task \in g.tasks /\ e.outcome \in Outcomes
                      /\ ph = "completed" => e.outcome = "completed"
  BY SoundEntries
<1>3. \A t, type : Said(r, t, type) = Told(l, t, type)
  BY DEF Said, Told
<1>4. \A t \in TasksOf(S) : \E e \in S : e.task = t
  BY DEF TasksOf
<1>5. TaskLifecycle(g, r)
  <2>1. ASSUME NEW t \in g.tasks, t \in Scheduled(r) PROVE Aligned(r, t)
    <3>1. PICK e \in S : e.task = t
      BY <2>1 DEF Scheduled
    <3>2. \A f \in S : f.task = e.task => f = e
      BY <1>2 DEF EntrySet
    <3> QED
      BY <1>1, <1>2, <3>1, <3>2, LivesAlign
  <2>2. ASSUME NEW t \in g.tasks, t \notin Scheduled(r)
        PROVE  /\ \A type \in TaskEvents \ {"skipped"} : Said(r, t, type) = {}
               /\ Cardinality(Said(r, t, "skipped")) <= 1
    <3>1. IdleTold(l, t, sk)
      BY <1>1, <2>2 DEF Scheduled, TasksOf
    <3>2. Told(l, t, "skipped") = {} \/ \E k \in DOMAIN l : Told(l, t, "skipped") = {k}
      BY <3>1 DEF IdleTold
    <3>3. Cardinality(Told(l, t, "skipped")) <= 1
      <4>1. Cardinality({}) = 0 /\ \A k : Cardinality({k}) = 1
        BY FS_EmptySet, FS_Singleton
      <4> QED
        BY <3>2, <4>1
    <3> QED
      BY <1>3, <3>1, <3>3 DEF IdleTold
  <2> QED
    BY <2>1, <2>2 DEF TaskLifecycle
<1>6. SkipIntegrity(g, r)
  <2>1. sk \in Seq(g.tasks) /\ Distinct(sk) /\ ToSet(sk) \subseteq g.tasks
        /\ ToSet(sk) \cap TasksOf(S) = {} /\ ToSet(sk) \cap MustFinish(g) = {}
    <3>1. sk \in Seq(g.tasks) /\ Distinct(sk)
      BY <1>1 DEF SkipsSound
    <3>2. \A i \in DOMAIN sk : sk[i] \in g.tasks
      BY <3>1
    <3> QED
      BY <1>1, <3>1, <3>2 DEF SkipsSound, ToSet
  <2>2. Len(sk) = Cardinality(ToSet(sk))
    BY <2>1, DistinctCounts
  <2>3. ASSUME NEW t \in g.tasks PROVE t \in ToSet(sk) <=> Told(l, t, "skipped") # {}
    <3>1. CASE t \in TasksOf(S)
      BY <1>1, <1>4, <2>1, <3>1 DEF LifeTold
    <3>2. CASE t \notin TasksOf(S)
      BY <1>1, <3>2 DEF IdleTold
    <3> QED
      BY <3>1, <3>2
  <2>4. ToSet(sk) = TasksSaid(g, r, "skipped")
    BY <1>3, <2>1, <2>3 DEF TasksSaid
  <2> QED
    BY <2>1, <2>2, <2>4 DEF SkipIntegrity, Scheduled, TasksOf
<1>7. Completeness(g, r)
  <2> SUFFICES ASSUME ph = "completed"
               PROVE  /\ MustFinish(g) \subseteq Finished(r)
                      /\ TasksSaid(g, r, "cancelled") = {}
                      /\ Finished(r) \union ToSet(r.skipped) = g.tasks
    BY <1>1 DEF Completeness
  <2>1. Finished(r) \union ToSet(sk) = g.tasks
    BY DEF Finished, DoneOf, Sound
  <2>2. MustFinish(g) \subseteq g.tasks
    BY <1>1, MandatoryCloses
  <2>3. ToSet(sk) \cap MustFinish(g) = {}
    BY <1>1 DEF SkipsSound, ToSet
  <2>4. ASSUME NEW t \in g.tasks PROVE Told(l, t, "cancelled") = {}
    <3>1. CASE t \notin TasksOf(S)
      <4>1. IdleTold(l, t, sk)
        BY <1>1, <3>1
      <4> QED
        BY <4>1 DEF IdleTold, TaskEvents
    <3>2. CASE t \in TasksOf(S)
      <4>1. PICK e \in S : e.task = t
        BY <1>4, <3>2
      <4>2. e.outcome = "completed" /\ LifeTold(l, e)
        BY <1>1, <1>2
      <4>3. PICK k \in DOMAIN l : Told(l, t, "completed") \cup Told(l, t, "cancelled") = {k} /\ l[k].type = "completed"
        BY <4>1, <4>2 DEF LifeTold
      <4>4. \A i \in Told(l, t, "cancelled") : i = k /\ l[i].type = "cancelled"
        BY <4>3 DEF Told
      <4> QED
        BY <4>3, <4>4
    <3> QED
      BY <3>1, <3>2
  <2>5. TasksSaid(g, r, "cancelled") = {}
    BY <1>3, <2>4 DEF TasksSaid
  <2> QED
    BY <2>1, <2>2, <2>3, <2>5
<1> QED
  BY <1>5, <1>6, <1>7

\* Its checks on totals, slots, the bound and the deadline.
LEMMA TotalsVerify ==
  ASSUME NEW g, NEW env, NEW r, NEW now, NEW ph, Sound(g, env, r, now, ph)
  PROVE  /\ Accounting(r) /\ Caps(env, r) /\ Reliability(env, r) /\ ConcurrencyCaps(env, r)
         /\ BoundHolds(g, env, r) /\ RunDeadline(env, r)
<1> DEFINE S == r.entries
<1>1. /\ GraphShape(g) /\ ValidGraph(g) /\ EnvelopeShape(env) /\ ValidEnvelope(env) /\ now \in Nat
      /\ SlotsKept(env, S) /\ AccountsKept(env, S, r.used, r.risk)
      /\ r.makespan = now /\ now <= env.deadline /\ r.success = (ph = "completed")
      /\ ph = "completed" => r.bound = ModelBound(g, env, S)
  BY DEF Sound
<1>2. /\ EntrySet(S) /\ IsFiniteSet(S)
      /\ \A e \in S : /\ e.task \in g.tasks /\ e.start \in Nat /\ e.end \in Nat /\ e.start <= e.end
                      /\ e.end <= now /\ Preceded(g, S, e)
  BY SoundEntries DEF EntrySet
<1>3. Summed(r) = r.used /\ SummedRisk(r) = r.risk
  BY <1>1 DEF AccountsKept, Summed, SummedRisk
<1>4. Accounting(r) /\ Caps(env, r) /\ Reliability(env, r)
  BY <1>1, <1>3 DEF AccountsKept, Accounting, Caps, Reliability
<1>5. ConcurrencyCaps(env, r)
  <2>1. PeakConcurrency(S) <= env.parallelism
    <3>1. env.parallelism \in Nat
      BY <1>1, SlotsArePositive
    <3>2. \A s \in Nat : Cardinality(Live(S, s)) <= env.parallelism
      BY <1>1 DEF SlotsKept
    <3> QED
      BY <1>2, <3>1, <3>2, PeaksAreBounded
  <2>2. ASSUME NEW p \in {e.provider : e \in S}
        PROVE  PeakConcurrency({e \in S : e.provider = p}) <= Least(ProviderLimit(env, p), env.parallelism)
    <3> DEFINE P == OfProviders(S, {p})
    <3>1. P \subseteq S /\ (\A s : Live(P, s) = OfProviders(Live(S, s), {p})) /\ P = {e \in S : e.provider = p}
      BY DEF OfProviders, Live
    <3>2. Slots(env, p) \in Nat
      BY <1>1, SlotsArePositive
    <3>3. \A s \in Nat : Cardinality(OfProviders(Live(S, s), {p})) <= Slots(env, p)
      BY <1>1 DEF SlotsKept
    <3> HIDE DEF P
    <3>4. IsFiniteSet(P) /\ \A s \in Nat : Cardinality(Live(P, s)) <= Slots(env, p)
      BY <1>2, <3>1, <3>3, FS_Subset
    <3>5. \A e \in P : e.start \in Nat
      BY <1>2, <3>1
    <3>6. PeakConcurrency(P) <= Slots(env, p)
      BY <3>2, <3>4, <3>5, PeaksAreBounded
    <3> QED
      BY <3>1, <3>6 DEF Slots
  <2> QED
    BY <2>1, <2>2 DEF ConcurrencyCaps
<1>6. BoundHolds(g, env, r)
  <2>1. ModelBound(g, env, S) <= now
    BY <1>1, <1>2, BoundFits
  <2> QED
    BY <1>1, <2>1 DEF BoundHolds
<1>7. RunDeadline(env, r)
  BY <1>1 DEF RunDeadline
<1> QED
  BY <1>4, <1>5, <1>6, <1>7

-----------------------------------------------------------------------------
(* The theorems of the scheduler. *)

\* What schedule returns is sound.
LEMMA ResultsAreSound ==
  ASSUME SInv, phase # "planning"
  PROVE  Sound(G, E, Result, time, phase)
<1>1. /\ Result.makespan = time /\ Result.success = (phase = "completed")
      /\ Result.entries = entries /\ Result.used = used /\ Result.risk = risk
      /\ Result.skipped = skipped /\ Result.events = log
      /\ phase = "completed" => Result.bound = EntryLowerBound
  BY DEF Result
<1>2. GraphShape(G) /\ ValidGraph(G) /\ EnvelopeShape(E) /\ ValidEnvelope(E)
  BY DEF SInv, GoodPlan, G, E
<1>3. EntryLowerBound = ModelBound(G, E, entries)
  <2>1. EntrySet(entries) /\ \A e \in entries : e.task \in G.tasks /\ e.start \in Nat /\ e.end \in Nat
    BY DEF SInv, Books, Booked
  <2> QED
    BY <1>2, <2>1, BoundsAgree
<1>4. /\ phase \in {"completed", "failed"} /\ time \in Nat /\ time <= E.deadline
      /\ Books(G, E, entries, time, phase) /\ SlotsKept(E, entries)
      /\ AccountsKept(E, entries, used, risk) /\ SkipsSound(G, entries, skipped)
      /\ Logged(G, log, entries, skipped, time, phase)
      /\ phase = "completed" => DoneOf(entries) \cup ToSet(skipped) = G.tasks
  BY DEF SInv
<1> HIDE DEF Result
<1> QED
  BY <1>1, <1>2, <1>3, <1>4 DEF Sound

\* The invariant gives all that is verified of a schedule that has ended.
LEMMA ConservedFromSInv == SInv => SchedulesAreConserved
<1> SUFFICES ASSUME SInv, phase # "planning"
             PROVE  /\ AccountsHold(G, E, Result)
                    /\ PureTasksAreFree(G) => VerifyConservation(G, E, Result)
  BY DEF SchedulesAreConserved
<1>1. AccountsHold(G, E, Result)
  <2> HIDE DEF Result
  <2>1. Sound(G, E, Result, time, phase)
    BY ResultsAreSound
  <2>2. /\ EntryIdentity(G, Result) /\ EntryShape(G, Result) /\ ProfileIntegrity(G, Result)
        /\ TaskDeadlines(G, E, Result) /\ DependencyOrder(G, Result)
    BY <2>1, EntriesVerify
  <2>3. EventOrder(Result) /\ EventIdentity(G, Result) /\ RunLifecycle(Result)
    BY <2>1, EventsVerify
  <2>4. TaskLifecycle(G, Result) /\ SkipIntegrity(G, Result) /\ Completeness(G, Result)
    BY <2>1, TasksVerify
  <2>5. /\ Accounting(Result) /\ Caps(E, Result) /\ Reliability(E, Result) /\ ConcurrencyCaps(E, Result)
        /\ BoundHolds(G, E, Result) /\ RunDeadline(E, Result)
    BY <2>1, TotalsVerify
  <2> QED
    BY <2>2, <2>3, <2>4, <2>5 DEF AccountsHold
<1>2. ASSUME PureTasksAreFree(G) PROVE EffectSerialization(G, Result)
  <2>1. Result.entries = entries
    BY DEF Result
  <2>2. EffectsApart(G, entries) /\ \A e \in entries : e.task \in G.tasks
    BY DEF SInv, Books, Booked
  <2>3. \A e \in entries : G.effect[e.task].resource # "none" => G.effect[e.task].kind # "pure"
    BY <1>2, <2>2 DEF PureTasksAreFree
  <2> QED
    BY <2>1, <2>2, <2>3 DEF EffectSerialization, EffectsApart
<1> QED
  BY <1>1, <1>2 DEF VerifyConservation

\* The invariant gives the joint plan of the protected work.
LEMMA AffordableFromSInv == SInv => MandatoryStaysAffordable
BY DEF SInv, MandatoryStaysAffordable, Affordable, Protected, MustFinish, Started, TasksOf

\* The invariant gives the meaning of a certificate's status.
LEMMA CertificateFromSInv == SInv => CertificateMeansItsStatus
<1> SUFFICES ASSUME SInv, phase # "planning" PROVE CertificateMeansItsStatus
  BY DEF CertificateMeansItsStatus
<1> DEFINE r == Result
           c == Certificate(E, r)
           work == {pair[1] : pair \in c.chosen}
<1>1. /\ r.makespan = time /\ r.success = (phase = "completed")
      /\ r.entries = entries /\ r.used = used /\ r.risk = risk /\ r.skipped = skipped
  BY DEF Result
<1> HIDE DEF r
<1>2. /\ c.status = Status(r) /\ c.skipped = skipped
      /\ c.chosen = {<<e.task, e.backend>> : e \in entries}
      /\ c.checks.deadline = (r.success /\ r.makespan <= E.deadline)
      /\ \A u \in Units : c.checks.budget[u] = (r.used[u] <= E.caps[u])
      /\ c.checks.success = (r.success /\ r.risk <= E.risk)
      /\ c.checks.work = r.success
  BY <1>1 DEF Certificate
<1> HIDE DEF c
<1>3. work = TasksOf(entries)
  <2>1. ASSUME NEW x \in work PROVE x \in TasksOf(entries)
    <3>1. PICK e \in entries : x = <<e.task, e.backend>>[1]
      BY <1>2
    <3> QED
      BY <3>1 DEF TasksOf
  <2>2. ASSUME NEW e \in entries PROVE e.task \in work
    <3>1. <<e.task, e.backend>> \in c.chosen /\ <<e.task, e.backend>>[1] = e.task
      BY <1>2
    <3> QED
      BY <3>1
  <2> QED
    BY <2>1, <2>2 DEF TasksOf
<1> HIDE DEF work
<1>4. /\ time <= E.deadline /\ risk <= E.risk /\ \A u \in Units : used[u] <= E.caps[u]
      /\ SkipsSound(G, entries, skipped) /\ GraphShape(G) /\ ValidGraph(G)
      /\ \A e \in entries : e.task \in G.tasks
      /\ phase = "completed" => DoneOf(entries) \cup ToSet(skipped) = G.tasks
  BY DEF SInv, AccountsKept, Within, GoodPlan, G, Books, Booked
<1>5. c.status = "refused" <=> ~r.success
  BY <1>2 DEF Status
<1>6. c.status = "refused" <=> ~(c.checks.deadline /\ c.checks.success /\ c.checks.work
                                 /\ \A u \in Units : c.checks.budget[u])
  BY <1>1, <1>2, <1>4, <1>5
<1>7. ASSUME c.status # "refused"
      PROVE  Protected \subseteq work /\ G.tasks \ work = ToSet(skipped)
  <2>1. DoneOf(entries) \cup ToSet(skipped) = G.tasks
    BY <1>1, <1>4, <1>5, <1>7
  <2>2. DoneOf(entries) \subseteq work /\ work \subseteq G.tasks
    BY <1>3, <1>4 DEF DoneOf, TasksOf
  <2>3. ToSet(skipped) \cap work = {} /\ ToSet(skipped) \cap Protected = {}
    BY <1>3, <1>4 DEF SkipsSound, ToSet, Protected, MustFinish
  <2>4. Protected \subseteq G.tasks
    BY <1>4, MandatoryCloses DEF Protected, MustFinish
  <2> QED
    BY <2>1, <2>2, <2>3, <2>4
<1>8. ASSUME c.status = "feasible" PROVE work = G.tasks
  <2>1. skipped = <<>> /\ c.status # "refused"
    BY <1>1, <1>2, <1>8 DEF Status
  <2>2. ToSet(skipped) = {}
    BY <2>1 DEF ToSet
  <2>3. work \subseteq G.tasks
    BY <1>3, <1>4 DEF TasksOf
  <2> QED
    BY <1>7, <2>1, <2>2, <2>3
<1> QED
  BY <1>2, <1>6, <1>7, <1>8 DEF CertificateMeansItsStatus, c, r, work

\* For every plan that validates, each schedule that ends, completed or refused, passes
\* verify_conservation; its check of effects asks in addition that pure tasks name no resource.
THEOREM SchedulesConserve == ScheduleSpec => []SchedulesAreConserved
BY SchedulesKeep, ConservedFromSInv, PTL

\* After the first start of a schedule the protected work that has not started can always be
\* paid for together: _choose_profile never spends what it needs.
THEOREM MandatoryIsAffordable == ScheduleSpec => []MandatoryStaysAffordable
BY SchedulesKeep, AffordableFromSInv, PTL

\* FeasibilityAnalyzer.analyze refuses exactly when a check fails, and what it certifies
\* contains all mandatory work.
THEOREM CertificatesMeanTheirStatus == ScheduleSpec => []CertificateMeansItsStatus
BY SchedulesKeep, CertificateFromSInv, PTL

-----------------------------------------------------------------------------
(* The log explains itself: what it says before each event allows the event. *)

\* The tasks of which l says this before its i-th event, and those that run there by it.
SaidBy(l, i, type) == {l[j].task : j \in {k \in 1..(i - 1) : l[k].type = type}}
RunningAt(l, i) == SaidBy(l, i, "started") \ (SaidBy(l, i, "completed") \cup SaidBy(l, i, "cancelled"))
HereAt(l, i, S, p) == {t \in RunningAt(l, i) : \E e \in S : e.task = t /\ e.provider = p}

WithinSlots(env, cap, l, i, S) ==
  /\ Cardinality(RunningAt(l, i)) <= cap
  /\ \A e \in S : Cardinality(HereAt(l, i, S, e.provider)) <= ProviderLimit(env, e.provider)

\* One more may run, even if it is t.
LeavesSlot(env, cap, l, i, S, t) ==
  /\ Cardinality(RunningAt(l, i)) < cap
  /\ \A e \in S : e.task = t => Cardinality(HereAt(l, i, S, e.provider)) < ProviderLimit(env, e.provider)

\* By what is said before each event there is a slot for a task that starts with it, and the
\* dependencies of a task that starts or ends with it have completed.
Paced(g, env, cap, l, S) ==
  /\ \A i \in 1..(Len(l) + 1) : WithinSlots(env, cap, l, i, S)
  /\ \A i \in DOMAIN l :
       /\ l[i].type \in {"selected", "started"} => LeavesSlot(env, cap, l, i, S, l[i].task)
       /\ l[i].type \in TaskEvents \ {"skipped"} => g.deps[l[i].task] \subseteq SaidBy(l, i, "completed")

\* What was planned at the start of each entry meets its deadline, also if it was cut short.
InTime(g, env, S) ==
  \A e \in S : \A p \in g.profiles[e.task] :
    p.id = e.backend /\ p.provider = e.provider => e.start + p.p95 <= DueBy(g, env, e.task)

\* A longer log, of the same entries.  What it adds may end tasks, or start one as its last
\* event, if the log so far leaves a slot.
Continues(g, env, cap, l, m, S) ==
  /\ l \in Seq(Happenings(g)) /\ m \in Seq(Happenings(g)) /\ Len(l) <= Len(m)
  /\ \A i \in 1..Len(l) : m[i] = l[i]
  /\ \A i \in (Len(l) + 1)..Len(m) :
       /\ m[i].type = "started" => i = Len(m)
       /\ m[i].type \in {"selected", "started"} => LeavesSlot(env, cap, l, Len(l) + 1, S, m[i].task)
       /\ m[i].type \in TaskEvents \ {"skipped"} => g.deps[m[i].task] \subseteq SaidBy(l, Len(l) + 1, "completed")

\* What is said before an event is a finite set, which depends on no later event.
LEMMA SaidIsFinite ==
  ASSUME NEW V, NEW l \in Seq(V), NEW i \in 1..(Len(l) + 1)
  PROVE  /\ \A type : IsFiniteSet(SaidBy(l, i, type))
         /\ IsFiniteSet(RunningAt(l, i)) /\ Cardinality(RunningAt(l, i)) \in Nat
         /\ \A S, p : IsFiniteSet(HereAt(l, i, S, p)) /\ Cardinality(HereAt(l, i, S, p)) \in Nat
<1>1. ASSUME NEW type PROVE IsFiniteSet(SaidBy(l, i, type))
  <2> DEFINE I == {k \in 1..(i - 1) : l[k].type = type}
             c == [j \in I |-> l[j].task]
  <2>1. IsFiniteSet(I)
    <3>1. IsFiniteSet(1..(i - 1))
      BY FS_Interval
    <3> QED
      BY <3>1, FS_Subset
  <2> HIDE DEF I
  <2>2. IsFiniteSet({c[j] : j \in I})
    <3> HIDE DEF c
    <3> QED
      BY <2>1, ImageFinite
  <2>3. {c[j] : j \in I} = {l[j].task : j \in I}
    OBVIOUS
  <2> QED
    BY <2>2, <2>3 DEF SaidBy, I
<1>2. IsFiniteSet(RunningAt(l, i))
  <2>1. RunningAt(l, i) \subseteq SaidBy(l, i, "started")
    BY DEF RunningAt
  <2> QED
    BY <1>1, <2>1, FS_Subset
<1>3. ASSUME NEW S, NEW p PROVE IsFiniteSet(HereAt(l, i, S, p)) /\ Cardinality(HereAt(l, i, S, p)) \in Nat
  <2>1. HereAt(l, i, S, p) \subseteq RunningAt(l, i)
    BY DEF HereAt
  <2> QED
    BY <1>2, <2>1, FS_Subset, FS_CardinalityType
<1> QED
  BY <1>1, <1>2, <1>3, FS_CardinalityType

\* A set with at most one member more has at most one member more.
LEMMA OneMoreAtMost ==
  ASSUME NEW A, NEW B, IsFiniteSet(A), NEW x, B \subseteq A \cup {x}
  PROVE  Cardinality(A) \in Nat /\ Cardinality(B) \in Nat /\ Cardinality(B) <= Cardinality(A) + 1
<1>1. /\ IsFiniteSet(A \cup {x})
      /\ Cardinality(A \cup {x}) = IF x \in A THEN Cardinality(A) ELSE Cardinality(A) + 1
  BY FS_AddElement
<1>2. IsFiniteSet(B) /\ Cardinality(B) <= Cardinality(A \cup {x})
  BY <1>1, FS_Subset
<1>3. Cardinality(A) \in Nat /\ Cardinality(B) \in Nat /\ Cardinality(A \cup {x}) \in Nat
  BY <1>1, <1>2, FS_CardinalityType
<1> QED
  BY <1>1, <1>2, <1>3

\* What a longer log says before its events.
LEMMA SaidContinues ==
  ASSUME NEW g, NEW env, NEW cap, NEW l, NEW m, NEW S, Continues(g, env, cap, l, m, S)
  PROVE  /\ \A i \in 1..(Len(l) + 1) :
              /\ \A type : SaidBy(m, i, type) = SaidBy(l, i, type)
              /\ RunningAt(m, i) = RunningAt(l, i) /\ \A p : HereAt(m, i, S, p) = HereAt(l, i, S, p)
         /\ \A i \in (Len(l) + 1)..(Len(m) + 1) :
              /\ \A type : SaidBy(l, Len(l) + 1, type) \subseteq SaidBy(m, i, type)
              /\ i <= Len(m) => RunningAt(m, i) \subseteq RunningAt(l, Len(l) + 1)
              /\ Len(l) < Len(m) => RunningAt(m, i) \subseteq RunningAt(l, Len(l) + 1) \cup {m[Len(m)].task}
              /\ m[Len(m)].type # "started" => RunningAt(m, i) \subseteq RunningAt(l, Len(l) + 1)
<1>1. /\ Len(l) \in Nat /\ Len(m) \in Nat /\ Len(l) <= Len(m)
      /\ \A i \in 1..Len(l) : m[i] = l[i]
      /\ \A i \in (Len(l) + 1)..Len(m) : m[i].type = "started" => i = Len(m)
  BY DEF Continues
<1> DEFINE N == Len(l)
           M == Len(m)
<1> HIDE DEF N, M
<1>2. N \in Nat /\ M \in Nat /\ N <= M /\ N = Len(l) /\ M = Len(m)
  BY <1>1 DEF N, M
<1>3. ASSUME NEW i \in 1..(N + 1)
      PROVE  /\ \A type : SaidBy(m, i, type) = SaidBy(l, i, type)
             /\ RunningAt(m, i) = RunningAt(l, i) /\ \A p : HereAt(m, i, S, p) = HereAt(l, i, S, p)
  <2>1. \A k \in 1..(i - 1) : m[k] = l[k]
    BY <1>1, <1>2
  <2>2. \A type : SaidBy(m, i, type) = SaidBy(l, i, type)
    BY <2>1 DEF SaidBy
  <2>3. RunningAt(m, i) = RunningAt(l, i)
    BY <2>2 DEF RunningAt
  <2> QED
    BY <2>2, <2>3 DEF HereAt
<1>4. ASSUME NEW i \in (N + 1)..(M + 1)
      PROVE  /\ \A type : SaidBy(l, N + 1, type) \subseteq SaidBy(m, i, type)
             /\ i <= M => RunningAt(m, i) \subseteq RunningAt(l, N + 1)
             /\ N < M => RunningAt(m, i) \subseteq RunningAt(l, N + 1) \cup {m[M].task}
             /\ m[M].type # "started" => RunningAt(m, i) \subseteq RunningAt(l, N + 1)
  <2>1. ASSUME NEW type PROVE SaidBy(l, N + 1, type) \subseteq SaidBy(m, i, type)
    <3>1. \A k \in 1..((N + 1) - 1) : m[k] = l[k] /\ k \in 1..(i - 1)
      BY <1>1, <1>2
    <3> QED
      BY <3>1 DEF SaidBy
  <2>2. ASSUME NEW t \in RunningAt(m, i), t \notin RunningAt(l, N + 1)
        PROVE  i = M + 1 /\ N < M /\ t = m[M].task /\ m[M].type = "started"
    <3>1. PICK j \in 1..(i - 1) : m[j].type = "started" /\ m[j].task = t
      BY DEF RunningAt, SaidBy
    <3>2. t \notin SaidBy(l, N + 1, "completed") /\ t \notin SaidBy(l, N + 1, "cancelled")
      BY <2>1 DEF RunningAt
    <3>3. t \notin SaidBy(l, N + 1, "started")
      BY <2>2, <3>2 DEF RunningAt
    <3>4. j > N
      <4> SUFFICES ASSUME j <= N PROVE FALSE
        BY <1>2
      <4>1. j \in 1..((N + 1) - 1) /\ l[j] = m[j]
        BY <1>1, <1>2
      <4> QED
        BY <3>1, <3>3, <4>1 DEF SaidBy
    <3>5. j \in (N + 1)..M
      BY <1>2, <3>4
    <3>6. j = M
      BY <1>1, <1>2, <3>1, <3>5
    <3> QED
      BY <1>2, <3>1, <3>4, <3>6
  <2> QED
    BY <1>2, <2>1, <2>2
<1> QED
  BY <1>2, <1>3, <1>4

\* A log that goes on like this keeps its pace.
LEMMA PaceContinues ==
  ASSUME NEW g, NEW env, EnvelopeShape(env), ValidEnvelope(env), NEW cap \in Nat,
         NEW l, NEW m, NEW S, Continues(g, env, cap, l, m, S), Paced(g, env, cap, l, S)
  PROVE  Paced(g, env, cap, m, S)
<1> DEFINE N == Len(l)
           M == Len(m)
           last == N + 1
<1>1. /\ l \in Seq(Happenings(g)) /\ m \in Seq(Happenings(g))
      /\ N \in Nat /\ M \in Nat /\ N <= M /\ DOMAIN l = 1..N /\ DOMAIN m = 1..M
      /\ \A i \in 1..N : m[i] = l[i]
  BY DEF Continues
<1>2. /\ \A i \in 1..last :
              /\ \A type : SaidBy(m, i, type) = SaidBy(l, i, type)
              /\ RunningAt(m, i) = RunningAt(l, i) /\ \A p : HereAt(m, i, S, p) = HereAt(l, i, S, p)
      /\ \A i \in last..(M + 1) :
              /\ \A type : SaidBy(l, last, type) \subseteq SaidBy(m, i, type)
              /\ i <= M => RunningAt(m, i) \subseteq RunningAt(l, last)
              /\ N < M => RunningAt(m, i) \subseteq RunningAt(l, last) \cup {m[M].task}
              /\ m[M].type # "started" => RunningAt(m, i) \subseteq RunningAt(l, last)
  BY SaidContinues
<1>3. \A p : ProviderLimit(env, p) \in Nat
  BY SlotsArePositive
<1>4. WithinSlots(env, cap, l, last, S)
  BY <1>1 DEF Paced
<1>5. /\ IsFiniteSet(RunningAt(l, last)) /\ Cardinality(RunningAt(l, last)) \in Nat
      /\ \A p : IsFiniteSet(HereAt(l, last, S, p)) /\ Cardinality(HereAt(l, last, S, p)) \in Nat
  <2>1. last \in 1..(Len(l) + 1)
    BY <1>1
  <2> QED
    BY <1>1, <2>1, SaidIsFinite
<1>6. ASSUME NEW i \in last..(M + 1), RunningAt(m, i) \subseteq RunningAt(l, last)
      PROVE  /\ Cardinality(RunningAt(m, i)) \in Nat
             /\ Cardinality(RunningAt(m, i)) <= Cardinality(RunningAt(l, last))
             /\ \A p : /\ Cardinality(HereAt(m, i, S, p)) \in Nat
                       /\ Cardinality(HereAt(m, i, S, p)) <= Cardinality(HereAt(l, last, S, p))
  <2>1. \A p : HereAt(m, i, S, p) \subseteq HereAt(l, last, S, p)
    BY <1>6 DEF HereAt
  <2>2. /\ Cardinality(RunningAt(m, i)) \in Nat
        /\ Cardinality(RunningAt(m, i)) <= Cardinality(RunningAt(l, last))
    BY <1>5, <1>6, FS_Subset, FS_CardinalityType
  <2> QED
    BY <1>5, <2>1, <2>2, FS_Subset, FS_CardinalityType
<1>7. ASSUME NEW i \in last..(M + 1), RunningAt(m, i) \subseteq RunningAt(l, last), NEW t
      PROVE  /\ WithinSlots(env, cap, m, i, S)
             /\ LeavesSlot(env, cap, l, last, S, t) => LeavesSlot(env, cap, m, i, S, t)
  <2>1. /\ Cardinality(RunningAt(m, i)) \in Nat
        /\ Cardinality(RunningAt(m, i)) <= Cardinality(RunningAt(l, last))
        /\ \A p : /\ Cardinality(HereAt(m, i, S, p)) \in Nat
                  /\ Cardinality(HereAt(m, i, S, p)) <= Cardinality(HereAt(l, last, S, p))
    BY <1>6, <1>7
  <2>2. WithinSlots(env, cap, m, i, S)
    <3>1. Cardinality(RunningAt(m, i)) <= cap
      BY <1>4, <1>5, <2>1 DEF WithinSlots
    <3>2. ASSUME NEW e \in S PROVE Cardinality(HereAt(m, i, S, e.provider)) <= ProviderLimit(env, e.provider)
      <4>1. Cardinality(HereAt(l, last, S, e.provider)) <= ProviderLimit(env, e.provider)
        BY <1>4 DEF WithinSlots
      <4> QED
        BY <1>3, <1>5, <2>1, <4>1
    <3> QED
      BY <3>1, <3>2 DEF WithinSlots
  <2>3. ASSUME LeavesSlot(env, cap, l, last, S, t) PROVE LeavesSlot(env, cap, m, i, S, t)
    <3>1. Cardinality(RunningAt(m, i)) < cap
      BY <1>5, <2>1, <2>3 DEF LeavesSlot
    <3>2. ASSUME NEW e \in S, e.task = t PROVE Cardinality(HereAt(m, i, S, e.provider)) < ProviderLimit(env, e.provider)
      <4>1. Cardinality(HereAt(l, last, S, e.provider)) < ProviderLimit(env, e.provider)
        BY <2>3, <3>2 DEF LeavesSlot
      <4> QED
        BY <1>3, <1>5, <2>1, <4>1
    <3> QED
      BY <3>1, <3>2 DEF LeavesSlot
  <2> QED
    BY <2>2, <2>3
<1>8. ASSUME NEW i \in 1..(M + 1) PROVE WithinSlots(env, cap, m, i, S)
  <2>1. CASE i \in 1..last
    <3>1. WithinSlots(env, cap, l, i, S)
      BY <2>1 DEF Paced
    <3> QED
      BY <1>2, <2>1, <3>1 DEF WithinSlots
  <2>2. CASE i \in last..M
    <3>1. i \in last..(M + 1) /\ i <= M
      BY <1>1, <2>2
    <3>2. RunningAt(m, i) \subseteq RunningAt(l, last)
      BY <1>2, <3>1
    <3> QED
      BY <1>7, <3>1, <3>2
  <2>3. CASE i = M + 1 /\ N < M /\ m[M].type = "started"
    <3> DEFINE t == m[M].task
    <3>1. M \in (Len(l) + 1)..Len(m) /\ i \in last..(M + 1)
      BY <1>1, <2>3
    <3>2. LeavesSlot(env, cap, l, last, S, t)
      BY <2>3, <3>1 DEF Continues
    <3>3. RunningAt(m, i) \subseteq RunningAt(l, last) \cup {t}
      BY <1>2, <2>3, <3>1
    <3> HIDE DEF t, last
    <3>4. Cardinality(RunningAt(m, i)) <= cap
      <4>1. /\ Cardinality(RunningAt(l, last)) \in Nat /\ Cardinality(RunningAt(m, i)) \in Nat
            /\ Cardinality(RunningAt(m, i)) <= Cardinality(RunningAt(l, last)) + 1
        BY <1>5, <3>3, OneMoreAtMost
      <4>2. Cardinality(RunningAt(l, last)) < cap
        BY <3>2 DEF LeavesSlot
      <4> QED
        BY <4>1, <4>2
    <3>5. ASSUME NEW e \in S PROVE Cardinality(HereAt(m, i, S, e.provider)) <= ProviderLimit(env, e.provider)
      <4> DEFINE A == HereAt(l, last, S, e.provider)
                 B == HereAt(m, i, S, e.provider)
      <4>1. B \subseteq A \cup {t} /\ (t \in B => \E f \in S : f.task = t /\ f.provider = e.provider)
        BY <3>3 DEF HereAt
      <4>2. Cardinality(A) <= ProviderLimit(env, e.provider) /\ ProviderLimit(env, e.provider) \in Nat
            /\ IsFiniteSet(A)
        BY <1>3, <1>4, <1>5 DEF WithinSlots
      <4>3. CASE t \in B
        <5>1. PICK f \in S : f.task = t /\ f.provider = e.provider
          BY <4>1, <4>3
        <5>2. Cardinality(A) < ProviderLimit(env, e.provider)
          BY <3>2, <5>1 DEF LeavesSlot
        <5> HIDE DEF A, B
        <5>3. Cardinality(A) \in Nat /\ Cardinality(B) \in Nat /\ Cardinality(B) <= Cardinality(A) + 1
          BY <4>1, <4>2, OneMoreAtMost
        <5>4. Cardinality(B) <= ProviderLimit(env, e.provider)
          BY <4>2, <5>2, <5>3
        <5> QED
          BY <5>4 DEF B
      <4>4. CASE t \notin B
        <5> HIDE DEF A, B
        <5>1. B \subseteq A
          BY <4>1, <4>4
        <5>2. Cardinality(A) \in Nat /\ Cardinality(B) \in Nat /\ Cardinality(B) <= Cardinality(A)
          BY <4>2, <5>1, FS_Subset, FS_CardinalityType
        <5>3. Cardinality(B) <= ProviderLimit(env, e.provider)
          BY <4>2, <5>2
        <5> QED
          BY <5>3 DEF B
      <4> QED
        BY <4>3, <4>4
    <3> QED
      BY <3>4, <3>5 DEF WithinSlots
  <2>4. CASE i = M + 1 /\ N < M /\ m[M].type # "started"
    <3>1. i \in last..(M + 1)
      BY <1>1, <2>4
    <3>2. RunningAt(m, i) \subseteq RunningAt(l, last)
      BY <1>2, <2>4, <3>1
    <3> QED
      BY <1>7, <3>1, <3>2
  <2>5. i \in 1..last \/ i \in last..M \/ (i = M + 1 /\ N < M)
    BY <1>1
  <2> QED
    BY <2>1, <2>2, <2>3, <2>4, <2>5
<1>9. ASSUME NEW i \in 1..M
      PROVE  /\ m[i].type \in {"selected", "started"} => LeavesSlot(env, cap, m, i, S, m[i].task)
             /\ m[i].type \in TaskEvents \ {"skipped"} => g.deps[m[i].task] \subseteq SaidBy(m, i, "completed")
  <2>1. CASE i \in 1..N
    <3>1. /\ l[i].type \in {"selected", "started"} => LeavesSlot(env, cap, l, i, S, l[i].task)
          /\ l[i].type \in TaskEvents \ {"skipped"} => g.deps[l[i].task] \subseteq SaidBy(l, i, "completed")
      BY <1>1, <2>1 DEF Paced
    <3>2. m[i] = l[i] /\ i \in 1..last
      BY <1>1, <2>1
    <3>3. /\ SaidBy(m, i, "completed") = SaidBy(l, i, "completed")
          /\ RunningAt(m, i) = RunningAt(l, i) /\ \A p : HereAt(m, i, S, p) = HereAt(l, i, S, p)
      BY <1>2, <3>2
    <3> QED
      BY <3>1, <3>2, <3>3 DEF LeavesSlot
  <2>2. CASE i \in last..M
    <3>1. i \in (Len(l) + 1)..Len(m) /\ i \in last..(M + 1) /\ i <= M
      BY <1>1, <2>2
    <3>2. /\ m[i].type \in {"selected", "started"} => LeavesSlot(env, cap, l, last, S, m[i].task)
          /\ m[i].type \in TaskEvents \ {"skipped"} => g.deps[m[i].task] \subseteq SaidBy(l, last, "completed")
      BY <3>1 DEF Continues
    <3>3. RunningAt(m, i) \subseteq RunningAt(l, last) /\ SaidBy(l, last, "completed") \subseteq SaidBy(m, i, "completed")
      BY <1>2, <3>1
    <3>4. LeavesSlot(env, cap, l, last, S, m[i].task) => LeavesSlot(env, cap, m, i, S, m[i].task)
      BY <1>7, <3>1, <3>3
    <3> QED
      BY <3>2, <3>3, <3>4
  <2> QED
    BY <1>1, <2>1, <2>2
<1> QED
  BY <1>1, <1>8, <1>9 DEF Paced

\* In a log, a task that has done nothing is named by nothing, and one that is done completed;
\* no more tasks run than are recorded to run, of each provider neither.
LEMMA LogTellsWhoRuns ==
  ASSUME NEW g, GraphShape(g), NEW l, NEW S, EntrySet(S), NEW sk, NEW now \in Nat,
         Logged(g, l, S, sk, now, "planning"), NEW run, Runs(g, S, run)
  PROVE  /\ DoneOf(S) \subseteq SaidBy(l, Len(l) + 1, "completed")
         /\ RunningAt(l, Len(l) + 1) \subseteq {run[i].task : i \in DOMAIN run}
         /\ \A p : HereAt(l, Len(l) + 1, S, p)
                     \subseteq {run[i].task : i \in {j \in DOMAIN run : run[j].profile.provider = p}}
<1> DEFINE last == Len(l) + 1
<1>1. l \in Seq(Happenings(g)) /\ Len(l) \in Nat /\ DOMAIN l = 1..Len(l) /\ 1..(last - 1) = DOMAIN l
  <2>1. l \in Seq(Happenings(g))
    BY DEF Logged, LogShape
  <2> QED
    BY <2>1
<1>2. \A type : SaidBy(l, last, type) = {l[j].task : j \in {k \in DOMAIN l : l[k].type = type}}
  BY <1>1 DEF SaidBy
<1> HIDE DEF last
<1>3. \A t, type : t \in SaidBy(l, last, type) <=> Told(l, t, type) # {}
  BY <1>2 DEF Told
<1>4. \A e \in S : LifeTold(l, e)
  BY DEF Logged
<1>5. DoneOf(S) \subseteq SaidBy(l, last, "completed")
  <2> SUFFICES ASSUME NEW e \in S, e.outcome = "completed" PROVE e.task \in SaidBy(l, last, "completed")
    BY DEF DoneOf
  <2>1. PICK k \in DOMAIN l : /\ Told(l, e.task, "completed") \cup Told(l, e.task, "cancelled") = {k}
                              /\ l[k].type = e.outcome
    BY <1>4 DEF LifeTold
  <2>2. k \in Told(l, e.task, "completed") \/ k \in Told(l, e.task, "cancelled")
    BY <2>1
  <2>3. k \in Told(l, e.task, "completed")
    BY <2>1, <2>2 DEF Told
  <2> QED
    BY <1>3, <2>3
<1>6. ASSUME NEW t \in RunningAt(l, last) PROVE \E e \in S : e.task = t /\ e.outcome = "running"
  <2>1. Told(l, t, "started") # {} /\ Told(l, t, "completed") = {} /\ Told(l, t, "cancelled") = {}
    BY <1>3 DEF RunningAt
  <2>2. t \in g.tasks
    <3>1. PICK j \in DOMAIN l : l[j].task = t /\ l[j].type = "started"
      BY <2>1 DEF Told
    <3>2. l[j] \in Happenings(g)
      BY <1>1
    <3> QED
      BY <3>1, <3>2 DEF Happenings, RunEvents
  <2>3. t \in TasksOf(S)
    <3>1. ~IdleTold(l, t, sk)
      BY <2>1 DEF IdleTold, TaskEvents
    <3> QED
      BY <2>2, <3>1 DEF Logged
  <2>4. PICK e \in S : e.task = t
    BY <2>3 DEF TasksOf
  <2>5. e.outcome = "running"
    BY <1>4, <2>1, <2>4 DEF LifeTold
  <2> QED
    BY <2>4, <2>5
<1>7. ASSUME NEW t \in RunningAt(l, last) PROVE t \in {run[i].task : i \in DOMAIN run}
  <2>1. PICK e \in S : e.task = t /\ e.outcome = "running"
    BY <1>6
  <2>2. PICK i \in DOMAIN run : run[i].task = e.task
    BY <2>1 DEF Runs
  <2> QED
    BY <2>1, <2>2
<1>8. ASSUME NEW p, NEW t \in HereAt(l, last, S, p)
      PROVE  t \in {run[i].task : i \in {j \in DOMAIN run : run[j].profile.provider = p}}
  <2>1. t \in RunningAt(l, last)
    BY DEF HereAt
  <2>2. PICK e \in S : e.task = t /\ e.outcome = "running"
    BY <1>6, <2>1
  <2>3. e.provider = p
    BY <2>2 DEF HereAt, EntrySet
  <2>4. PICK i \in DOMAIN run : run[i].task = e.task
    BY <2>2 DEF Runs
  <2>5. PICK f \in S : f.task = run[i].task /\ f.provider = run[i].profile.provider
    BY DEF Runs
  <2>6. f = e
    BY <2>4, <2>5 DEF EntrySet
  <2> QED
    BY <2>2, <2>3, <2>4, <2>5, <2>6
<1> QED
  BY <1>5, <1>7, <1>8 DEF last

\* The tasks of some places are no more than the places.
LEMMA PlacesCount ==
  ASSUME NEW V, NEW run \in Seq(V), NEW I \in SUBSET DOMAIN run, NEW A, A \subseteq {run[i].task : i \in I}
  PROVE  /\ Cardinality(A) \in Nat /\ Cardinality(I) \in Nat /\ Len(run) \in Nat
         /\ Cardinality(A) <= Cardinality(I) /\ Cardinality(I) <= Len(run)
<1> DEFINE c == [i \in I |-> run[i].task]
           N == Len(run)
<1>1. N \in Nat /\ DOMAIN run = 1..N
  OBVIOUS
<1> HIDE DEF N
<1>2. IsFiniteSet(1..N) /\ Cardinality(1..N) = N
  BY <1>1, FS_Interval
<1>3. IsFiniteSet(I) /\ Cardinality(I) \in Nat /\ Cardinality(I) <= N
  BY <1>1, <1>2, FS_Subset, FS_CardinalityType
<1>4. {c[i] : i \in I} = {run[i].task : i \in I}
  OBVIOUS
<1> HIDE DEF c
<1>5. IsFiniteSet({c[i] : i \in I}) /\ Cardinality({c[i] : i \in I}) <= Cardinality(I)
      /\ Cardinality({c[i] : i \in I}) \in Nat
  BY <1>3, ImageFinite
<1>6. IsFiniteSet(A) /\ Cardinality(A) \in Nat /\ Cardinality(A) <= Cardinality({c[i] : i \in I})
  <2> DEFINE K == {c[i] : i \in I}
  <2>1. IsFiniteSet(K) /\ A \subseteq K
    BY <1>4, <1>5
  <2> HIDE DEF K
  <2>2. IsFiniteSet(A) /\ Cardinality(A) \in Nat /\ Cardinality(A) <= Cardinality(K)
    BY <2>1, FS_Subset, FS_CardinalityType
  <2> QED
    BY <2>2 DEF K
<1> QED
  BY <1>1, <1>3, <1>5, <1>6 DEF N

\* Of the tasks that l names, S and T give the same providers.
Alike(l, S, T) ==
  \A i \in DOMAIN l : \A p :
    (\E e \in S : e.task = l[i].task /\ e.provider = p) <=> (\E e \in T : e.task = l[i].task /\ e.provider = p)

\* Who runs where is the same for both.
LEMMA HereIsAlike ==
  ASSUME NEW V, NEW l \in Seq(V), NEW S, NEW T, Alike(l, S, T), NEW i \in 1..(Len(l) + 1), NEW p
  PROVE  HereAt(l, i, T, p) = HereAt(l, i, S, p)
<1>1. Len(l) \in Nat /\ DOMAIN l = 1..Len(l)
  OBVIOUS
<1>2. ASSUME NEW t \in RunningAt(l, i)
      PROVE  (\E e \in S : e.task = t /\ e.provider = p) <=> (\E e \in T : e.task = t /\ e.provider = p)
  <2>1. \A j \in 1..(i - 1) : j \in DOMAIN l
    BY <1>1
  <2>2. PICK j \in DOMAIN l : l[j].task = t
    BY <2>1 DEF RunningAt, SaidBy
  <2> QED
    BY <2>2 DEF Alike
<1> QED
  BY <1>2 DEF HereAt

\* The pace of a log depends on nothing else of the entries.
LEMMA PaceOfOthers ==
  ASSUME NEW g, NEW env, EnvelopeShape(env), ValidEnvelope(env), NEW cap,
         NEW V, NEW l \in Seq(V), NEW S, NEW T, Alike(l, S, T), Paced(g, env, cap, l, S)
  PROVE  Paced(g, env, cap, l, T)
<1>1. Len(l) \in Nat /\ DOMAIN l = 1..Len(l)
  OBVIOUS
<1>2. ASSUME NEW i \in 1..(Len(l) + 1), NEW p PROVE HereAt(l, i, T, p) = HereAt(l, i, S, p)
  BY HereIsAlike
<1>3. ASSUME NEW i \in 1..(Len(l) + 1) PROVE WithinSlots(env, cap, l, i, T)
  <2>1. WithinSlots(env, cap, l, i, S)
    BY DEF Paced
  <2>2. ASSUME NEW f \in T PROVE Cardinality(HereAt(l, i, T, f.provider)) <= ProviderLimit(env, f.provider)
    <3>1. CASE HereAt(l, i, S, f.provider) = {}
      <4>1. Cardinality(HereAt(l, i, T, f.provider)) = 0
        BY <1>2, <3>1, FS_EmptySet
      <4>2. ProviderLimit(env, f.provider) \in Nat
        BY SlotsArePositive
      <4> QED
        BY <4>1, <4>2
    <3>2. CASE HereAt(l, i, S, f.provider) # {}
      <4>1. PICK e \in S : e.provider = f.provider
        BY <3>2 DEF HereAt
      <4>2. Cardinality(HereAt(l, i, S, e.provider)) <= ProviderLimit(env, e.provider)
        BY <2>1 DEF WithinSlots
      <4> QED
        BY <1>2, <4>1, <4>2
    <3> QED
      BY <3>1, <3>2
  <2> QED
    BY <2>1, <2>2 DEF WithinSlots
<1>4. ASSUME NEW i \in DOMAIN l, LeavesSlot(env, cap, l, i, S, l[i].task)
      PROVE  LeavesSlot(env, cap, l, i, T, l[i].task)
  <2>1. i \in 1..(Len(l) + 1)
    BY <1>1
  <2>2. ASSUME NEW f \in T, f.task = l[i].task
        PROVE  Cardinality(HereAt(l, i, T, f.provider)) < ProviderLimit(env, f.provider)
    <3>1. PICK e \in S : e.task = l[i].task /\ e.provider = f.provider
      BY <2>2 DEF Alike
    <3>2. Cardinality(HereAt(l, i, S, e.provider)) < ProviderLimit(env, e.provider)
      BY <1>4, <3>1 DEF LeavesSlot
    <3> QED
      BY <1>2, <2>1, <3>1, <3>2
  <2> QED
    BY <1>4, <2>2 DEF LeavesSlot
<1> QED
  BY <1>3, <1>4 DEF Paced

\* Ending entries changes no provider and no plan.
LEMMA EndsAreAlike ==
  ASSUME NEW g, NEW env, NEW l, NEW S, EntrySet(S), NEW D, NEW o, NEW x
  PROVE  /\ Alike(l, S, EndAll(S, D, o, x))
         /\ InTime(g, env, S) => InTime(g, env, EndAll(S, D, o, x))
<1> DEFINE T == EndAll(S, D, o, x)
           c == [e \in S |-> Ended(e, D, o, x)]
<1>1. /\ \A e \in S : /\ c[e] \in T /\ c[e].task = e.task /\ c[e].provider = e.provider
                      /\ c[e].backend = e.backend /\ c[e].start = e.start
      /\ \A f \in T : \E e \in S : f = c[e]
  BY EndingPairs, EndedEntry
<1> HIDE DEF T, c
<1>2. Alike(l, S, T)
  BY <1>1 DEF Alike
<1>3. InTime(g, env, S) => InTime(g, env, T)
  BY <1>1 DEF InTime
<1> QED
  BY <1>2, <1>3 DEF T

\* The places of a batch.
LEMMA BatchPlaces ==
  ASSUME NEW V, NEW l \in Seq(V), NEW T, NEW o \in Seq(T), NEW x, NEW type
  PROVE  LET m == l \o Batch(o, x, type)
         IN /\ Len(m) = Len(l) + Len(o) /\ Len(l) \in Nat /\ Len(o) \in Nat
            /\ \A i \in 1..Len(l) : m[i] = l[i]
            /\ \A i \in (Len(l) + 1)..Len(m) : m[i].type = type /\ m[i].task \in T
<1> DEFINE ev(t) == [time |-> x, type |-> type, task |-> t]
           W == V \cup {ev(t) : t \in T}
           b == Batch(o, x, type)
           m == l \o b
<1>1. Len(l) \in Nat /\ Len(o) \in Nat /\ DOMAIN o = 1..Len(o) /\ \A i \in 1..Len(o) : o[i] \in T
  OBVIOUS
<1>2. b = [i \in 1..Len(o) |-> ev(o[i])]
  BY <1>1 DEF Batch
<1>3. \A i \in 1..Len(o) : b[i] = ev(o[i]) /\ b[i] \in W
  BY <1>1, <1>2
<1>4. ASSUME NEW i \in 1..Len(o) PROVE b[i].type = type /\ b[i].task \in T
  <2>1. b[i] = [time |-> x, type |-> type, task |-> o[i]] /\ o[i] \in T
    BY <1>1, <1>3
  <2> QED
    BY <2>1
<1>5. V \subseteq W
  OBVIOUS
<1> HIDE DEF ev, W, b
<1>6. l \in Seq(W)
  BY <1>5
<1>7. b \in [1..Len(o) -> W]
  BY <1>2, <1>3
<1>8. b \in Seq(W) /\ Len(b) = Len(o)
  BY <1>1, <1>7
<1>9. /\ Len(m) = Len(l) + Len(o)
      /\ \A i \in 1..(Len(l) + Len(o)) : m[i] = IF i <= Len(l) THEN l[i] ELSE b[i - Len(l)]
  BY <1>6, <1>8, JoinedPlaces
<1> HIDE DEF m
<1>10. \A i \in 1..Len(l) : m[i] = l[i]
  BY <1>1, <1>9
<1>11. ASSUME NEW i \in (Len(l) + 1)..Len(m) PROVE m[i].type = type /\ m[i].task \in T
  <2>1. i - Len(l) \in 1..Len(o) /\ m[i] = b[i - Len(l)]
    BY <1>1, <1>9
  <2> QED
    BY <1>4, <2>1
<1>12. Len(m) = Len(l) + Len(o)
  BY <1>9
<1> QED
  BY <1>1, <1>10, <1>11, <1>12 DEF m, b

\* A batch that starts nothing, and ends nothing too early, goes on with the log.
LEMMA BatchContinues ==
  ASSUME NEW g, NEW env, NEW cap, NEW l, NEW now, LogShape(g, l, now), NEW x, NEW T, NEW o \in Seq(T),
         NEW type, type \notin {"selected", "started"},
         type \in TaskEvents \ {"skipped"} => \A t \in T : g.deps[t] \subseteq SaidBy(l, Len(l) + 1, "completed"),
         NEW m, m = l \o Batch(o, x, type), NEW after, LogShape(g, m, after), NEW S
  PROVE  Continues(g, env, cap, l, m, S)
<1>1. l \in Seq(Happenings(g)) /\ m \in Seq(Happenings(g))
  BY DEF LogShape
<1>2. /\ Len(m) = Len(l) + Len(o) /\ Len(l) \in Nat /\ Len(o) \in Nat
      /\ \A i \in 1..Len(l) : m[i] = l[i]
      /\ \A i \in (Len(l) + 1)..Len(m) : m[i].type = type /\ m[i].task \in T
  BY <1>1, BatchPlaces
<1>3. Len(l) <= Len(m)
  BY <1>2
<1>4. ASSUME NEW i \in (Len(l) + 1)..Len(m)
      PROVE  /\ m[i].type \notin {"selected", "started"}
             /\ m[i].type \in TaskEvents \ {"skipped"} => g.deps[m[i].task] \subseteq SaidBy(l, Len(l) + 1, "completed")
  BY <1>2
<1> QED
  BY <1>1, <1>2, <1>3, <1>4 DEF Continues

-----------------------------------------------------------------------------
(* Each step of schedule keeps to what explains it. *)

Explaining == Paced(G, E, Capacity, log, entries) /\ InTime(G, E, entries)

\* A log that goes on, of entries that keep their providers, still explains itself.
LEMMA LongerLogExplains ==
  ASSUME SInv, Explaining, plan' = plan, Continues(G, E, Capacity, log, log', entries),
         Alike(log', entries, entries'), InTime(G, E, entries')
  PROVE  Explaining'
<1>1. G' = G /\ E' = E /\ Capacity' = Capacity
  BY DEF G, E, Capacity
<1>2. EnvelopeShape(E) /\ ValidEnvelope(E)
  BY DEF SInv, GoodPlan, E
<1>3. Capacity \in Nat
  <2>1. E.parallelism \in Nat \ {0}
    BY <1>2, SlotsArePositive
  <2> QED
    BY <2>1 DEF Capacity
<1>4. Paced(G, E, Capacity, log, entries)
  BY DEF Explaining
<1>5. Paced(G, E, Capacity, log', entries)
  BY <1>2, <1>3, <1>4, PaceContinues
<1>6. log' \in Seq(Happenings(G))
  BY DEF Continues
<1>7. Paced(G, E, Capacity, log', entries')
  BY <1>2, <1>5, <1>6, PaceOfOthers
<1> QED
  BY <1>1, <1>7 DEF Explaining

\* The log is a sequence of events, of one entry for each task.
LEMMA LogsAreShaped ==
  ASSUME SInv
  PROVE  LogShape(G, log, time) /\ log \in Seq(Happenings(G)) /\ time \in Nat /\ EntrySet(entries)
BY DEF SInv, Logged, LogShape, Books

\* And after the step, of the same plan.
LEMMA LogsStayShaped ==
  ASSUME SInv', plan' = plan
  PROVE  LogShape(G, log', time') /\ log' \in Seq(Happenings(G))
<1>1. G' = G
  BY DEF G
<1>2. LogShape(G, log', time')
  BY <1>1 DEF SInv, Logged
<1> QED
  BY <1>2 DEF LogShape

\* When tasks are skipped.
LEMMA SkipBlockedExplains ==
  ASSUME SInv, Explaining, SkipBlocked
  PROVE  Explaining'
<1> DEFINE o == Listed(Behind, Increasing(Behind))
<1>1. /\ log' = log \o Batch(o, time, "skipped") /\ plan' = plan /\ entries' = entries /\ time' = time
  BY DEF Batch, Event, SkipBlocked
<1>2. o \in Seq(Behind)
  <2>1. Behind \in SUBSET G.tasks /\ GraphShape(G)
    BY DEF Behind, SInv, GoodPlan, G
  <2>2. IsFiniteSet(Behind) /\ \A t \in Behind : t \in Int
    BY <2>1, FS_Subset DEF GraphShape
  <2>3. StrictOrder(Behind, Increasing(Behind))
    BY <2>2, IncreasingOrders
  <2> QED
    BY <2>2, <2>3, ListedEnumerates DEF Enumerates
<1> HIDE DEF o
<1>3. SInv'
  BY SkipBlockedKeeps
<1>4. LogShape(G, log, time) /\ LogShape(G, log', time')
  BY <1>1, <1>3, LogsAreShaped, LogsStayShaped
<1>5. Continues(G, E, Capacity, log, log', entries)
  BY <1>1, <1>2, <1>4, BatchContinues
<1> QED
  BY <1>1, <1>5, LongerLogExplains DEF Explaining, Alike

\* When an optional task is skipped.
LEMMA SkipUnaffordableExplains ==
  ASSUME SInv, Explaining, SkipUnaffordable
  PROVE  Explaining'
<1> DEFINE t == Head(pass)
           o == <<t>>
<1>1. /\ log' = Append(log, Event(t, "skipped")) /\ plan' = plan /\ entries' = entries
  BY DEF SkipUnaffordable
<1>2. SInv'
  BY SkipUnaffordableKeeps
<1>3. LogShape(G, log, time) /\ LogShape(G, log', time') /\ log \in Seq(Happenings(G))
  BY <1>1, <1>2, LogsAreShaped, LogsStayShaped
<1>4. log' = log \o Batch(o, time, "skipped")
  <2>1. Batch(o, time, "skipped") = <<Event(t, "skipped")>>
    BY DEF Batch, Event
  <2> DEFINE V == Happenings(G) \cup {Event(t, "skipped")}
  <2>2. Event(t, "skipped") \in V /\ Happenings(G) \subseteq V
    OBVIOUS
  <2> HIDE DEF V, t
  <2>3. log \in Seq(V)
    BY <1>3, <2>2
  <2>4. Append(log, Event(t, "skipped")) = log \o <<Event(t, "skipped")>>
    BY <2>2, <2>3, AppendIsConcat
  <2> QED
    BY <1>1, <2>1, <2>4
<1>5. o \in Seq({t})
  OBVIOUS
<1> HIDE DEF o, t
<1>6. Continues(G, E, Capacity, log, log', entries)
  BY <1>3, <1>4, <1>5, BatchContinues
<1> QED
  BY <1>1, <1>6, LongerLogExplains DEF Explaining, Alike

\* When the schedule is complete.
LEMMA CompleteExplains ==
  ASSUME SInv, Explaining, Complete
  PROVE  Explaining'
<1> DEFINE ev == Event(NoTask, "run.completed")
           o == <<NoTask>>
<1>1. log' = Append(log, ev) /\ plan' = plan /\ entries' = entries
  BY DEF Complete
<1>2. SInv'
  BY CompleteKeeps
<1>3. LogShape(G, log, time) /\ LogShape(G, log', time') /\ log \in Seq(Happenings(G))
  BY <1>1, <1>2, LogsAreShaped, LogsStayShaped
<1>4. log' = log \o Batch(o, time, "run.completed")
  <2>1. Batch(o, time, "run.completed") = <<ev>>
    BY DEF Batch, Event
  <2> DEFINE V == Happenings(G) \cup {ev}
  <2>2. ev \in V /\ Happenings(G) \subseteq V
    OBVIOUS
  <2> HIDE DEF V, ev
  <2>3. log \in Seq(V)
    BY <1>3, <2>2
  <2>4. Append(log, ev) = log \o <<ev>>
    BY <2>2, <2>3, AppendIsConcat
  <2> QED
    BY <1>1, <2>1, <2>4
<1>5. o \in Seq({NoTask}) /\ "run.completed" \notin TaskEvents
  BY DEF TaskEvents
<1> HIDE DEF o, ev
<1>6. Continues(G, E, Capacity, log, log', entries)
  BY <1>3, <1>4, <1>5, BatchContinues
<1> QED
  BY <1>1, <1>6, LongerLogExplains DEF Explaining, Alike

\* What has ended, or is about to end, waited for its dependencies.
LEMMA DependenciesTold ==
  ASSUME SInv, phase = "planning"
  PROVE  /\ DoneOf(entries) \subseteq SaidBy(log, Len(log) + 1, "completed")
         /\ \A t \in TasksOf(entries) : G.deps[t] \subseteq SaidBy(log, Len(log) + 1, "completed")
<1>1. DoneOf(entries) \subseteq SaidBy(log, Len(log) + 1, "completed")
  <2>1. /\ GraphShape(G) /\ EntrySet(entries) /\ time \in Nat
        /\ Logged(G, log, entries, skipped, time, "planning") /\ Runs(G, entries, running)
    BY DEF SInv, GoodPlan, G, Books
  <2> QED
    BY <2>1, LogTellsWhoRuns
<1>2. ASSUME NEW e \in entries PROVE G.deps[e.task] \subseteq DoneOf(entries)
  <2>1. Preceded(G, entries, e)
    BY DEF SInv, Books
  <2> QED
    BY <2>1 DEF Preceded, DoneOf
<1> QED
  BY <1>1, <1>2 DEF TasksOf

\* When the clock moves.
LEMMA AdvanceExplains ==
  ASSUME SInv, Explaining, Advance
  PROVE  Explaining'
<1>1. plan' = plan /\ phase = "planning"
  BY DEF Advance, PassEnds
<1>2. PICK next, D, o :
        /\ Orders(o, D) /\ D \subseteq TasksOf(entries)
        /\ entries' = EndAll(entries, D, "completed", next)
        /\ log' = log \o Batch(o, next, "completed")
  BY AdvanceTells
<1>3. SInv'
  BY AdvanceKeeps
<1>4. LogShape(G, log, time) /\ LogShape(G, log', time') /\ EntrySet(entries)
  BY <1>1, <1>3, LogsAreShaped, LogsStayShaped
<1>5. \A t \in D : G.deps[t] \subseteq SaidBy(log, Len(log) + 1, "completed")
  BY <1>1, <1>2, DependenciesTold
<1>6. o \in Seq(D)
  BY <1>2 DEF Orders
<1>7. log' = log \o Batch(o, next, "completed")
  BY <1>2
<1>8. Continues(G, E, Capacity, log, log', entries)
  BY <1>4, <1>5, <1>6, <1>7, BatchContinues
<1>9. Alike(log', entries, entries') /\ InTime(G, E, entries')
  <2>1. /\ Alike(log', entries, EndAll(entries, D, "completed", next))
        /\ InTime(G, E, entries) => InTime(G, E, EndAll(entries, D, "completed", next))
    BY <1>4, EndsAreAlike
  <2> QED
    BY <1>2, <2>1 DEF Explaining
<1> QED
  BY <1>1, <1>8, <1>9, LongerLogExplains

\* When the run is refused.
LEMMA RefuseExplains ==
  ASSUME SInv, Explaining, Refuse
  PROVE  Explaining'
<1>1. plan' = plan /\ phase = "planning" /\ time' = time
  BY DEF Refuse, InPass
<1>2. PICK o, D :
        /\ Orders(o, D) /\ D \in SUBSET G.tasks /\ D \subseteq TasksOf(entries)
        /\ entries' = EndAll(entries, D, "cancelled", time)
        /\ log' = (log \o Batch(o, time, "cancelled"))
                    \o <<[time |-> time, type |-> "run.failed", task |-> NoTask]>>
  BY RefuseTells
<1> DEFINE b == log \o Batch(o, time, "cancelled")
           c == <<NoTask>>
<1>3. SInv'
  BY RefuseKeeps
<1>4. LogShape(G, log, time) /\ LogShape(G, log', time') /\ EntrySet(entries) /\ time \in Nat
  BY <1>1, <1>3, LogsAreShaped, LogsStayShaped
<1>5. \A t \in D : G.deps[t] \subseteq SaidBy(log, Len(log) + 1, "completed")
  BY <1>1, <1>2, DependenciesTold
<1>6. o \in Seq(D) /\ o \in Seq(G.tasks)
  <2>1. o \in Seq(D) /\ D \in SUBSET G.tasks
    BY <1>2 DEF Orders
  <2> QED
    BY <2>1
<1>7. LogShape(G, b, time)
  <2>1. RunTold(log, time, "planning") /\ time <= time /\ "cancelled" \in TaskEvents /\ G.tasks \in SUBSET G.tasks
    BY <1>1, <1>4 DEF SInv, Logged, TaskEvents
  <2> QED
    BY <1>4, <1>6, <2>1, RunGoesOn
<1>8. Continues(G, E, Capacity, log, b, entries)
  <2> HIDE DEF b
  <2>1. b = log \o Batch(o, time, "cancelled")
    BY DEF b
  <2> QED
    BY <1>4, <1>5, <1>6, <1>7, <2>1, BatchContinues
<1>9. log' = b \o Batch(c, time, "run.failed")
  <2>1. Batch(c, time, "run.failed") = <<[time |-> time, type |-> "run.failed", task |-> NoTask]>>
    BY DEF Batch
  <2> HIDE DEF c
  <2> QED
    BY <1>2, <2>1
<1>10. c \in Seq({NoTask}) /\ "run.failed" \notin TaskEvents
  BY DEF TaskEvents
<1> HIDE DEF b, c
<1>11. Continues(G, E, Capacity, b, log', entries)
  BY <1>4, <1>7, <1>9, <1>10, BatchContinues
<1>12. Alike(log', entries, entries') /\ InTime(G, E, entries')
  <2>1. /\ Alike(log', entries, EndAll(entries, D, "cancelled", time))
        /\ InTime(G, E, entries) => InTime(G, E, EndAll(entries, D, "cancelled", time))
    BY <1>4, EndsAreAlike
  <2> QED
    BY <1>2, <2>1 DEF Explaining
<1>13. Continues(G, E, Capacity, log, log', entries)
  <2>1. /\ log \in Seq(Happenings(G)) /\ b \in Seq(Happenings(G)) /\ log' \in Seq(Happenings(G))
        /\ Len(log) \in Nat /\ Len(b) \in Nat /\ Len(log') \in Nat
    BY <1>4, <1>7 DEF LogShape
  <2>2. \A i \in (Len(b) + 1)..Len(log') : log'[i].type = "run.failed"
    BY <1>9, <1>10, <2>1, BatchPlaces
  <2>3. /\ Len(log) <= Len(b) /\ Len(b) <= Len(log')
        /\ \A i \in 1..Len(log) : b[i] = log[i]
        /\ \A i \in 1..Len(b) : log'[i] = b[i]
    BY <1>8, <1>11 DEF Continues
  <2>4. \A i \in (Len(log) + 1)..Len(b) : b[i].type = "cancelled"
    <3>1. b = log \o Batch(o, time, "cancelled")
      BY DEF b
    <3> QED
      BY <1>6, <2>1, <3>1, BatchPlaces
  <2>5. \A i \in 1..Len(log) : log'[i] = log[i]
    BY <2>1, <2>3
  <2>6. ASSUME NEW i \in (Len(log) + 1)..Len(log')
        PROVE  /\ log'[i].type \notin {"started", "selected"}
               /\ log'[i].type \in TaskEvents \ {"skipped"} =>
                    G.deps[log'[i].task] \subseteq SaidBy(log, Len(log) + 1, "completed")
    <3>1. CASE i \in (Len(log) + 1)..Len(b)
      <4>1. log'[i] = b[i] /\ b[i].type = "cancelled"
        BY <2>1, <2>3, <2>4, <3>1
      <4>2. b[i].type \in TaskEvents \ {"skipped"} =>
              G.deps[b[i].task] \subseteq SaidBy(log, Len(log) + 1, "completed")
        BY <1>8, <3>1 DEF Continues
      <4> QED
        BY <4>1, <4>2
    <3>2. CASE i \in (Len(b) + 1)..Len(log')
      BY <1>10, <2>2, <3>2
    <3> QED
      BY <2>1, <2>3, <3>1, <3>2
  <2>7. Len(log) <= Len(log')
    BY <2>1, <2>3
  <2> QED
    BY <2>1, <2>5, <2>6, <2>7 DEF Continues
<1> QED
  BY <1>1, <1>12, <1>13, LongerLogExplains

\* When a task starts: the slots of its provider and of the run were not all taken.
LEMMA StartExplains ==
  ASSUME SInv, Explaining, Start
  PROVE  Explaining'
<1> DEFINE t == Head(pass)
           p == ChooseProfile(OnTime(t))
           n == NewEntry(G, t, p, time)
           T == entries \cup {n}
           last == Len(log) + 1
           a == [time |-> time, type |-> "selected", task |-> t]
           c == [time |-> time, type |-> "started", task |-> t]
<1>1. plan' = plan /\ phase = "planning" /\ Len(running) < Capacity /\ entries' = T /\ log' = log \o <<a, c>>
  BY DEF Start, InPass, Entry, NewEntry, Event
<1>2. /\ t \in G.tasks /\ t \notin TasksOf(entries) /\ t \notin ToSet(skipped)
      /\ G.deps[t] \subseteq DoneOf(entries)
      /\ p \in Feasible(t) /\ p \in Qualified(G, t) /\ ~ProviderFull(p.provider)
  BY StartIsSound
<1>3. time + p.p95 <= DueBy(G, E, t)
  <2>1. GoodPlan(plan) /\ used \in [Units -> Int] /\ risk \in Int
    BY DEF SInv, AccountsKept
  <2> HIDE DEF t, p
  <2> QED
    BY <1>2, <2>1, ChoiceLeavesRoom
<1>4. n.task = t /\ n.backend = p.id /\ n.provider = p.provider /\ n.start = time
  BY DEF NewEntry
<1> HIDE DEF p, t
<1>5. SInv'
  BY StartKeeps
<1>6. /\ LogShape(G, log, time) /\ LogShape(G, log', time') /\ time \in Nat
      /\ log \in Seq(Happenings(G)) /\ log' \in Seq(Happenings(G)) /\ EntrySet(entries)
  BY <1>1, <1>5, LogsAreShaped, LogsStayShaped
<1>7. /\ GraphShape(G) /\ ValidGraph(G) /\ EnvelopeShape(E) /\ ValidEnvelope(E)
      /\ Logged(G, log, entries, skipped, time, "planning") /\ Runs(G, entries, running)
  BY <1>1 DEF SInv, GoodPlan, G, E
<1>8. Len(log) \in Nat /\ DOMAIN log = 1..Len(log) /\ last \in 1..(Len(log) + 1)
  BY <1>6
<1>9. \A i \in DOMAIN log : log[i].task # t
  <2> SUFFICES ASSUME NEW i \in DOMAIN log, log[i].task = t PROVE FALSE
    OBVIOUS
  <2>1. log[i] \in Happenings(G) /\ NoTask \notin G.tasks
    BY <1>6, <1>7 DEF GraphShape, NoTask
  <2>2. log[i].type \in TaskEvents
    BY <1>2, <2>1 DEF Happenings
  <2>3. i \in Told(log, t, log[i].type)
    BY DEF Told
  <2>4. IdleTold(log, t, skipped)
    BY <1>2, <1>7 DEF Logged
  <2> QED
    BY <1>2, <2>2, <2>3, <2>4 DEF IdleTold
<1>10. Alike(log, entries, T)
  <2> HIDE DEF n
  <2> QED
    BY <1>4, <1>9 DEF Alike
<1>11. Paced(G, E, Capacity, log, T)
  BY <1>6, <1>7, <1>10, PaceOfOthers DEF Explaining
<1>12. G.deps[t] \subseteq SaidBy(log, last, "completed")
  BY <1>1, <1>2, DependenciesTold
<1>13. LeavesSlot(E, Capacity, log, last, T, t)
  <2>1. /\ RunningAt(log, last) \subseteq {running[i].task : i \in DOMAIN running}
        /\ \A q : HereAt(log, last, entries, q)
                     \subseteq {running[i].task : i \in {j \in DOMAIN running : running[j].profile.provider = q}}
    BY <1>6, <1>7, LogTellsWhoRuns
  <2>2. running \in Seq(RunRecords(G)) /\ E.parallelism \in Nat \ {0} /\ ProviderLimit(E, p.provider) \in Nat
    BY <1>7, SlotsArePositive DEF Runs
  <2>3. Cardinality(RunningAt(log, last)) < Capacity
    <3>1. DOMAIN running \in SUBSET DOMAIN running
      OBVIOUS
    <3>2. /\ Cardinality(RunningAt(log, last)) \in Nat /\ Len(running) \in Nat
          /\ Cardinality(DOMAIN running) \in Nat
          /\ Cardinality(RunningAt(log, last)) <= Cardinality(DOMAIN running)
          /\ Cardinality(DOMAIN running) <= Len(running)
      BY <2>1, <2>2, <3>1, PlacesCount
    <3>3. Capacity \in Nat
      BY <2>2 DEF Capacity
    <3> QED
      BY <1>1, <3>2, <3>3
  <2>4. Cardinality(HereAt(log, last, T, p.provider)) < ProviderLimit(E, p.provider)
    <3> DEFINE I == {j \in DOMAIN running : running[j].profile.provider = p.provider}
    <3>1. HereAt(log, last, T, p.provider) = HereAt(log, last, entries, p.provider)
      BY <1>6, <1>8, <1>10, HereIsAlike
    <3>2. HereAt(log, last, T, p.provider) \subseteq {running[i].task : i \in I} /\ I \in SUBSET DOMAIN running
      BY <2>1, <3>1
    <3>3. ~(Cardinality(I) >= ProviderLimit(E, p.provider))
      BY <1>2 DEF ProviderFull
    <3> HIDE DEF I
    <3>4. /\ Cardinality(HereAt(log, last, T, p.provider)) \in Nat /\ Cardinality(I) \in Nat
          /\ Cardinality(HereAt(log, last, T, p.provider)) <= Cardinality(I)
      BY <2>2, <3>2, PlacesCount
    <3> QED
      BY <2>2, <3>3, <3>4
  <2>5. \A e \in T : e.task = t => e.provider = p.provider
    <3> HIDE DEF n
    <3> QED
      BY <1>2, <1>4 DEF TasksOf
  <2> HIDE DEF T, last
  <2> QED
    BY <2>3, <2>4, <2>5 DEF LeavesSlot
<1>14. Continues(G, E, Capacity, log, log', T)
  <2> DEFINE V == Happenings(G) \cup {a, c}
             d == <<a, c>>
  <2>1. d \in Seq(V) /\ Len(d) = 2 /\ d[1] = a /\ d[2] = c /\ Happenings(G) \subseteq V
    OBVIOUS
  <2>2. a.type = "selected" /\ a.task = t /\ c.type = "started" /\ c.task = t
    OBVIOUS
  <2> HIDE DEF V, d, a, c, T
  <2>3. log \in Seq(V)
    BY <1>6, <2>1
  <2>4. log' = log \o d
    BY <1>1 DEF d
  <2>5. /\ Len(log') = Len(log) + 2
        /\ \A i \in 1..(Len(log) + 2) : log'[i] = IF i <= Len(log) THEN log[i] ELSE d[i - Len(log)]
    <3> DEFINE m == log \o d
    <3>1. d \in Seq(V) /\ Len(d) \in Nat
      BY <2>1
    <3>2. /\ Len(m) = Len(log) + Len(d)
          /\ \A i \in 1..(Len(log) + Len(d)) : m[i] = IF i <= Len(log) THEN log[i] ELSE d[i - Len(log)]
      BY <2>3, <3>1, JoinedPlaces
    <3>3. log' = m
      BY <2>4
    <3> HIDE DEF m
    <3> QED
      BY <2>1, <3>2, <3>3
  <2>6. log'[Len(log) + 1] = a /\ log'[Len(log) + 2] = c
    BY <1>8, <2>1, <2>5
  <2>7. /\ Len(log) <= Len(log') /\ \A i \in 1..Len(log) : log'[i] = log[i]
        /\ \A i \in (Len(log) + 1)..Len(log') : i = Len(log) + 1 \/ i = Len(log) + 2
    BY <1>8, <2>5
  <2>8. ASSUME NEW i \in (Len(log) + 1)..Len(log')
        PROVE  log'[i].task = t /\ (log'[i].type = "started" => i = Len(log'))
    BY <1>8, <2>2, <2>5, <2>6, <2>7
  <2> QED
    BY <1>6, <1>12, <1>13, <2>7, <2>8 DEF Continues
<1>15. InTime(G, E, T)
  <2>1. ASSUME NEW q \in G.profiles[t], q.id = n.backend PROVE q = p
    <3>1. p \in G.profiles[t] /\ ValidTask(G, t)
      BY <1>2, <1>7 DEF Qualified, ValidGraph
    <3> QED
      BY <1>4, <2>1, <3>1 DEF ValidTask
  <2>2. \A q \in G.profiles[t] : q.id = n.backend => n.start + q.p95 <= DueBy(G, E, t)
    BY <1>3, <1>4, <2>1
  <2>3. InTime(G, E, entries)
    BY DEF Explaining
  <2> HIDE DEF n
  <2> QED
    BY <1>4, <2>2, <2>3 DEF InTime
<1>16. EnvelopeShape(E) /\ ValidEnvelope(E) /\ Capacity \in Nat
  <2>1. E.parallelism \in Nat \ {0}
    BY <1>7, SlotsArePositive
  <2> QED
    BY <1>7, <2>1 DEF Capacity
<1>17. Paced(G, E, Capacity, log', T)
  BY <1>11, <1>14, <1>16, PaceContinues
<1>18. G' = G /\ E' = E /\ Capacity' = Capacity
  BY <1>1 DEF G, E, Capacity
<1> HIDE DEF T
<1> QED
  BY <1>1, <1>15, <1>17, <1>18 DEF Explaining

\* A schedule about to begin has nothing to explain.
LEMMA FreshExplains ==
  ASSUME GoodPlan(plan), Fresh
  PROVE  Explaining
<1> DEFINE ev == [time |-> 0, type |-> "run.started", task |-> NoTask]
<1>1. entries = {} /\ log = <<ev>>
  BY DEF Fresh
<1>2. Len(log) = 1 /\ DOMAIN log = {1} /\ log[1].type = "run.started"
  BY <1>1
<1>3. ASSUME NEW i \in 1..(Len(log) + 1) PROVE RunningAt(log, i) = {}
  <2>1. \A k \in 1..(i - 1) : k = 1
    BY <1>2
  <2>2. SaidBy(log, i, "started") = {}
    BY <1>2, <2>1 DEF SaidBy
  <2> QED
    BY <2>2 DEF RunningAt
<1>4. Capacity \in Nat
  <2>1. E.parallelism \in Nat \ {0}
    BY SlotsArePositive DEF GoodPlan, E
  <2> QED
    BY <2>1 DEF Capacity
<1>5. \A i \in 1..(Len(log) + 1) : WithinSlots(E, Capacity, log, i, entries)
  BY <1>1, <1>3, <1>4, FS_EmptySet DEF WithinSlots
<1>6. "run.started" \notin TaskEvents
  BY DEF TaskEvents
<1> QED
  BY <1>1, <1>2, <1>5, <1>6 DEF Explaining, Paced, InTime

\* A schedule keeps to what explains it, with every step.
THEOREM SchedulesExplain == ScheduleSpec => [](SInv /\ Explaining)
<1>1. ScheduleInit => SInv /\ Explaining
  <2> SUFFICES ASSUME ScheduleInit PROVE SInv /\ Explaining
    OBVIOUS
  <2>1. GoodPlan(plan) /\ Fresh
    BY PlansAssumption DEF ScheduleInit, Admitted, GoodPlan
  <2> QED
    BY <2>1, FreshKeeps, FreshExplains
<1>2. SInv /\ Explaining /\ [ScheduleStep \/ Returned]_vars => (SInv /\ Explaining)'
  <2> SUFFICES ASSUME SInv, Explaining, [ScheduleStep \/ Returned]_vars PROVE SInv' /\ Explaining'
    OBVIOUS
  <2>1. SInv'
    BY StepsKeep
  <2>2. ASSUME UNCHANGED <<plan, entries, log>> PROVE Explaining'
    BY <2>2 DEF Explaining, G, E, Capacity
  <2>3. CASE OpenPass \/ Hold \/ PassAgain
    BY <2>1, <2>2, <2>3 DEF OpenPass, Hold, PassAgain
  <2>4. CASE UNCHANGED vars
    BY <2>1, <2>2, <2>4 DEF vars
  <2> QED
    BY <2>1, <2>3, <2>4, SkipBlockedExplains, StartExplains, SkipUnaffordableExplains, RefuseExplains,
       AdvanceExplains, CompleteExplains DEF ScheduleStep, Returned
<1> QED
  BY <1>1, <1>2, PTL DEF ScheduleSpec

-----------------------------------------------------------------------------
(* What explain_schedule makes of a schedule that keeps to this. *)

\* A sound result whose log explains itself.
Explainable(g, env, policy, r, now, ph) ==
  /\ Sound(g, env, r, now, ph)
  /\ Paced(g, env, IF policy = "sequential" THEN 1 ELSE env.parallelism, r.events, r.entries)
  /\ InTime(g, env, r.entries)

\* A fact that holds, of this metric.
Holding(m) == [metric |-> m, holds |-> TRUE]

\* A record of such facts verifies, whichever they are.
LEMMA HoldingVerifies ==
  ASSUME NEW facts, \A f \in facts : \E m : f = Holding(m)
  PROVE  RecordVerifies(facts)
<1>1. \A f \in facts : f.holds
  BY DEF Holding
<1>2. ASSUME NEW f \in facts, NEW h \in facts, f.metric = h.metric PROVE f = h
  <2>1. PICK m : f = Holding(m)
    OBVIOUS
  <2>2. PICK k : h = Holding(k)
    OBVIOUS
  <2>3. f.metric = m /\ h.metric = k
    BY <2>1, <2>2 DEF Holding
  <2> QED
    BY <1>2, <2>1, <2>2, <2>3
<1> QED
  BY <1>1, <1>2 DEF RecordVerifies

\* The comparisons that hold.
LEMMA ComparisonsHold ==
  ASSUME NEW m, NEW a, NEW b
  PROVE  /\ a <= b => AtMost(m, a, b) = Holding(m)
         /\ a >= b => AtLeast(m, a, b) = Holding(m)
         /\ a = b => Equal(m, a, b) = Holding(m)
<1>1. ASSUME a <= b PROVE AtMost(m, a, b) = Holding(m)
  <2>1. (a <= b) = TRUE
    BY <1>1
  <2> QED
    BY <2>1, Zenon DEF AtMost, Holding
<1>2. ASSUME a >= b PROVE AtLeast(m, a, b) = Holding(m)
  <2>1. (a >= b) = TRUE
    BY <1>2
  <2> QED
    BY <2>1, Zenon DEF AtLeast, Holding
<1>3. ASSUME a = b PROVE Equal(m, a, b) = Holding(m)
  <2>1. (a = b) = TRUE
    BY <1>3
  <2> QED
    BY <2>1, Zenon DEF Equal, Holding
<1> QED
  BY <1>1, <1>2, <1>3

\* The profile of an entry is the one it was booked with, and the only one of its name.
LEMMA EntryProfile ==
  ASSUME NEW g, GraphShape(g), ValidGraph(g), NEW env, NEW e, Booked(g, env, e)
  PROVE  /\ ProfileOf(g, e) \in Qualified(g, e.task)
         /\ ProfileOf(g, e).id = e.backend /\ ProfileOf(g, e).provider = e.provider
         /\ OneProfile(g, e)
<1> DEFINE P == {q \in g.profiles[e.task] : q.id = e.backend /\ q.provider = e.provider}
<1>1. e.task \in g.tasks /\ \E q \in Qualified(g, e.task) : q.id = e.backend /\ q.provider = e.provider
  BY DEF Booked
<1>2. PICK p \in Qualified(g, e.task) : p.id = e.backend /\ p.provider = e.provider
  BY <1>1
<1>3. p \in g.profiles[e.task] /\ \A q, s \in g.profiles[e.task] : q.id = s.id => q = s
  BY <1>1 DEF Qualified, ValidGraph, ValidTask
<1>4. \A q \in g.profiles[e.task] : q.id = e.backend /\ q.provider = e.provider <=> q = p
  BY <1>2, <1>3
<1>5. ProfileOf(g, e) = p
  BY <1>3, <1>4 DEF ProfileOf
<1>6. P = {p}
  BY <1>3, <1>4
<1>7. OneProfile(g, e)
  BY <1>6, FS_Singleton DEF OneProfile
<1> QED
  BY <1>2, <1>5, <1>7

\* The entry of a task is that with its name.
LEMMA EntryIsNamed ==
  ASSUME NEW r, EntrySet(r.entries), NEW e \in r.entries
  PROVE  EntryOf(r, e.task) = e /\ e.task \in Scheduled(r)
BY DEF EntrySet, EntryOf, Scheduled

\* Every event is of a known type.  Those of a task are about one with an entry, except
\* that it was skipped.
LEMMA EventsAreOfEntries ==
  ASSUME NEW g, NEW env, NEW r, NEW now, NEW ph, Sound(g, env, r, now, ph), NEW i \in DOMAIN r.events
  PROVE  LET x == r.events[i]
         IN /\ x.type \in TaskEvents \cup RunEvents
            /\ x.type \in RunEvents => x.task = NoTask /\ x.task \notin Scheduled(r)
            /\ x.type \in TaskEvents => x.task \in g.tasks
            /\ x.type = "skipped" => x.task \notin Scheduled(r)
            /\ x.type \in TaskEvents \ {"skipped"} =>
                 \E e \in r.entries : x.task = e.task /\ LifeTold(r.events, e)
<1> DEFINE x == r.events[i]
           l == r.events
<1>1. /\ l \in Seq(Happenings(g)) /\ GraphShape(g)
      /\ \A e \in r.entries : LifeTold(l, e) /\ e.task \in g.tasks
      /\ \A t \in g.tasks : t \notin TasksOf(r.entries) => IdleTold(l, t, r.skipped)
  BY SoundEntries DEF Sound, Logged, LogShape
<1>2. x \in Happenings(g)
  BY <1>1
<1>3. NoTask \notin g.tasks
  BY <1>1 DEF GraphShape, NoTask
<1>4. x.type \in TaskEvents \cup RunEvents /\ (x.type \in RunEvents => x.task = NoTask)
      /\ (x.type \in TaskEvents => x.task \in g.tasks)
  BY <1>2 DEF Happenings, TaskEvents, RunEvents
<1>5. i \in Told(l, x.task, x.type)
  BY DEF Told
<1>6. ASSUME NEW e \in r.entries, x.task = e.task PROVE x.type # "skipped"
  BY <1>1, <1>5, <1>6 DEF LifeTold
<1>7. ASSUME x.type \in TaskEvents \ {"skipped"} PROVE \E e \in r.entries : x.task = e.task
  <2>1. x.task \in TasksOf(r.entries)
    BY <1>1, <1>4, <1>5, <1>7 DEF IdleTold
  <2> QED
    BY <2>1 DEF TasksOf
<1> HIDE DEF x, l
<1>8. x.type \in RunEvents => x.task \notin Scheduled(r)
  BY <1>1, <1>3, <1>4 DEF Scheduled
<1>9. x.type = "skipped" => x.task \notin Scheduled(r)
  BY <1>6 DEF Scheduled
<1>10. x.type \in TaskEvents \ {"skipped"} => \E e \in r.entries : x.task = e.task /\ LifeTold(l, e)
  BY <1>1, <1>7
<1> QED
  BY <1>4, <1>8, <1>9, <1>10 DEF x, l

\* What the explanation takes to have been said and to run is what the log says.
LEMMA SnapshotsRead ==
  ASSUME NEW r, NEW i
  PROVE  /\ Before(r, i).selected = SaidBy(r.events, i, "selected")
         /\ Before(r, i).completed = SaidBy(r.events, i, "completed")
         /\ Before(r, i).running = RunningAt(r.events, i)
         /\ \A u \in Units : After(r, i).used[u] =
              SumOver({e \in r.entries : e.task \in SaidBy(r.events, i + 1, "selected")},
                      [e \in {f \in r.entries : f.task \in SaidBy(r.events, i + 1, "selected")} |-> e.use[u]])
BY DEF Before, After, Snapshot, SaidBefore, SaidBy, RunningAt

\* The order of the events can be explained.
LEMMA EventsInOrder ==
  ASSUME NEW g, NEW env, NEW r, NEW now, NEW ph, Sound(g, env, r, now, ph), NEW i \in DOMAIN r.events
  PROVE  InOrder(r, i)
<1> DEFINE x == r.events[i]
           l == r.events
<1>1. l \in Seq(Happenings(g)) /\ EntrySet(r.entries)
  BY SoundEntries DEF Sound, Logged, LogShape
<1>2. DOMAIN l = 1..Len(l) /\ Len(l) \in Nat
  BY <1>1
<1>3. \A j \in 1..(i - 1) : j \in DOMAIN l /\ j < i
  BY <1>2
<1>4. ASSUME NEW t, NEW type, t \in SaidBy(l, i, type) PROVE \E j \in Told(l, t, type) : j < i
  BY <1>3, <1>4 DEF SaidBy, Told
<1>5. ASSUME NEW t, NEW type, NEW j \in Told(l, t, type), j < i PROVE t \in SaidBy(l, i, type)
  <2>1. j \in 1..(i - 1) /\ l[j].type = type /\ l[j].task = t
    BY <1>2, <1>5 DEF Told
  <2> QED
    BY <2>1 DEF SaidBy
<1>6. i \in Told(l, x.task, x.type) /\ i \in Int
  BY <1>2 DEF Told
<1>7. CASE x.type \in {"selected", "started", "completed", "cancelled"}
  <2>1. PICK e \in r.entries : x.task = e.task /\ LifeTold(l, e)
    BY <1>7, EventsAreOfEntries DEF TaskEvents
  <2>2. PICK s, j \in DOMAIN l :
          /\ Told(l, e.task, "selected") = {s} /\ Told(l, e.task, "started") = {j} /\ s < j
          /\ \/ Told(l, e.task, "completed") = {} /\ Told(l, e.task, "cancelled") = {}
             \/ \E k \in DOMAIN l :
                  j < k /\ Told(l, e.task, "completed") \cup Told(l, e.task, "cancelled") = {k}
    BY <2>1 DEF LifeTold
  <2>3. ASSUME x.type = "selected" PROVE x.task \notin SaidBy(l, i, "selected")
    BY <1>4, <1>6, <2>1, <2>2, <2>3
  <2>4. ASSUME x.type = "started" PROVE x.task \in SaidBy(l, i, "selected")
    BY <1>5, <1>6, <2>1, <2>2, <2>4
  <2>5. ASSUME x.type \in {"completed", "cancelled"} PROVE x.task \in RunningAt(l, i)
    <3>1. i \in Told(l, e.task, "completed") \cup Told(l, e.task, "cancelled")
      BY <1>6, <2>1, <2>5
    <3>2. j < i /\ \A k \in Told(l, e.task, "completed") \cup Told(l, e.task, "cancelled") : k = i
      BY <2>2, <3>1
    <3>3. e.task \in SaidBy(l, i, "started")
      BY <1>5, <2>2, <3>2
    <3>4. e.task \notin SaidBy(l, i, "completed") /\ e.task \notin SaidBy(l, i, "cancelled")
      BY <1>4, <1>6, <3>2
    <3> QED
      BY <2>1, <3>3, <3>4 DEF RunningAt
  <2> QED
    BY <1>7, <2>3, <2>4, <2>5, SnapshotsRead DEF InOrder
<1>8. CASE x.type \notin {"selected", "started", "completed", "cancelled"}
  <2>1. ASSUME x.type = "skipped" PROVE x.task \notin SaidBy(l, i, "selected")
    <3>1. x.task \notin Scheduled(r)
      BY <2>1, EventsAreOfEntries
    <3> SUFFICES ASSUME x.task \in SaidBy(l, i, "selected") PROVE FALSE
      OBVIOUS
    <3>2. PICK j \in DOMAIN l : l[j].task = x.task /\ l[j].type = "selected"
      BY <1>4 DEF Told
    <3>3. \E e \in r.entries : l[j].task = e.task
      BY <3>2, EventsAreOfEntries DEF TaskEvents
    <3> QED
      BY <3>1, <3>2, <3>3 DEF Scheduled
  <2> QED
    BY <1>8, <2>1, SnapshotsRead DEF InOrder
<1> QED
  BY <1>7, <1>8

\* The facts about a task with an entry hold.
LEMMA ProfileFactsHold ==
  ASSUME NEW g, NEW env, NEW policy, NEW r, NEW now, NEW ph, Explainable(g, env, policy, r, now, ph),
         NEW i \in DOMAIN r.events, r.events[i].type \in TaskEvents, r.events[i].task \in Scheduled(r)
  PROVE  RecordVerifies(ProfileFacts(g, env, policy, r, i))
<1> DEFINE x == r.events[i]
           l == r.events
           cap == IF policy = "sequential" THEN 1 ELSE env.parallelism
<1>1. /\ Sound(g, env, r, now, ph) /\ Paced(g, env, cap, l, r.entries) /\ InTime(g, env, r.entries)
      /\ GraphShape(g) /\ ValidGraph(g) /\ EnvelopeShape(env) /\ ValidEnvelope(env)
      /\ EntrySet(r.entries) /\ AccountsKept(env, r.entries, r.used, r.risk)
      /\ \A e \in r.entries : Booked(g, env, e) /\ e.task \in g.tasks /\ e.start \in Nat
  BY SoundEntries DEF Explainable, Sound
<1>2. l \in Seq(Happenings(g)) /\ Len(l) \in Nat /\ DOMAIN l = 1..Len(l) /\ i \in 1..(Len(l) + 1)
  <2>1. l \in Seq(Happenings(g))
    BY <1>1 DEF Sound, Logged, LogShape
  <2> QED
    BY <2>1
<1>3. x.type \in TaskEvents \ {"skipped"}
  BY <1>1, EventsAreOfEntries
<1>4. PICK e \in r.entries : x.task = e.task
  BY DEF Scheduled
<1> DEFINE p == ProfileOf(g, e)
           here == {t \in Before(r, i).running : EntryOf(r, t).provider = p.provider}
<1>5. EntryOf(r, x.task) = e
  BY <1>1, <1>4, EntryIsNamed
<1>6. /\ p \in Qualified(g, e.task) /\ p.id = e.backend /\ p.provider = e.provider
      /\ p \in g.profiles[e.task] /\ p.p95 \in Nat /\ p.quality >= g.minq[e.task]
  <2>1. Booked(g, env, e) /\ e.task \in g.tasks
    BY <1>1
  <2>2. p \in Qualified(g, e.task) /\ p.id = e.backend /\ p.provider = e.provider
    BY <1>1, <2>1, EntryProfile
  <2> HIDE DEF p
  <2> QED
    BY <1>1, <2>1, <2>2, QualifiedProfiles
<1>7. here = HereAt(l, i, r.entries, e.provider)
  <2>1. ASSUME NEW t \in RunningAt(l, i) PROVE \E f \in r.entries : f.task = t /\ EntryOf(r, t) = f
    <3>1. PICK j \in 1..(i - 1) : l[j].type = "started" /\ l[j].task = t
      BY DEF RunningAt, SaidBy
    <3>2. j \in DOMAIN l
      BY <1>2
    <3>3. PICK f \in r.entries : l[j].task = f.task
      BY <1>1, <3>1, <3>2, EventsAreOfEntries DEF TaskEvents
    <3> QED
      BY <1>1, <3>1, <3>3, EntryIsNamed
  <2>2. \A t \in RunningAt(l, i) : \A f \in r.entries : f.task = t => EntryOf(r, t) = f
    BY <1>1, EntryIsNamed
  <2>3. \A t \in RunningAt(l, i) :
          EntryOf(r, t).provider = e.provider <=> \E f \in r.entries : f.task = t /\ f.provider = e.provider
    BY <2>1, <2>2
  <2>4. Before(r, i).running = RunningAt(l, i)
    BY SnapshotsRead
  <2>5. here = {t \in RunningAt(l, i) : EntryOf(r, t).provider = e.provider}
    BY <1>6, <2>4
  <2> HIDE DEF here, l
  <2> QED
    BY <2>3, <2>5 DEF HereAt
<1> HIDE DEF p, here
<1>8. \A u \in Units : AtMost(u, After(r, i).used[u], env.caps[u]) = Holding(u)
  <2> SUFFICES ASSUME NEW u \in Units PROVE After(r, i).used[u] <= env.caps[u]
    BY ComparisonsHold
  <2> DEFINE said == SaidBy(l, i + 1, "selected")
             S == r.entries
             R == {f \in S : f.task \in said}
             c == [f \in S |-> f.use[u]]
             d == [f \in R |-> f.use[u]]
  <2>1. After(r, i).used[u] = SumOver(R, d)
    BY SnapshotsRead
  <2>2. r.used[u] = SumOver(S, c) /\ r.used[u] <= env.caps[u]
    BY <1>1 DEF AccountsKept, Within
  <2>3. IsFiniteSet(S) /\ R \in SUBSET S /\ \A f \in S : c[f] \in Nat
    <3>1. ASSUME NEW f \in S PROVE f.use[u] \in Nat
      <4>1. Booked(g, env, f) /\ f.task \in g.tasks
        BY <1>1
      <4>2. PICK q \in Qualified(g, f.task) : q.use = f.use
        BY <4>1 DEF Booked
      <4> QED
        BY <1>1, <4>1, <4>2, QualifiedProfiles
    <3> QED
      BY <1>1, <3>1 DEF EntrySet
  <2>4. \A f \in R : d[f] = c[f]
    OBVIOUS
  <2> HIDE DEF R, c, d, S
  <2>5. IsFiniteSet(R) /\ SumFunctionOnSet(d, R) = SumFunctionOnSet(c, R)
    BY <2>3, <2>4, SumSame, FS_Subset
  <2>6. SumFunctionOnSet(c, R) <= SumFunctionOnSet(c, S)
    BY <2>3, SumPart
  <2>7. SumFunctionOnSet(c, R) \in Int /\ SumFunctionOnSet(c, S) \in Int /\ env.caps[u] \in Int
    <3>1. SumFunctionOnSet(c, S) \in Nat
      BY <2>3, SumNatural
    <3>2. SumFunctionOnSet(c, R) \in Nat
      BY <2>3, <2>5, SumNatural
    <3>3. env.caps[u] \in Int
      BY <1>1 DEF EnvelopeShape
    <3> QED
      BY <3>1, <3>2, <3>3
  <2> QED
    BY <2>1, <2>2, <2>5, <2>6, <2>7 DEF SumOver
<1>9. Equal("dependencies_completed_before", g.deps[x.task] \intersect Before(r, i).completed, g.deps[x.task])
        = Holding("dependencies_completed_before")
  <2>1. g.deps[x.task] \subseteq SaidBy(l, i, "completed")
    BY <1>1, <1>3 DEF Paced
  <2>2. g.deps[x.task] \intersect Before(r, i).completed = g.deps[x.task]
    BY <2>1, SnapshotsRead
  <2> QED
    BY <2>2, ComparisonsHold
<1>10. Predicted(x) \in {0, 1} /\ (x.type \in {"selected", "started"} <=> Predicted(x) = 1)
  BY DEF Predicted
<1>11. WithinSlots(env, cap, l, i, r.entries) /\ (Predicted(x) = 1 => LeavesSlot(env, cap, l, i, r.entries, x.task))
  BY <1>1, <1>2, <1>10 DEF Paced
<1>12. /\ Cardinality(RunningAt(l, i)) \in Nat /\ Cardinality(here) \in Nat
       /\ cap \in Nat /\ ProviderLimit(env, p.provider) \in Nat
  <2>1. env.parallelism \in Nat \ {0} /\ ProviderLimit(env, p.provider) \in Nat
    BY <1>1, SlotsArePositive
  <2>2. Cardinality(RunningAt(l, i)) \in Nat /\ \A S, q : Cardinality(HereAt(l, i, S, q)) \in Nat
    BY <1>2, SaidIsFinite
  <2> QED
    BY <1>7, <2>1, <2>2
<1>13. Cardinality(Before(r, i).running) + Predicted(x) <= cap
  <2>1. Before(r, i).running = RunningAt(l, i)
    BY SnapshotsRead
  <2>2. Cardinality(RunningAt(l, i)) <= cap /\ (Predicted(x) = 1 => Cardinality(RunningAt(l, i)) < cap)
    BY <1>11 DEF WithinSlots, LeavesSlot
  <2> HIDE DEF cap, x, l
  <2> QED
    BY <1>10, <1>12, <2>1, <2>2
<1>14. Cardinality(here) + Predicted(x) <= ProviderLimit(env, p.provider)
  <2>1. /\ Cardinality(here) <= ProviderLimit(env, p.provider)
        /\ Predicted(x) = 1 => Cardinality(here) < ProviderLimit(env, p.provider)
    BY <1>4, <1>6, <1>7, <1>11 DEF WithinSlots, LeavesSlot
  <2> HIDE DEF cap, x, l
  <2> QED
    BY <1>10, <1>12, <2>1
<1>15. r.risk <= env.risk
  BY <1>1 DEF AccountsKept
<1>16. PlannedEnd(g, r, x.task) <= DueBy(g, env, x.task)
  <2>1. e.start + p.p95 <= DueBy(g, env, e.task)
    BY <1>1, <1>6 DEF InTime
  <2>2. PlannedEnd(g, r, x.task) = e.start + p.p95
    BY <1>5 DEF PlannedEnd, p
  <2> QED
    BY <1>4, <2>1, <2>2
<1>17. p.quality >= g.minq[x.task]
  BY <1>4, <1>6
<1> DEFINE facts ==
        {AtMost(u, After(r, i).used[u], env.caps[u]) : u \in Units}
        \union {Equal("dependencies_completed_before",
                      g.deps[x.task] \intersect Before(r, i).completed, g.deps[x.task]),
                AtMost("global_running_count", Cardinality(Before(r, i).running) + Predicted(x), cap),
                AtMost("provider_running_count", Cardinality(here) + Predicted(x),
                       ProviderLimit(env, p.provider)),
                AtMost("modeled_run_success_probability", r.risk, env.risk),
                AtMost("planned_end_ms", PlannedEnd(g, r, x.task), DueBy(g, env, x.task)),
                AtLeast("profile_quality", p.quality, g.minq[x.task])}
<1>18. ProfileFacts(g, env, policy, r, i) = facts
  BY <1>5, Zenon DEF ProfileFacts, here, p
<1>19. \A f \in facts : \E m : f = Holding(m)
  <2> HIDE DEF cap, x
  <2> QED
    BY <1>8, <1>9, <1>13, <1>14, <1>15, <1>16, <1>17, ComparisonsHold
<1> HIDE DEF facts
<1>20. RecordVerifies(facts)
  BY <1>19, HoldingVerifies
<1> QED
  BY <1>18, <1>20

\* The facts of the last event hold.
LEMMA RunFactsHold ==
  ASSUME NEW g, NEW env, NEW r, NEW now, NEW ph, Sound(g, env, r, now, ph)
  PROVE  RecordVerifies(RunFacts(env, r))
<1>1. /\ \A u \in Units : r.used[u] <= env.caps[u]
      /\ r.risk <= env.risk /\ r.makespan <= env.deadline
  BY DEF Sound, AccountsKept, Within
<1>2. \A f \in RunFacts(env, r) : \E m : f = Holding(m)
  BY <1>1, ComparisonsHold DEF RunFacts
<1> QED
  BY <1>2, HoldingVerifies

\* Every event is explained.
LEMMA EventsAreExplained ==
  ASSUME NEW g, NEW env, NEW policy, NEW r, NEW now, NEW ph, Explainable(g, env, policy, r, now, ph),
         NEW i \in DOMAIN r.events
  PROVE  Explained(g, env, policy, r, i)
<1>1. Sound(g, env, r, now, ph)
  BY DEF Explainable
<1>2. InOrder(r, i)
  BY <1>1, EventsInOrder
<1>3. /\ r.events[i].type \in TaskEvents \cup RunEvents
      /\ r.events[i].type \in RunEvents => r.events[i].task \notin Scheduled(r)
  BY <1>1, EventsAreOfEntries
<1>4. RecordVerifies(Facts(g, env, policy, r, i))
  <2>1. CASE r.events[i].type \in {"run.completed", "run.failed"}
    BY <1>1, <2>1, RunFactsHold DEF Facts
  <2>2. CASE r.events[i].type \notin {"run.completed", "run.failed"} /\ r.events[i].task \in Scheduled(r)
    BY <1>3, <2>2, ProfileFactsHold DEF Facts
  <2>3. CASE r.events[i].type \notin {"run.completed", "run.failed"} /\ r.events[i].task \notin Scheduled(r)
    BY <2>3 DEF Facts, RecordVerifies
  <2> QED
    BY <2>1, <2>2, <2>3
<1> QED
  BY <1>2, <1>4 DEF Explained

\* What an event is reported as.
LEMMA DegradedActions ==
  ASSUME NEW g, NEW r, NEW x, x.type \in TaskEvents \cup RunEvents
  PROVE  Action(g, r, x) = "degraded_profile_selection" <=>
           /\ x.type = "selected"
           /\ ProfileOf(g, EntryOf(r, x.task)).quality < BestQuality(g, x.task)
<1>1. CASE x.type = "selected"
  BY <1>1 DEF Action
<1>2. CASE x.type # "selected"
  BY <1>2 DEF Action, TaskEvents, RunEvents
<1> QED
  BY <1>1, <1>2

\* The best quality of a task's profiles.
LEMMA BestQualities ==
  ASSUME NEW g, GraphShape(g), ValidGraph(g), NEW t \in g.tasks, NEW q \in Int
  PROVE  q < BestQuality(g, t) <=> \E p \in Qualified(g, t) : ~(p.quality <= q)
<1> DEFINE Q == {p.quality : p \in Qualified(g, t)}
           c == [p \in Qualified(g, t) |-> p.quality]
<1>1. /\ IsFiniteSet(Qualified(g, t)) /\ Qualified(g, t) # {}
      /\ \A p \in Qualified(g, t) : p.quality \in Nat
  BY QualifiedProfiles
<1>2. Q = {c[p] : p \in Qualified(g, t)}
  OBVIOUS
<1>3. IsFiniteSet(Q)
  <2> HIDE DEF c
  <2> QED
    BY <1>1, <1>2, ImageFinite
<1>4. Q \in SUBSET Int /\ Q # {}
  BY <1>1
<1>5. Largest(Q) \in Int /\ Largest(Q) \in Q /\ \A y \in Q : y <= Largest(Q)
  <2> HIDE DEF Q
  <2> QED
    BY <1>3, <1>4, LargestProperties
<1>6. BestQuality(g, t) = Largest(Q)
  BY DEF BestQuality
<1>7. PICK b \in Qualified(g, t) : b.quality = Largest(Q)
  BY <1>5
<1>8. \A p \in Qualified(g, t) : p.quality <= Largest(Q)
  BY <1>5
<1> HIDE DEF Q
<1> QED
  BY <1>1, <1>5, <1>6, <1>7, <1>8

\* A run is told to have been degraded exactly if a task could have had better.
LEMMA DegradationsAreTold ==
  ASSUME NEW g, NEW env, NEW r, NEW now, NEW ph, Sound(g, env, r, now, ph)
  PROVE  Degradations(Records(g, r)) = {} <=>
           \A e \in r.entries : \A p \in Qualified(g, e.task) : p.quality <= ProfileOf(g, e).quality
<1> DEFINE l == r.events
           Better(e) == \E p \in Qualified(g, e.task) : ~(p.quality <= ProfileOf(g, e).quality)
<1>1. /\ GraphShape(g) /\ ValidGraph(g) /\ EntrySet(r.entries)
      /\ \A e \in r.entries : Booked(g, env, e) /\ e.task \in g.tasks /\ LifeTold(l, e)
  BY SoundEntries DEF Sound, Logged
<1>2. Degradations(Records(g, r)) = {i \in DOMAIN l : Action(g, r, l[i]) = "degraded_profile_selection"}
  BY DEF Degradations, Records
<1>3. \A e \in r.entries : ProfileOf(g, e).quality < BestQuality(g, e.task) <=> Better(e)
  <2> TAKE e \in r.entries
  <2>1. Booked(g, env, e) /\ e.task \in g.tasks
    BY <1>1
  <2>2. ProfileOf(g, e) \in Qualified(g, e.task)
    BY <1>1, <2>1, EntryProfile
  <2>3. ProfileOf(g, e).quality \in Int
    BY <1>1, <2>1, <2>2, QualifiedProfiles
  <2> QED
    BY <1>1, <2>1, <2>3, BestQualities
<1> HIDE DEF Better
<1>4. ASSUME NEW i \in DOMAIN l, Action(g, r, l[i]) = "degraded_profile_selection"
      PROVE  \E e \in r.entries : Better(e)
  <2>1. l[i].type = "selected" /\ ProfileOf(g, EntryOf(r, l[i].task)).quality < BestQuality(g, l[i].task)
    BY <1>4, EventsAreOfEntries, DegradedActions
  <2>2. PICK e \in r.entries : l[i].task = e.task
    BY <2>1, EventsAreOfEntries DEF TaskEvents
  <2>3. EntryOf(r, l[i].task) = e
    BY <1>1, <2>2, EntryIsNamed
  <2> QED
    BY <1>3, <2>1, <2>2, <2>3
<1>5. ASSUME NEW e \in r.entries, Better(e)
      PROVE  \E i \in DOMAIN l : Action(g, r, l[i]) = "degraded_profile_selection"
  <2>1. PICK i \in DOMAIN l : Told(l, e.task, "selected") = {i}
    BY <1>1 DEF LifeTold
  <2>2. l[i].task = e.task /\ l[i].type = "selected"
    BY <2>1 DEF Told
  <2>3. EntryOf(r, l[i].task) = e
    BY <1>1, <2>2, EntryIsNamed
  <2>4. ProfileOf(g, EntryOf(r, l[i].task)).quality < BestQuality(g, l[i].task)
    BY <1>3, <1>5, <2>2, <2>3
  <2>5. l[i].type \in TaskEvents \cup RunEvents
    BY <2>2 DEF TaskEvents
  <2>6. Action(g, r, l[i]) = "degraded_profile_selection"
    BY <2>2, <2>4, <2>5, DegradedActions
  <2> QED
    BY <2>6
<1>6. Degradations(Records(g, r)) = {} <=> \A e \in r.entries : ~Better(e)
  BY <1>2, <1>4, <1>5
<1> QED
  BY <1>6 DEF Better

\* What the bundle says of itself.
LEMMA BundlesVerify ==
  ASSUME NEW g, NEW env, NEW r, NEW now, NEW ph, Sound(g, env, r, now, ph)
  PROVE  BundleVerifies(Records(g, r)) /\ EntriesExplained(g, r)
<1>1. /\ GraphShape(g) /\ ValidGraph(g) /\ \A e \in r.entries : Booked(g, env, e)
  BY SoundEntries DEF Sound
<1>2. EntriesExplained(g, r)
  BY <1>1, EntryProfile DEF EntriesExplained
<1>3. 1 \in DOMAIN r.events
  <2>1. r.events \in Seq(Happenings(g)) /\ Len(r.events) >= 1
    BY DEF Sound, Logged, LogShape
  <2> QED
    BY <2>1
<1> DEFINE records == Records(g, r)
<1>4. DOMAIN records = DOMAIN r.events /\ \A i \in DOMAIN records : records[i].sequence = i
  BY DEF Records
<1> HIDE DEF records
<1>5. records # <<>>
  BY <1>3, <1>4
<1> QED
  BY <1>2, <1>4, <1>5 DEF BundleVerifies, records

\* The two invariants explain every decision.
LEMMA ExplainedFromInvariants == SInv /\ Explaining => EveryDecisionIsExplained
<1> SUFFICES ASSUME SInv, Explaining, phase # "planning"
             PROVE  /\ EntriesExplained(G, Result) /\ BundleVerifies(Records(G, Result))
                    /\ Degradations(Records(G, Result)) = {} <=>
                         \A e \in entries : \A p \in Qualified(G, e.task) : p.quality <= ProfileOf(G, e).quality
                    /\ \A i \in DOMAIN log : Explained(G, E, plan.policy, Result, i)
  BY DEF EveryDecisionIsExplained
<1>1. Result.entries = entries /\ Result.events = log
  BY DEF Result
<1> HIDE DEF Result
<1>2. Sound(G, E, Result, time, phase)
  BY ResultsAreSound
<1>3. Explainable(G, E, plan.policy, Result, time, phase)
  BY <1>1, <1>2 DEF Explainable, Explaining, Capacity
<1>4. EntriesExplained(G, Result) /\ BundleVerifies(Records(G, Result))
  BY <1>2, BundlesVerify
<1>5. Degradations(Records(G, Result)) = {} <=>
        \A e \in Result.entries : \A p \in Qualified(G, e.task) : p.quality <= ProfileOf(G, e).quality
  BY <1>2, DegradationsAreTold
<1>6. \A i \in DOMAIN Result.events : Explained(G, E, plan.policy, Result, i)
  BY <1>3, EventsAreExplained
<1> QED
  BY <1>1, <1>4, <1>5, <1>6

\* Whatever the scheduler returns, finished or refused, explain_schedule can explain.
THEOREM DecisionsAreExplained == ScheduleSpec => []EveryDecisionIsExplained
BY SchedulesExplain, ExplainedFromInvariants, PTL

-----------------------------------------------------------------------------
(* Replanning: what is shed, and what is left. *)

Open(n) == Unfinished(n) \ Promised

Sheds(h, c, n) ==
  h = [k \in 0..Cardinality(O.tasks) |->
         IF k = 0 THEN {t \in Open(n) : Hopeless(c, n, t)}
         ELSE LET gone == h[k - 1]
              IN gone \union {t \in Open(n) : O.deps[t] \cap (gone \union n.skipped) # {}}]

\* What is shed is open, and all open work without hope is.
LEMMA ShedIsOpen ==
  ASSUME IsFiniteSet(O.tasks), NEW c, NEW n
  PROVE  /\ AutoShed(c, n) \subseteq Open(n)
         /\ \A t \in Open(n) : Hopeless(c, n, t) => t \in AutoShed(c, n)
<1> DEFINE N == Cardinality(O.tasks)
           V == SUBSET Open(n)
           B == {t \in Open(n) : Hopeless(c, n, t)}
           More(X) == X \union {t \in Open(n) : O.deps[t] \cap (X \union n.skipped) # {}}
           Step == [k \in Nat |-> [X \in V |-> More(X)]]
           h == CHOOSE h : Sheds(h, c, n)
<1>1. N \in Nat
  BY FS_CardinalityType
<1>2. B \in V /\ \A X \in V : More(X) \in V /\ X \subseteq More(X)
  OBVIOUS
<1>3. Step \in [Nat -> [V -> V]]
  BY <1>2
<1>4. PICK f \in [0..N -> V] : Iterates(f, B, Step, N)
  <2> HIDE DEF N, V, Step, B
  <2> QED
    BY <1>1, <1>2, <1>3, IterationExists
<1>5. \A k \in 0..N : k # 0 => k - 1 \in 0..N /\ Step[k][f[k - 1]] = More(f[k - 1])
  <2> SUFFICES ASSUME NEW k \in 0..N, k # 0 PROVE k - 1 \in 0..N /\ Step[k][f[k - 1]] = More(f[k - 1])
    OBVIOUS
  <2>1. k - 1 \in 0..N /\ k \in Nat
    BY <1>1
  <2>2. f[k - 1] \in V
    BY <2>1
  <2> HIDE DEF More, V
  <2> QED
    BY <2>1, <2>2
<1>6. Sheds(f, c, n)
  <2> HIDE DEF More
  <2>1. f = [k \in 0..N |-> IF k = 0 THEN B ELSE Step[k][f[k - 1]]]
    BY <1>4 DEF Iterates
  <2> HIDE DEF Step
  <2>2. f = [k \in 0..N |-> IF k = 0 THEN B ELSE More(f[k - 1])]
    BY <1>5, <2>1
  <2> QED
    BY <2>2 DEF Sheds, More
<1>7. Sheds(h, c, n)
  BY <1>6
<1>8. AutoShed(c, n) = h[N]
  BY DEF AutoShed, Sheds, Open
<1> HIDE DEF h
<1>9. h[0] = B /\ \A k \in 1..N : h[k] = More(h[k - 1])
  BY <1>1, <1>7 DEF Sheds
<1> DEFINE Good(k) == h[k] \in V /\ B \subseteq h[k]
           Bad == {k \in 0..N : ~Good(k)}
<1>10. Bad = {}
  <2>1. SUFFICES ASSUME Bad # {} PROVE FALSE
    OBVIOUS
  <2>2. PICK k \in Bad : \A m \in Bad : k <= m
    <3>1. Bad \in SUBSET Nat
      BY <1>1
    <3> HIDE DEF Bad
    <3> QED
      BY <2>1, <3>1, LeastNumber
  <2> HIDE DEF V, B, More
  <2>3. k # 0
    BY <1>2, <1>9, <2>2
  <2>4. k - 1 \in 0..N /\ k \in 1..N /\ k - 1 \notin Bad
    BY <1>1, <2>2, <2>3
  <2>5. h[k - 1] \in V /\ B \subseteq h[k - 1]
    BY <2>4
  <2> QED
    BY <1>2, <1>9, <2>2, <2>4, <2>5
<1>11. Good(N)
  BY <1>1, <1>10
<1> QED
  BY <1>8, <1>11

\* What the residual graph leaves out of the original.
LEMMA ResidualTasks ==
  ASSUME IsFiniteSet(O.tasks), NEW c, NEW n, ResidualRefusal(c, n) = "none"
  PROVE  /\ ResidualGraph(c, n).tasks \subseteq Unfinished(n)
         /\ ResidualGraph(c, n).tasks \cap AutoShed(c, n) = {}
         /\ Unfinished(n) \subseteq ResidualGraph(c, n).tasks \cup AutoShed(c, n)
         /\ AutoShed(c, n) \subseteq O.tasks \ Promised
         /\ n.skipped \cap Promised = {}
         /\ \A t \in ResidualGraph(c, n).tasks : ~Hopeless(c, n, t)
         /\ ResidualGraph(c, n).tasks = {} => PendingSeals(n) = {}
<1>1. ResidualGraph(c, n).tasks = Unfinished(n) \ AutoShed(c, n)
  BY DEF ResidualGraph
<1>2. /\ n.skipped \cap Promised = {}
      /\ {t \in Unfinished(n) \cap Promised : Hopeless(c, n, t)} = {}
      /\ ~(ResidualGraph(c, n).tasks = {} /\ PendingSeals(n) # {})
  BY DEF ResidualRefusal
<1>3. Unfinished(n) \subseteq O.tasks
  BY DEF Unfinished
<1> QED
  BY <1>1, <1>2, <1>3, ShedIsOpen DEF Open

-----------------------------------------------------------------------------
(* The conditions an event leaves, and the plan of what remains. *)

Conditioned(c) ==
  /\ EnvelopeShape(c.envelope) /\ ValidEnvelope(c.envelope)
  /\ \A p \in DOMAIN c.capacities : c.capacities[p] \in Nat
  /\ \A p \in DOMAIN c.slowdowns : c.slowdowns[p] \in Int /\ c.slowdowns[p] > 1000

\* What a durable state always is.
DurableFacts(s) ==
  /\ Conditioned(s)
  /\ s.applied \in Seq({e.id : e \in Disturbances}) /\ Distinct(s.applied)
  /\ s.revision = Len(s.applied)
  /\ s.settled \in [Units -> Int] /\ Within(Zero, s.settled) /\ s.elapsed \in Nat

\* A function with one value replaced or added has its values where they were.
LEMMA PutKeeps ==
  ASSUME NEW f, NEW x, NEW v, NEW P, \A y \in DOMAIN f : f[y] \in P, v \in P
  PROVE  \A y \in DOMAIN Put(f, x, v) : Put(f, x, v)[y] \in P
BY DEF Put

\* A valid event leaves valid conditions.
LEMMA EventsKeepConditions ==
  ASSUME NEW s, Conditioned(s), NEW e \in Disturbances, ValidEvent(e)
  PROVE  Conditioned(Applied(s, e))
<1> DEFINE c == Applied(s, e)
           Slow == {m \in Int : m > 1000}
<1>1. /\ c.envelope = IF e.kind = "envelope" THEN e.envelope ELSE s.envelope
      /\ c.capacities = IF e.kind = "capacity" THEN Put(s.capacities, e.provider, e.capacity) ELSE s.capacities
      /\ c.slowdowns = IF e.kind = "slowdown" THEN Put(s.slowdowns, e.provider, e.permille) ELSE s.slowdowns
  BY DEF Applied
<1> HIDE DEF c
<1>2. EnvelopeShape(c.envelope) /\ ValidEnvelope(c.envelope)
  BY <1>1, DisturbancesAssumption DEF Conditioned, ValidEvent
<1>3. \A p \in DOMAIN c.capacities : c.capacities[p] \in Nat
  <2>1. CASE e.kind = "capacity"
    <3>1. e.capacity \in Nat
      BY <2>1, DisturbancesAssumption DEF ValidEvent
    <3> QED
      BY <1>1, <2>1, <3>1, PutKeeps DEF Conditioned
  <2> QED
    BY <1>1, <2>1 DEF Conditioned
<1>4. \A p \in DOMAIN c.slowdowns : c.slowdowns[p] \in Slow
  <2>1. \A p \in DOMAIN s.slowdowns : s.slowdowns[p] \in Slow
    BY DEF Conditioned
  <2>2. CASE e.kind = "slowdown"
    <3>1. e.permille \in Slow
      BY <2>2, DisturbancesAssumption DEF ValidEvent
    <3> HIDE DEF Slow
    <3> QED
      BY <1>1, <2>1, <2>2, <3>1, PutKeeps
  <2> QED
    BY <1>1, <2>1, <2>2
<1> QED
  BY <1>2, <1>3, <1>4 DEF Conditioned, c

\* What an accepted snapshot is, of what the durable state is.
LEMMA AcceptedSnapshots ==
  ASSUME NEW s, DurableFacts(s), NEW e \in Disturbances, NEW n \in Snapshots, Accepts(s, e, n)
  PROVE  /\ n.settled \in [Units -> Int] /\ Within(Zero, n.settled) /\ n.elapsed \in Nat
         /\ Conditioned(Applied(s, e))
<1>1. n.settled \in [Units -> Int] /\ n.elapsed \in Int
  BY SnapshotsAssumption
<1>2. FactsGrow(s, n) /\ ValidEvent(e)
  BY DEF Accepts
<1>3. n.elapsed \in Nat
  BY <1>1, <1>2 DEF FactsGrow, DurableFacts
<1>4. Within(Zero, n.settled)
  <2> SUFFICES ASSUME NEW u \in Units PROVE Zero[u] <= n.settled[u]
    BY DEF Within
  <2>1. Zero[u] = 0 /\ s.settled[u] \in Int /\ n.settled[u] \in Int
    BY <1>1 DEF Zero, DurableFacts
  <2>2. Zero[u] <= s.settled[u] /\ s.settled[u] <= n.settled[u]
    BY <1>2 DEF DurableFacts, FactsGrow, Within
  <2> QED
    BY <2>1, <2>2
<1> QED
  BY <1>1, <1>2, <1>3, <1>4, EventsKeepConditions DEF DurableFacts

\* What is left of a valid envelope that is not used up is valid.
LEMMA RemainingEnvelopeIsGood ==
  ASSUME NEW c, Conditioned(c), NEW n, n.settled \in [Units -> Int], n.elapsed \in Nat,
         RemainingRefusal(c, n) = "none"
  PROVE  /\ EnvelopeShape(RemainingEnvelope(c, n)) /\ ValidEnvelope(RemainingEnvelope(c, n))
         /\ RemainingEnvelope(c, n).deadline = c.envelope.deadline - n.elapsed
         /\ RemainingEnvelope(c, n).caps = Minus(c.envelope.caps, n.settled)
<1> DEFINE v == c.envelope
           r == RemainingEnvelope(c, n)
           l == LimitsLeft(c)
<1>1. /\ {"deadline", "parallelism", "caps", "limits", "risk"} \subseteq DOMAIN v
      /\ v.deadline \in Int /\ v.parallelism \in Int /\ v.risk \in Nat /\ v.caps \in [Units -> Int]
      /\ \A p \in DOMAIN v.limits : v.limits[p] \in Int
      /\ v.deadline > 0 /\ v.parallelism > 0
  BY DEF Conditioned, EnvelopeShape, ValidEnvelope
<1>2. Within(n.settled, v.caps) /\ n.elapsed < v.deadline
  BY <1>1 DEF RemainingRefusal, Overspent
<1>3. /\ DOMAIN r = DOMAIN v /\ r.deadline = v.deadline - n.elapsed /\ r.parallelism = v.parallelism
      /\ r.risk = v.risk /\ r.caps = Minus(v.caps, n.settled) /\ r.limits = l
  BY <1>1 DEF RemainingEnvelope
<1>4. \A p \in DOMAIN l : l[p] \in Int /\ l[p] > 0
  BY <1>1 DEF LimitsLeft, Conditioned
<1>5. Minus(v.caps, n.settled) \in [Units -> Int] /\ \A u \in Units : Minus(v.caps, n.settled)[u] >= 0
  BY <1>1, <1>2 DEF Minus, Within
<1> HIDE DEF v, r, l
<1>6. EnvelopeShape(r)
  BY <1>1, <1>3, <1>4, <1>5 DEF EnvelopeShape
<1>7. ValidEnvelope(r)
  BY <1>1, <1>2, <1>3, <1>4, <1>5 DEF ValidEnvelope
<1> QED
  BY <1>3, <1>6, <1>7 DEF r, v

\* A scaled duration is a number.
LEMMA ScaledIsInt ==
  ASSUME NEW d \in Int, NEW m \in Int
  PROVE  ScaledDuration(d, m) \in Int
<1> DEFINE a == d * m + 999
<1>1. a \in Int
  OBVIOUS
<1>2. ScaledDuration(d, m) = a \div 1000
  BY DEF ScaledDuration
<1> HIDE DEF a
<1> QED
  BY <1>1, <1>2

\* The profiles left to a task are profiles of providers that can serve it.
LEMMA TransformedShape ==
  ASSUME GraphShape(O), NEW c, Conditioned(c), NEW t \in O.tasks
  PROVE  /\ IsFiniteSet(TransformedProfiles(c, t))
         /\ \A p \in TransformedProfiles(c, t) : ProfileShape(p)
         /\ \A p \in TransformedProfiles(c, t) :
              At(c.capacities, p.provider, 1) # 0 /\ <<t, p.provider>> \notin c.failed
<1> DEFINE Able == {q \in O.profiles[t] : /\ At(c.capacities, q.provider, 1) # 0
                                          /\ <<t, q.provider>> \notin c.failed}
           h == [p \in Able |-> [p EXCEPT !.p95 = ScaledDuration(p.p95, At(c.slowdowns, p.provider, 1000))]]
<1>1. IsFiniteSet(O.profiles[t]) /\ \A p \in O.profiles[t] : ProfileShape(p)
  BY DEF GraphShape
<1>2. TransformedProfiles(c, t) = {h[p] : p \in Able}
  <2> DEFINE Scaled(p) == [p EXCEPT !.p95 = ScaledDuration(p.p95, At(c.slowdowns, p.provider, 1000))]
  <2>1. TransformedProfiles(c, t) = {Scaled(p) : p \in Able}
    BY DEF TransformedProfiles
  <2>2. \A p \in Able : h[p] = Scaled(p)
    OBVIOUS
  <2> HIDE DEF Scaled, Able, h
  <2> QED
    BY <2>1, <2>2
<1>3. IsFiniteSet(Able)
  BY <1>1, FS_Subset
<1>4. IsFiniteSet(TransformedProfiles(c, t))
  <2> HIDE DEF Able, h
  <2> QED
    BY <1>2, <1>3, ImageFinite
<1>5. ASSUME NEW p \in Able
      PROVE  ProfileShape(h[p]) /\ At(c.capacities, h[p].provider, 1) # 0 /\ <<t, h[p].provider>> \notin c.failed
  <2> DEFINE m == At(c.slowdowns, p.provider, 1000)
             d == ScaledDuration(p.p95, m)
  <2>1. ProfileShape(p)
    BY <1>1
  <2>2. m \in Int
    BY DEF At, Conditioned
  <2>3. d \in Int
    <3> HIDE DEF m
    <3> QED
      BY <2>1, <2>2, ScaledIsInt DEF ProfileShape
  <2>4. h[p] = [p EXCEPT !.p95 = d]
    OBVIOUS
  <2> HIDE DEF h, d
  <2>5. /\ DOMAIN h[p] = DOMAIN p /\ h[p].p95 = d /\ h[p].id = p.id /\ h[p].provider = p.provider
        /\ h[p].quality = p.quality /\ h[p].risk = p.risk /\ h[p].use = p.use
    BY <2>1, <2>4 DEF ProfileShape
  <2> QED
    BY <2>1, <2>3, <2>5 DEF ProfileShape
<1> QED
  <2> HIDE DEF Able, h
  <2> QED
    BY <1>2, <1>4, <1>5

\* What is left of a graph is a graph: no deadline in it has passed.
LEMMA ResidualShape ==
  ASSUME GraphShape(O), NEW c, Conditioned(c), NEW n, n.elapsed \in Nat, ResidualRefusal(c, n) = "none"
  PROVE  GraphShape(ResidualGraph(c, n))
<1> DEFINE r == ResidualGraph(c, n)
           left == Unfinished(n) \ AutoShed(c, n)
<1>1. /\ r.tasks = left /\ r.optional = O.optional \cap left
      /\ r.profiles = [t \in left |-> TransformedProfiles(c, t)]
      /\ r.due = [t \in left |-> IF O.due[t] = 0 THEN 0 ELSE O.due[t] - n.elapsed]
      /\ r.value = O.value /\ r.minq = O.minq
  BY DEF ResidualGraph
<1>2. left \subseteq O.tasks /\ IsFiniteSet(O.tasks)
  BY DEF Unfinished, GraphShape
<1>3. \A t \in left : ~Hopeless(c, n, t)
  BY <1>1, <1>2, ResidualTasks
<1>4. IsFiniteSet(left) /\ left \subseteq Nat \ {0}
  BY <1>2, FS_Subset DEF GraphShape
<1> HIDE DEF r, left
<1>5. ASSUME NEW t \in left
      PROVE  /\ IsFiniteSet(r.profiles[t]) /\ \A p \in r.profiles[t] : ProfileShape(p)
             /\ r.due[t] \in Nat /\ r.value[t] \in Int /\ r.minq[t] \in Int
  <2>1. IsFiniteSet(r.profiles[t]) /\ \A p \in r.profiles[t] : ProfileShape(p)
    BY <1>1, <1>2, TransformedShape
  <2>2. ~Late(n, t) /\ O.due[t] \in Nat /\ O.value[t] \in Int /\ O.minq[t] \in Int
    BY <1>2, <1>3 DEF Hopeless, GraphShape
  <2> QED
    BY <1>1, <2>1, <2>2 DEF Late
<1> QED
  BY <1>1, <1>4, <1>5 DEF GraphShape, r

-----------------------------------------------------------------------------
(* The next durable state. *)

\* Appending a new member.
LEMMA AppendGrows ==
  ASSUME NEW V, NEW s \in Seq(V), NEW x \in V
  PROVE  /\ Append(s, x) \in Seq(V) /\ Len(Append(s, x)) = Len(s) + 1 /\ Len(s) \in Nat
         /\ IsPrefix(s, Append(s, x))
         /\ (Distinct(s) /\ x \notin ToSet(s)) => Distinct(Append(s, x))
<1> DEFINE a == Append(s, x)
<1>1. /\ a \in Seq(V) /\ Len(a) = Len(s) + 1 /\ Len(s) \in Nat
      /\ \A i \in 1..Len(s) : a[i] = s[i]
      /\ a[Len(s) + 1] = x
      /\ DOMAIN s = 1..Len(s) /\ DOMAIN a = 1..(Len(s) + 1)
  OBVIOUS
<1> HIDE DEF a
<1>2. IsPrefix(s, a)
  <2>1. SubSeq(s, 1, Len(s)) = SubSeq(a, 1, Len(s))
    <3> DEFINE m == Len(s)
    <3>1. SubSeq(s, 1, m) = [i \in 1..m |-> s[i]]
      BY <1>1
    <3>2. SubSeq(a, 1, m) = [i \in 1..m |-> a[i]]
      BY <1>1
    <3> QED
      BY <1>1, <3>1, <3>2
  <2> QED
    BY <1>1, <2>1 DEF IsPrefix
<1>3. ASSUME Distinct(s), x \notin ToSet(s) PROVE Distinct(a)
  <2>1. \A i \in 1..Len(s) : s[i] # x
    BY <1>1, <1>3 DEF ToSet
  <2>2. \A i, j \in 1..Len(s) : s[i] = s[j] => i = j
    BY <1>1, <1>3 DEF Distinct
  <2>3. \A i \in 1..(Len(s) + 1) : i \in 1..Len(s) \/ i = Len(s) + 1
    BY <1>1
  <2> SUFFICES ASSUME NEW i \in 1..(Len(s) + 1), NEW j \in 1..(Len(s) + 1), a[i] = a[j] PROVE i = j
    BY <1>1 DEF Distinct
  <2> QED
    BY <1>1, <2>1, <2>2, <2>3
<1> QED
  BY <1>1, <1>2, <1>3 DEF a

\* The next durable state has all facts of the last, validates, and counts its event once.
LEMMA DecisionsAddFacts ==
  ASSUME DurableFacts(durable), NEW e \in Disturbances, NEW n \in Snapshots, Accepts(durable, e, n),
         NEW shed, durable' = NextState(durable, e, n, shed)
  PROVE  DurableFacts(durable') /\ NoFactIsLost
<1> DEFINE c == Applied(durable, e)
           V == {d.id : d \in Disturbances}
<1>1. /\ durable'.revision = durable.revision + 1 /\ durable'.applied = Append(durable.applied, e.id)
      /\ durable'.envelope = c.envelope /\ durable'.capacities = c.capacities
      /\ durable'.slowdowns = c.slowdowns /\ durable'.failed = c.failed
      /\ durable'.completed = n.completed /\ durable'.skipped = n.skipped \union shed
      /\ durable'.seals = n.seals /\ durable'.settled = n.settled /\ durable'.elapsed = n.elapsed
  BY DEF NextState
<1>2. /\ n.settled \in [Units -> Int] /\ Within(Zero, n.settled) /\ n.elapsed \in Nat /\ Conditioned(c)
  BY AcceptedSnapshots
<1>3. e.id \notin ToSet(durable.applied) /\ FactsGrow(durable, n) /\ BoundaryGrows(durable, n)
  BY DEF Accepts
<1>4. durable.applied \in Seq(V) /\ Distinct(durable.applied) /\ durable.revision = Len(durable.applied)
  BY DEF DurableFacts
<1>5. e.id \in V
  OBVIOUS
<1>6. durable.failed \subseteq c.failed
  BY DEF Applied
<1> HIDE DEF c
<1>7. /\ durable'.applied \in Seq(V) /\ Distinct(durable'.applied)
      /\ durable'.revision = Len(durable'.applied) /\ IsPrefix(durable.applied, durable'.applied)
  <2> HIDE DEF V
  <2> QED
    BY <1>1, <1>3, <1>4, <1>5, AppendGrows
<1>8. Conditioned(durable')
  BY <1>1, <1>2 DEF Conditioned
<1>9. DurableFacts(durable')
  BY <1>1, <1>2, <1>7, <1>8 DEF DurableFacts
<1>10. Restored(durable') = durable'
  <2>1. Cardinality(ToSet(durable'.applied)) = durable'.revision
    <3> HIDE DEF V
    <3> QED
      BY <1>7, DistinctCounts
  <2>2. durable'.elapsed >= 0 /\ ValidEnvelope(durable'.envelope)
    BY <1>1, <1>2 DEF Conditioned
  <2>3. ValidateStateShape(durable')
    BY <1>1, <1>2, <1>7, <1>8, <2>1, <2>2 DEF ValidateStateShape, Conditioned
  <2> QED
    BY <2>3 DEF Restored
<1>11. FactsGrow(durable, durable')
  BY <1>1, <1>3 DEF FactsGrow
<1>12. Sealed(durable.seals) \subseteq Sealed(durable'.seals)
  BY <1>1, <1>3 DEF BoundaryGrows, SealsStay
<1> QED
  BY <1>1, <1>6, <1>7, <1>9, <1>10, <1>11, <1>12 DEF NoFactIsLost

-----------------------------------------------------------------------------
(* The schedule of what remains. *)

\* What is being scheduled: the rest of the run as an accepted snapshot leaves it.
Planned(e, n) ==
  /\ e \in Disturbances /\ n \in Snapshots /\ Accepts(durable, e, n)
  /\ ResidualRefusal(Applied(durable, e), n) = "none"
  /\ RemainingRefusal(Applied(durable, e), n) = "none"
  /\ plan.graph = ResidualGraph(Applied(durable, e), n)
  /\ plan.envelope = RemainingEnvelope(Applied(durable, e), n)

SoundOrigin == GraphShape(origin.graph) /\ ValidGraph(origin.graph)

\* What replan hands to the scheduler is what schedule accepts.
LEMMA ResidualPlanIsGood ==
  ASSUME SoundOrigin, DurableFacts(durable), NEW e \in Disturbances, NEW n \in Snapshots, Accepts(durable, e, n),
         ResidualRefusal(Applied(durable, e), n) = "none",
         RemainingRefusal(Applied(durable, e), n) = "none",
         ValidGraph(ResidualGraph(Applied(durable, e), n)), NEW policy
  PROVE  GoodPlan([graph |-> ResidualGraph(Applied(durable, e), n),
                   envelope |-> RemainingEnvelope(Applied(durable, e), n), policy |-> policy])
<1> DEFINE c == Applied(durable, e)
           g == ResidualGraph(c, n)
           v == RemainingEnvelope(c, n)
<1>1. n.settled \in [Units -> Int] /\ n.elapsed \in Nat /\ Conditioned(c)
  BY AcceptedSnapshots
<1>2. GraphShape(O)
  BY DEF SoundOrigin, O
<1> HIDE DEF c
<1>3. ResidualRefusal(c, n) = "none" /\ RemainingRefusal(c, n) = "none" /\ ValidGraph(g)
  BY DEF c
<1>4. GraphShape(g)
  BY <1>1, <1>2, <1>3, ResidualShape
<1>5. EnvelopeShape(v) /\ ValidEnvelope(v)
  BY <1>1, <1>3, RemainingEnvelopeIsGood
<1> HIDE DEF g, v
<1>6. GoodPlan([graph |-> g, envelope |-> v, policy |-> policy])
  BY <1>3, <1>4, <1>5 DEF GoodPlan
<1> QED
  BY <1>6 DEF g, v, c

-----------------------------------------------------------------------------
(* A finished schedule of what remains keeps the promises of the whole. *)

\* With what is over or under way, a finished schedule of the rest covers the promised work:
\* the three together are closed under dependencies.
LEMMA PromisesHold ==
  ASSUME SoundOrigin, DurableFacts(durable), SInv, phase = "completed", NEW e, NEW n, Planned(e, n)
  PROVE  LET done == n.completed
             sealed == Sealed(n.seals)
             given == n.skipped \union (AutoShed(Applied(durable, e), n) \union Skipped)
         IN /\ Promised \subseteq done \union sealed \union Completed
            /\ Started \cap (done \union given \union sealed) = {}
            /\ \A t \in Started : O.deps[t] \subseteq done \union Started
            /\ O.tasks = done \union given \union sealed \union Started
<1> DEFINE c == Applied(durable, e)
           done == n.completed
           sealed == Sealed(n.seals)
           shed == AutoShed(c, n)
           given == n.skipped \union (shed \union Skipped)
           left == G.tasks
<1>1. GraphShape(O) /\ ValidGraph(O) /\ IsFiniteSet(O.tasks) /\ TasksAreClosed(O)
      /\ O.tasks \ O.optional \in SUBSET O.tasks
  BY GoodGraphs DEF SoundOrigin, O, GraphShape
<1>2. G = ResidualGraph(c, n) /\ ResidualRefusal(c, n) = "none"
  BY DEF Planned, G
<1>3. TerminalSets(n) /\ CompletionClosure(n) /\ BoundaryGrows(durable, n)
  BY DEF Planned, Accepts
<1>4. /\ done \subseteq O.tasks /\ n.skipped \subseteq O.tasks /\ done \cap n.skipped = {}
      /\ n.skipped \cap sealed = {} /\ sealed \subseteq O.tasks
      /\ \A t \in done \union sealed : O.deps[t] \subseteq done
  BY <1>3 DEF TerminalSets, CompletionClosure, BoundaryGrows, SealsAreWrites
<1>5. Unfinished(n) = O.tasks \ (done \union sealed \union n.skipped)
  BY DEF Unfinished, PendingSeals
<1> HIDE DEF c
<1>6. /\ left \subseteq Unfinished(n) /\ left \cap shed = {} /\ Unfinished(n) \subseteq left \union shed
      /\ shed \subseteq O.tasks \ Promised /\ n.skipped \cap Promised = {}
  BY <1>1, <1>2, ResidualTasks
<1>7. shed \subseteq Unfinished(n)
  BY <1>1, ShedIsOpen DEF Open
<1>8. left = Unfinished(n) \ shed /\ \A t \in left : G.deps[t] = O.deps[t] \ done
  BY <1>2 DEF ResidualGraph, Satisfied
<1>9. G.optional = O.optional \cap left
  BY <1>2, <1>8 DEF ResidualGraph
<1>10. GraphShape(G) /\ ValidGraph(G)
  BY DEF SInv, GoodPlan, G
<1>11. /\ G.tasks \ G.optional \subseteq Protected /\ Protected \subseteq left /\ Closed(G, Protected)
  BY <1>10, MandatoryCloses DEF MustFinish, Protected
<1>12. /\ Completed = DoneOf(entries) /\ Started = TasksOf(entries)
  BY DEF Completed, Started, DoneOf, TasksOf
<1>13. Completed \union Skipped = left /\ Completed \subseteq Started
  BY <1>12 DEF SInv, Skipped, DoneOf, TasksOf
<1>14. Started \subseteq left
  BY <1>12 DEF SInv, Books, Booked, TasksOf
<1>15. Skipped \cap Started = {} /\ Skipped \cap Protected = {}
  <2>1. SkipsSound(G, entries, skipped)
    BY DEF SInv
  <2>2. \A t \in Skipped : \E i \in DOMAIN skipped : skipped[i] = t
    BY DEF Skipped, ToSet
  <2>3. Protected = MustFinish(G)
    BY DEF Protected, MustFinish
  <2> QED
    BY <1>12, <2>1, <2>2, <2>3 DEF SkipsSound
<1>16. \A t \in Started : G.deps[t] \subseteq Started
  <2> SUFFICES ASSUME NEW x \in entries, NEW d \in G.deps[x.task] PROVE d \in Started
    BY <1>12 DEF TasksOf
  <2>1. Preceded(G, entries, x)
    BY DEF SInv, Books
  <2> QED
    BY <1>12, <2>1 DEF Preceded, TasksOf
<1> HIDE DEF done, sealed, shed, left
<1>17. Promised \subseteq done \union sealed \union Protected
  <2> DEFINE X == done \union sealed \union Protected
  <2>1. O.tasks \ O.optional \subseteq X
    <3> SUFFICES ASSUME NEW t \in O.tasks \ O.optional, t \notin done \union sealed PROVE t \in Protected
      OBVIOUS
    <3>1. t \in Promised
      BY <1>1, AncestorsClose DEF Promised
    <3>2. t \in Unfinished(n) /\ t \notin shed
      BY <1>5, <1>6, <3>1
    <3> QED
      BY <1>6, <1>9, <1>11, <3>2 DEF left
  <2>2. Closed(O, X)
    <3> SUFFICES ASSUME NEW t \in X, NEW d \in O.deps[t] PROVE d \in X
      BY DEF Closed
    <3>1. CASE t \in Protected
      <4>1. d \in done \/ d \in G.deps[t]
        BY <1>8, <1>11, <3>1
      <4> QED
        BY <1>11, <3>1, <4>1 DEF Closed
    <3> QED
      BY <1>4, <3>1
  <2> HIDE DEF X
  <2>3. Promised \subseteq X
    BY <1>1, <2>1, <2>2, AncestorsAreLeast DEF Promised
  <2> QED
    BY <2>3 DEF X
<1>18. Promised \subseteq done \union sealed \union Completed
  BY <1>11, <1>13, <1>15, <1>17
<1>19. Started \cap (done \union given \union sealed) = {}
  BY <1>5, <1>6, <1>14, <1>15
<1>20. \A t \in Started : O.deps[t] \subseteq done \union Started
  BY <1>8, <1>14, <1>16
<1>21. O.tasks = done \union given \union sealed \union Started
  <2>1. O.tasks \subseteq done \union given \union sealed \union Started
    BY <1>5, <1>6, <1>13
  <2>2. left \subseteq O.tasks /\ shed \subseteq O.tasks /\ Skipped \subseteq left
    BY <1>5, <1>6, <1>7, <1>13
  <2> QED
    BY <1>4, <1>14, <2>1, <2>2
<1> QED
  BY <1>18, <1>19, <1>20, <1>21 DEF done, sealed, shed, c

\* Nothing left to do, and no effect under way: the promised work is complete.
LEMMA NothingLeftIsComplete ==
  ASSUME SoundOrigin, NEW c, NEW n, TerminalSets(n), BoundaryGrows(durable, n), ResidualRefusal(c, n) = "none",
         ResidualGraph(c, n).tasks = {}
  PROVE  /\ Promised \subseteq n.completed
         /\ O.tasks = n.completed \union (n.skipped \union AutoShed(c, n)) \union Sealed(n.seals)
<1>1. GraphShape(O) /\ ValidGraph(O) /\ IsFiniteSet(O.tasks) /\ TasksAreClosed(O)
      /\ O.tasks \ O.optional \in SUBSET O.tasks
  BY GoodGraphs DEF SoundOrigin, O, GraphShape
<1>2. /\ Unfinished(n) \subseteq AutoShed(c, n) /\ AutoShed(c, n) \subseteq O.tasks \ Promised
      /\ n.skipped \cap Promised = {} /\ PendingSeals(n) = {}
  BY <1>1, ResidualTasks
<1>3. n.completed \subseteq O.tasks /\ n.skipped \subseteq O.tasks /\ Sealed(n.seals) \subseteq O.tasks
  BY DEF TerminalSets, BoundaryGrows, SealsAreWrites
<1>4. Promised \subseteq O.tasks
  BY <1>1, AncestorsClose DEF Promised
<1>5. O.tasks \ Unfinished(n) \subseteq n.completed \union PendingSeals(n) \union n.skipped
  BY DEF Unfinished
<1> QED
  BY <1>2, <1>3, <1>4, <1>5 DEF PendingSeals

\* A finished schedule of what remains fits what the run as a whole was given.
LEMMA PlanFits ==
  ASSUME SoundOrigin, DurableFacts(durable), SInv, phase = "completed", NEW e, NEW n, Planned(e, n)
  PROVE  LET c == Applied(durable, e)
         IN /\ Within(Plus(n.settled, used), c.envelope.caps)
            /\ n.elapsed + time <= c.envelope.deadline
            /\ \A x \in entries :
                 /\ O.due[x.task] # 0 => n.elapsed + x.end <= O.due[x.task]
                 /\ At(c.capacities, x.provider, 1) # 0
                 /\ <<x.task, x.provider>> \notin c.failed
<1> DEFINE c == Applied(durable, e)
<1>1. /\ e \in Disturbances /\ n \in Snapshots /\ Accepts(durable, e, n)
      /\ ResidualRefusal(c, n) = "none" /\ RemainingRefusal(c, n) = "none"
      /\ G = ResidualGraph(c, n) /\ E = RemainingEnvelope(c, n)
  BY DEF Planned, G, E
<1>2. n.settled \in [Units -> Int] /\ n.elapsed \in Nat /\ Conditioned(c)
  BY <1>1, AcceptedSnapshots
<1> HIDE DEF c
<1>3. E.deadline = c.envelope.deadline - n.elapsed /\ E.caps = Minus(c.envelope.caps, n.settled)
  BY <1>1, <1>2, RemainingEnvelopeIsGood
<1>4. c.envelope.deadline \in Int /\ c.envelope.caps \in [Units -> Int]
  BY <1>2 DEF Conditioned, EnvelopeShape
<1>5. Within(Plus(n.settled, used), c.envelope.caps)
  <2>1. used \in [Units -> Int] /\ Within(used, E.caps)
    BY DEF SInv, AccountsKept
  <2> SUFFICES ASSUME NEW u \in Units PROVE Plus(n.settled, used)[u] <= c.envelope.caps[u]
    BY DEF Within
  <2>2. used[u] \in Int /\ n.settled[u] \in Int /\ c.envelope.caps[u] \in Int
    BY <1>2, <1>4, <2>1
  <2>3. used[u] <= c.envelope.caps[u] - n.settled[u]
    BY <1>3, <2>1 DEF Within, Minus
  <2>4. Plus(n.settled, used)[u] = n.settled[u] + used[u]
    BY DEF Plus
  <2> QED
    BY <2>2, <2>3, <2>4
<1>6. n.elapsed + time <= c.envelope.deadline
  <2>1. time \in Nat /\ time <= E.deadline
    BY DEF SInv
  <2> QED
    BY <1>2, <1>3, <1>4, <2>1
<1>7. GraphShape(O) /\ IsFiniteSet(O.tasks)
  BY DEF SoundOrigin, O, GraphShape
<1>8. /\ G.tasks \subseteq O.tasks
      /\ \A t \in G.tasks : /\ G.profiles[t] = TransformedProfiles(c, t)
                            /\ G.due[t] = IF O.due[t] = 0 THEN 0 ELSE O.due[t] - n.elapsed
                            /\ ~Late(n, t)
  <2>1. \A t \in G.tasks : ~Hopeless(c, n, t)
    BY <1>1, <1>7, ResidualTasks
  <2>2. /\ G.tasks = Unfinished(n) \ AutoShed(c, n)
        /\ G.profiles = [t \in G.tasks |-> TransformedProfiles(c, t)]
        /\ G.due = [t \in G.tasks |-> IF O.due[t] = 0 THEN 0 ELSE O.due[t] - n.elapsed]
    BY <1>1 DEF ResidualGraph
  <2> QED
    BY <2>1, <2>2 DEF Hopeless, Unfinished
<1>9. ASSUME NEW x \in entries
      PROVE  /\ O.due[x.task] # 0 => n.elapsed + x.end <= O.due[x.task]
             /\ At(c.capacities, x.provider, 1) # 0
             /\ <<x.task, x.provider>> \notin c.failed
  <2>1. Booked(G, E, x) /\ Timed(x, time, "completed")
    BY DEF SInv, Books
  <2>2. x.outcome # "cancelled"
    BY <2>1 DEF Timed
  <2>3. x.task \in G.tasks /\ x.end \in Nat /\ x.end <= DueBy(G, E, x.task)
    BY <2>1, <2>2 DEF Booked
  <2>4. PICK p \in Qualified(G, x.task) : p.provider = x.provider
    BY <2>1 DEF Booked
  <2>5. p \in TransformedProfiles(c, x.task)
    BY <1>8, <2>3, <2>4 DEF Qualified
  <2>6. At(c.capacities, x.provider, 1) # 0 /\ <<x.task, x.provider>> \notin c.failed
    BY <1>2, <1>7, <1>8, <2>3, <2>4, <2>5, TransformedShape
  <2>7. ASSUME O.due[x.task] # 0 PROVE n.elapsed + x.end <= O.due[x.task]
    <3>1. O.due[x.task] \in Nat /\ O.due[x.task] - n.elapsed > 0 /\ G.due[x.task] = O.due[x.task] - n.elapsed
      BY <1>2, <1>7, <1>8, <2>3, <2>7 DEF Late, GraphShape
    <3>2. DueBy(G, E, x.task) <= G.due[x.task]
      BY <1>2, <1>3, <1>4, <3>1 DEF DueBy, Least
    <3>3. E.deadline \in Int /\ DueBy(G, E, x.task) \in Int
      BY <1>2, <1>3, <1>4, <3>1 DEF DueBy, Least
    <3> QED
      BY <1>2, <2>3, <3>1, <3>2, <3>3
  <2> QED
    BY <2>6, <2>7
<1> QED
  BY <1>5, <1>6, <1>9 DEF c

-----------------------------------------------------------------------------
(* The invariant of a run that is replanned. *)

RInv ==
  /\ SInv /\ SoundOrigin /\ DurableFacts(durable)
  /\ request # None => Planned(request.event, request.snapshot)
  /\ Decided => phase # "planning"
  /\ PromisesAreKept /\ PlansFitTheRun

\* The invariant holds when the run is bound to its graph and envelope.
LEMMA ReplanningStarts ==
  ASSUME RInit
  PROVE  RInv
<1>1. /\ GraphShape(plan.graph) /\ ValidGraph(plan.graph)
      /\ EnvelopeShape(plan.envelope) /\ ValidEnvelope(plan.envelope)
  BY PlansAssumption DEF RInit, ScheduleInit, Admitted
<1>2. Fresh /\ origin = [graph |-> plan.graph, envelope |-> plan.envelope] /\ request = None
  BY DEF RInit, ScheduleInit
<1> PICK n \in Snapshots : Bindable(n) /\ durable = InitialState(plan.envelope, n)
  BY DEF RInit
<1>3. SInv
  BY <1>1, <1>2, FreshKeeps DEF GoodPlan
<1>4. SoundOrigin
  BY <1>1, <1>2 DEF SoundOrigin
<1>5. /\ durable.revision = 0 /\ durable.applied = <<>> /\ durable.envelope = plan.envelope
      /\ durable.settled = n.settled /\ durable.elapsed = n.elapsed
      /\ durable.capacities = <<>> /\ durable.slowdowns = <<>>
  BY DEF InitialState
<1>6. Conditioned(durable)
  <2>1. DOMAIN <<>> = {}
    OBVIOUS
  <2> QED
    BY <1>1, <1>5, <2>1 DEF Conditioned
<1>7. /\ durable.settled \in [Units -> Int] /\ Within(Zero, durable.settled)
      /\ durable.elapsed \in Nat
  BY <1>5, SnapshotsAssumption DEF Bindable
<1>8. DurableFacts(durable)
  <2> DEFINE V == {d.id : d \in Disturbances}
  <2>1. <<>> \in Seq(V) /\ Len(<<>>) = 0 /\ Distinct(<<>>)
    BY DEF Distinct
  <2> HIDE DEF V
  <2> QED
    BY <1>5, <1>6, <1>7, <2>1 DEF DurableFacts, V
<1>9. ~Decided
  BY <1>5 DEF Decided
<1> QED
  BY <1>2, <1>3, <1>4, <1>8, <1>9 DEF RInv, PromisesAreKept, PlansFitTheRun

-----------------------------------------------------------------------------
(* While the original graph stays, what is asked of it does. *)

ShedLimit(g, open, first, gone) ==
  (CHOOSE h : h = [k \in 0..Cardinality(g.tasks) |->
                     IF k = 0 THEN first
                     ELSE LET more == h[k - 1]
                          IN more \union {t \in open : g.deps[t] \cap (more \union gone) # {}}])
  [Cardinality(g.tasks)]

\* AutoShed in terms of what it depends on.
LEMMA ShedIsLimit ==
  ASSUME NEW c, NEW n
  PROVE  AutoShed(c, n) = ShedLimit(O, Open(n), {t \in Open(n) : Hopeless(c, n, t)}, n.skipped)
BY DEF AutoShed, ShedLimit, Open

\* The residual graph, and why there is none, depend on the original graph only.
LEMMA GraphStays ==
  ASSUME UNCHANGED origin, NEW c, NEW n
  PROVE  /\ ResidualGraph(c, n)' = ResidualGraph(c, n)
         /\ ResidualRefusal(c, n)' = ResidualRefusal(c, n)
<1>1. O' = O
  BY DEF O
<1>2. Promised' = Promised
  BY <1>1 DEF Promised
<1>3. Unfinished(n)' = Unfinished(n)
  BY <1>1 DEF Unfinished, PendingSeals
<1>4. Open(n)' = Open(n)
  BY <1>2, <1>3 DEF Open
<1>5. ASSUME NEW t PROVE TransformedProfiles(c, t)' = TransformedProfiles(c, t)
  BY <1>1 DEF TransformedProfiles
<1>6. ASSUME NEW t PROVE /\ Hopeless(c, n, t)' <=> Hopeless(c, n, t)
                         /\ Late(n, t)' <=> Late(n, t)
                         /\ Uncommitted(n, t)' <=> Uncommitted(n, t)
  BY <1>1, <1>5 DEF Hopeless, Uncommitted, Profileless, Late
<1>7. AutoShed(c, n)' = AutoShed(c, n)
  <2>1. AutoShed(c, n)' = ShedLimit(O, Open(n), {t \in Open(n) : Hopeless(c, n, t)}, n.skipped)'
    BY DEF AutoShed, ShedLimit, Open
  <2>2. {t \in Open(n) : Hopeless(c, n, t)}' = {t \in Open(n) : Hopeless(c, n, t)}
    BY <1>4, <1>6
  <2> QED
    BY <1>1, <1>4, <2>1, <2>2, ShedIsLimit
<1>8. ResidualGraph(c, n)' = ResidualGraph(c, n)
  <2>1. \A t : TransformedProfiles(c, t)' = TransformedProfiles(c, t)
    BY <1>5
  <2> QED
    BY <1>1, <1>3, <1>7, <2>1 DEF ResidualGraph, Satisfied
<1>9. ResidualRefusal(c, n)' = ResidualRefusal(c, n)
  <2> DEFINE broken == {t \in Unfinished(n) \cap Promised : Hopeless(c, n, t)}
  <2>1. broken' = broken
    BY <1>2, <1>3, <1>6
  <2>2. \A t : (Uncommitted(n, t)' <=> Uncommitted(n, t)) /\ (Late(n, t)' <=> Late(n, t))
    BY <1>6
  <2> QED
    BY <1>2, <1>8, <2>1, <2>2 DEF ResidualRefusal, PendingSeals
<1> QED
  BY <1>8, <1>9

\* So does the acceptance of a snapshot, but for the durable state.
LEMMA AcceptanceStays ==
  ASSUME UNCHANGED <<origin, durable>>, NEW e, NEW n
  PROVE  Accepts(durable, e, n)' <=> Accepts(durable, e, n)
<1>1. O' = O
  BY DEF O
<1>2. BoundaryGrows(durable, n)' <=> BoundaryGrows(durable, n)
  BY <1>1 DEF BoundaryGrows, SealsAreWrites
<1>3. ValidEvent(e)' <=> ValidEvent(e)
  BY <1>1 DEF ValidEvent, KnownProviders, Providers
<1>4. (TerminalSets(n)' <=> TerminalSets(n)) /\ (CompletionClosure(n)' <=> CompletionClosure(n))
  BY <1>1 DEF TerminalSets, CompletionClosure
<1> QED
  BY <1>2, <1>3, <1>4 DEF Accepts

\* A plan of an accepted snapshot stays one while nothing is decided.
LEMMA PlanStaysPlanned ==
  ASSUME UNCHANGED <<origin, durable>>, NEW e \in Disturbances, NEW n \in Snapshots, Accepts(durable, e, n),
         NEW c, c = Applied(durable, e),
         ResidualRefusal(c, n) = "none", RemainingRefusal(c, n) = "none",
         plan'.graph = ResidualGraph(c, n), plan'.envelope = RemainingEnvelope(c, n)
  PROVE  Planned(e, n)'
<1>1. c = Applied(durable, e)'
  BY DEF Applied
<1>2. /\ ResidualGraph(c, n)' = ResidualGraph(c, n)
      /\ ResidualRefusal(c, n)' = ResidualRefusal(c, n)
  BY GraphStays
<1>3. Accepts(durable, e, n)' <=> Accepts(durable, e, n)
  BY AcceptanceStays
<1> QED
  BY <1>1, <1>2, <1>3 DEF Planned

-----------------------------------------------------------------------------
(* Each step of a run that is replanned. *)

\* A step that is not a decision decides nothing.
LEMMA UndecidedKeeps ==
  ASSUME ~Decided'
  PROVE  PromisesAreKept' /\ PlansFitTheRun' /\ (Decided => phase # "planning")'
BY DEF PromisesAreKept, PlansFitTheRun

\* The request being scheduled stays planned while nothing is decided.
LEMMA RequestStaysPlanned ==
  ASSUME UNCHANGED <<origin, durable, request, plan>>, Planned(request.event, request.snapshot)
  PROVE  Planned(request.event, request.snapshot)'
<1>1. PICK e, n, c : e = request.event /\ n = request.snapshot /\ c = Applied(durable, e)
  OBVIOUS
<1>2. /\ e \in Disturbances /\ n \in Snapshots /\ Accepts(durable, e, n)
      /\ ResidualRefusal(c, n) = "none" /\ RemainingRefusal(c, n) = "none"
      /\ plan.graph = ResidualGraph(c, n) /\ plan.envelope = RemainingEnvelope(c, n)
  BY <1>1 DEF Planned
<1>3. Planned(e, n)'
  BY <1>1, <1>2, PlanStaysPlanned
<1>4. e = request'.event /\ n = request'.snapshot
  BY <1>1
<1> QED
  BY <1>3, <1>4 DEF Planned

\* A step of the scheduler decides nothing.
LEMMA ScheduleStepKeepsRun ==
  ASSUME RInv, Schedules
  PROVE  RInv' /\ UNCHANGED durable
<1>1. ScheduleStep /\ UNCHANGED <<origin, durable, request, decision>>
  BY DEF Schedules
<1>2. phase = "planning" /\ UNCHANGED plan
  BY <1>1 DEF ScheduleStep, SkipBlocked, OpenPass, Start, Hold, SkipUnaffordable, Refuse, Advance,
              PassAgain, Complete, AtHead, InPass, PassEnds
<1>3. SInv'
  BY <1>1, StepsKeep DEF RInv
<1>4. ~Decided'
  BY <1>1, <1>2 DEF RInv, Decided
<1>5. SoundOrigin' /\ DurableFacts(durable')
  BY <1>1 DEF RInv, SoundOrigin
<1>6. ASSUME request' # None PROVE Planned(request.event, request.snapshot)'
  BY <1>1, <1>2, <1>6, RequestStaysPlanned DEF RInv
<1> QED
  BY <1>1, <1>3, <1>4, <1>5, <1>6, UndecidedKeeps DEF RInv

\* Neither does the call of the scheduler; it makes a good plan of the rest.
LEMMA ReplanSchedulesKeeps ==
  ASSUME RInv, ReplanSchedules
  PROVE  RInv' /\ UNCHANGED durable
<1>1. PICK e \in Disturbances, n \in Snapshots :
        LET c == Applied(durable, e)  residual == ResidualGraph(c, n)
        IN /\ Submitted(e, n) /\ ResidualRefusal(c, n) = "none"
           /\ residual.tasks # {} /\ ValidGraph(residual) /\ RemainingRefusal(c, n) = "none"
           /\ request' = [event |-> e, snapshot |-> n]
           /\ plan' = [graph |-> residual, envelope |-> RemainingEnvelope(c, n), policy |-> "adaptive"]
           /\ phase' = "planning" /\ time' = 0
           /\ pass' = <<>> /\ opened' = FALSE /\ moved' = FALSE
           /\ running' = <<>> /\ entries' = {} /\ skipped' = <<>>
           /\ used' = Zero /\ risk' = 0
           /\ log' = <<[time |-> 0, type |-> "run.started", task |-> NoTask]>>
           /\ UNCHANGED <<origin, durable, decision>>
  BY DEF ReplanSchedules
<1>2. PICK c : c = Applied(durable, e)
  OBVIOUS
<1>3. /\ Accepts(durable, e, n) /\ ResidualRefusal(c, n) = "none" /\ RemainingRefusal(c, n) = "none"
      /\ ValidGraph(ResidualGraph(c, n))
      /\ request' = [event |-> e, snapshot |-> n]
      /\ plan' = [graph |-> ResidualGraph(c, n), envelope |-> RemainingEnvelope(c, n), policy |-> "adaptive"]
      /\ UNCHANGED <<origin, durable>>
  BY <1>1, <1>2 DEF Submitted
<1>4. GoodPlan(plan')
  BY <1>2, <1>3, ResidualPlanIsGood DEF RInv
<1>5. Fresh'
  BY <1>1 DEF Fresh
<1>6. (GoodPlan(plan) /\ Fresh => SInv)'
  BY FreshKeeps, PTL
<1>7. SInv'
  BY <1>4, <1>5, <1>6
<1>8. SoundOrigin' /\ DurableFacts(durable')
  BY <1>3 DEF RInv, SoundOrigin
<1>9. request' # None
  BY <1>3 DEF None
<1>10. ~Decided'
  BY <1>9 DEF Decided
<1>11. Planned(request.event, request.snapshot)'
  <2>1. Planned(e, n)'
    BY <1>2, <1>3, PlanStaysPlanned
  <2>2. e = request'.event /\ n = request'.snapshot
    BY <1>3
  <2> QED
    BY <2>1, <2>2 DEF Planned
<1> QED
  BY <1>3, <1>7, <1>8, <1>10, <1>11, UndecidedKeeps DEF RInv

\* What every decision does.
LEMMA DecisionsKeep ==
  ASSUME RInv, NEW e \in Disturbances, NEW n \in Snapshots, Accepts(durable, e, n),
         NEW disposition, NEW reason, NEW shed, Decide(e, n, disposition, reason, shed),
         UNCHANGED <<vars, origin>>, phase # "planning", request' = None
  PROVE  /\ SInv' /\ SoundOrigin' /\ DurableFacts(durable') /\ NoFactIsLost
         /\ (Decided => phase # "planning")'
         /\ decision'.disposition = disposition
<1>1. SInv'
  BY StepsKeep DEF RInv
<1>2. SoundOrigin'
  BY DEF RInv, SoundOrigin
<1>3. PICK gone : durable' = NextState(durable, e, n, gone) /\ decision'.disposition = disposition
  BY DEF Decide
<1>4. DurableFacts(durable') /\ NoFactIsLost
  BY <1>3, DecisionsAddFacts DEF RInv
<1>5. phase' # "planning"
  BY DEF vars
<1> QED
  BY <1>1, <1>2, <1>3, <1>4, <1>5

\* A refusal before scheduling promises nothing and loses no fact.
LEMMA ReplanRefusesKeeps ==
  ASSUME RInv, ReplanRefuses
  PROVE  RInv' /\ NoFactIsLost
<1>1. \E e \in Disturbances, n \in Snapshots : \E why :
        /\ Submitted(e, n) /\ Decide(e, n, "refused", why, {})
        /\ UNCHANGED <<vars, origin, request>>
  BY DEF ReplanRefuses
<1> PICK e \in Disturbances, n \in Snapshots : \E why :
        /\ Submitted(e, n) /\ Decide(e, n, "refused", why, {})
        /\ UNCHANGED <<vars, origin, request>>
  BY <1>1
<1> PICK why : Decide(e, n, "refused", why, {})
  OBVIOUS
<1>2. Accepts(durable, e, n) /\ phase # "planning" /\ request' = None /\ UNCHANGED <<vars, origin>>
  BY DEF Submitted
<1>3. /\ SInv' /\ SoundOrigin' /\ DurableFacts(durable') /\ NoFactIsLost
      /\ (Decided => phase # "planning")'
      /\ decision'.disposition = "refused"
  BY <1>2, DecisionsKeep
<1>4. PromisesAreKept' /\ PlansFitTheRun'
  BY <1>3 DEF PromisesAreKept, PlansFitTheRun
<1> QED
  BY <1>2, <1>3, <1>4 DEF RInv

\* When nothing is left to do the promised work is complete.
LEMMA ReplanCompletesKeeps ==
  ASSUME RInv, ReplanCompletes
  PROVE  RInv' /\ NoFactIsLost
<1>1. PICK e \in Disturbances, n \in Snapshots :
        LET c == Applied(durable, e)
        IN /\ Submitted(e, n) /\ ResidualRefusal(c, n) = "none"
           /\ ResidualGraph(c, n).tasks = {} /\ ConsumedEnvelopeRefusal(c, n) = "none"
           /\ Decide(e, n, "complete", "no_residual_work", AutoShed(c, n))
           /\ UNCHANGED <<vars, origin, request>>
  BY DEF ReplanCompletes
<1>2. PICK c : c = Applied(durable, e)
  OBVIOUS
<1>3. /\ Accepts(durable, e, n) /\ phase # "planning" /\ request' = None
      /\ ResidualRefusal(c, n) = "none" /\ ResidualGraph(c, n).tasks = {}
      /\ Decide(e, n, "complete", "no_residual_work", AutoShed(c, n))
      /\ UNCHANGED <<vars, origin>>
  BY <1>1, <1>2 DEF Submitted
<1>4. /\ SInv' /\ SoundOrigin' /\ DurableFacts(durable') /\ NoFactIsLost
      /\ (Decided => phase # "planning")'
      /\ decision'.disposition = "complete"
  BY <1>3, DecisionsKeep
<1>5. /\ durable'.completed = n.completed /\ durable'.skipped = n.skipped \union AutoShed(c, n)
      /\ durable'.seals = n.seals
  BY <1>3 DEF Decide, NextState
<1>6. /\ Promised \subseteq n.completed
      /\ O.tasks = n.completed \union (n.skipped \union AutoShed(c, n)) \union Sealed(n.seals)
  BY <1>3, NothingLeftIsComplete DEF RInv, Accepts
<1>7. O' = O /\ Promised' = Promised
  BY <1>3 DEF O, Promised
<1>8. PromisesAreKept'
  BY <1>4, <1>5, <1>6, <1>7 DEF PromisesAreKept, Sealed
<1>9. PlansFitTheRun'
  BY <1>4 DEF PlansFitTheRun
<1> QED
  BY <1>3, <1>4, <1>8, <1>9 DEF RInv

\* A schedule that failed is a refusal.
LEMMA FailedReturnKeeps ==
  ASSUME RInv, ReplanReturns, phase = "failed"
  PROVE  RInv' /\ NoFactIsLost
<1>1. PICK e, n : e = request.event /\ n = request.snapshot
  OBVIOUS
<1>2. /\ Decide(e, n, "refused", "scheduler_refused", {}) /\ request' = None
      /\ UNCHANGED <<vars, origin>> /\ phase # "planning" /\ request # None
  BY <1>1 DEF ReplanReturns
<1>3. e \in Disturbances /\ n \in Snapshots /\ Accepts(durable, e, n)
  BY <1>1, <1>2 DEF RInv, Planned
<1>4. /\ SInv' /\ SoundOrigin' /\ DurableFacts(durable') /\ NoFactIsLost
      /\ (Decided => phase # "planning")'
      /\ decision'.disposition = "refused"
  BY <1>2, <1>3, DecisionsKeep
<1>5. PromisesAreKept' /\ PlansFitTheRun'
  BY <1>4 DEF PromisesAreKept, PlansFitTheRun
<1> QED
  BY <1>2, <1>4, <1>5 DEF RInv

\* A schedule that is offered keeps the promises and fits the run.
LEMMA FinishedReturnKeeps ==
  ASSUME RInv, ReplanReturns, phase # "failed"
  PROVE  RInv' /\ NoFactIsLost
<1>1. PICK e, n, c : e = request.event /\ n = request.snapshot /\ c = Applied(durable, e)
  OBVIOUS
<1> DEFINE shed == AutoShed(c, n) \union Skipped
<1>2. /\ request # None /\ phase # "planning" /\ request' = None /\ UNCHANGED <<vars, origin>>
      /\ Decide(e, n, "scheduled", IF shed = {} THEN "event_applied" ELSE "optional_work_shed", shed)
  BY <1>1 DEF ReplanReturns
<1>3. phase = "completed"
  BY <1>2 DEF RInv, SInv
<1>4. Planned(e, n)
  BY <1>1, <1>2 DEF RInv
<1>5. e \in Disturbances /\ n \in Snapshots /\ Accepts(durable, e, n)
  BY <1>4 DEF Planned
<1>6. /\ SInv' /\ SoundOrigin' /\ DurableFacts(durable') /\ NoFactIsLost
      /\ (Decided => phase # "planning")'
      /\ decision'.disposition = "scheduled"
  BY <1>2, <1>5, DecisionsKeep
<1>7. /\ durable'.completed = n.completed /\ durable'.skipped = n.skipped \union shed
      /\ durable'.seals = n.seals /\ durable'.settled = n.settled /\ durable'.elapsed = n.elapsed
      /\ durable'.envelope = c.envelope /\ durable'.capacities = c.capacities /\ durable'.failed = c.failed
  BY <1>1, <1>2 DEF Decide, NextState
<1>8. SoundOrigin /\ DurableFacts(durable) /\ SInv
  BY DEF RInv
<1>9. O' = O /\ Promised' = Promised
  BY <1>2 DEF O, Promised
<1>10. /\ entries' = entries /\ used' = used /\ time' = time
       /\ Started' = Started /\ Completed' = Completed
  BY <1>2 DEF vars, Started, Completed
<1>11. PromisesAreKept'
  <2>1. /\ Promised \subseteq n.completed \union Sealed(n.seals) \union Completed
        /\ Started \cap (n.completed \union (n.skipped \union shed) \union Sealed(n.seals)) = {}
        /\ \A t \in Started : O.deps[t] \subseteq n.completed \union Started
        /\ O.tasks = n.completed \union (n.skipped \union shed) \union Sealed(n.seals) \union Started
    BY <1>1, <1>3, <1>4, <1>8, PromisesHold
  <2> HIDE DEF shed
  <2>2. Sealed(durable'.seals) = Sealed(n.seals)
    BY <1>7
  <2> QED
    BY <1>6, <1>7, <1>9, <1>10, <2>1, <2>2 DEF PromisesAreKept
<1>12. PlansFitTheRun'
  <2>1. /\ Within(Plus(n.settled, used), c.envelope.caps)
        /\ n.elapsed + time <= c.envelope.deadline
        /\ \A x \in entries :
             /\ O.due[x.task] # 0 => n.elapsed + x.end <= O.due[x.task]
             /\ At(c.capacities, x.provider, 1) # 0
             /\ <<x.task, x.provider>> \notin c.failed
    BY <1>1, <1>3, <1>4, <1>8, PlanFits
  <2>2. (SInv => SchedulesAreConserved)'
    BY ConservedFromSInv, PTL
  <2>3. phase' # "planning"
    BY <1>2 DEF vars
  <2>4. AccountsHold(G, E, Result)' /\ (PureTasksAreFree(G)' => VerifyConservation(G, E, Result)')
    BY <1>6, <2>2, <2>3 DEF SchedulesAreConserved
  <2> HIDE DEF shed
  <2> QED
    BY <1>7, <1>9, <1>10, <2>1, <2>4 DEF PlansFitTheRun
<1> QED
  BY <1>2, <1>6, <1>11, <1>12 DEF RInv

\* Standing still changes nothing.
LEMMA StandingStillKeeps ==
  ASSUME RInv, UNCHANGED rvars
  PROVE  RInv'
<1>1. UNCHANGED vars /\ UNCHANGED <<origin, durable, request, decision>>
  BY DEF rvars
<1>2. SInv'
  BY <1>1, StepsKeep DEF RInv
<1>3. SoundOrigin' /\ DurableFacts(durable') /\ (Decided => phase # "planning")'
  BY <1>1 DEF RInv, SoundOrigin, Decided, vars
<1>4. ASSUME request' # None PROVE Planned(request.event, request.snapshot)'
  BY <1>1, <1>4, RequestStaysPlanned DEF RInv, vars
<1>5. O' = O /\ Promised' = Promised
  BY <1>1 DEF O, Promised
<1>6. /\ entries' = entries /\ used' = used /\ time' = time
      /\ Started' = Started /\ Completed' = Completed /\ (Decided' <=> Decided)
  BY <1>1 DEF vars, Started, Completed, Decided
<1>7. PromisesAreKept'
  BY <1>1, <1>5, <1>6 DEF RInv, PromisesAreKept
<1>8. PlansFitTheRun'
  <2> SUFFICES ASSUME Decided', decision'.disposition = "scheduled" PROVE PlansFitTheRun'
    BY DEF PlansFitTheRun
  <2>1. (SInv => SchedulesAreConserved)'
    BY ConservedFromSInv, PTL
  <2>2. phase' # "planning"
    BY <1>3
  <2>3. AccountsHold(G, E, Result)' /\ (PureTasksAreFree(G)' => VerifyConservation(G, E, Result)')
    BY <1>2, <2>1, <2>2 DEF SchedulesAreConserved
  <2> QED
    BY <1>1, <1>5, <1>6, <2>3 DEF RInv, PlansFitTheRun
<1> QED
  BY <1>2, <1>3, <1>4, <1>7, <1>8 DEF RInv

-----------------------------------------------------------------------------
(* The theorems. *)

\* Every step of replan keeps the invariant, and a decision loses no fact.
LEMMA ReplanningKeeps ==
  ASSUME RInv, [RNext]_rvars
  PROVE  RInv' /\ [NoFactIsLost]_durable
<1>1. CASE Schedules
  BY <1>1, ScheduleStepKeepsRun
<1>2. CASE ReplanRefuses
  BY <1>2, ReplanRefusesKeeps
<1>3. CASE ReplanCompletes
  BY <1>3, ReplanCompletesKeeps
<1>4. CASE ReplanSchedules
  BY <1>4, ReplanSchedulesKeeps
<1>5. CASE ReplanReturns
  BY <1>5, FailedReturnKeeps, FinishedReturnKeeps
<1>6. CASE UNCHANGED rvars
  BY <1>6, StandingStillKeeps DEF rvars
<1> QED
  BY <1>1, <1>2, <1>3, <1>4, <1>5, <1>6 DEF RNext

\* The invariant of a run that is replanned, whatever snapshots and events are handed in.
THEOREM ReplanningIsSound == RSpec => []RInv
<1>1. RInit => RInv
  BY ReplanningStarts
<1>2. RInv /\ [RNext]_rvars => RInv'
  BY ReplanningKeeps
<1> QED
  BY <1>1, <1>2, PTL DEF RSpec

\* Whatever happened, a plan EventDrivenReplanner offers finishes the promised work of the
\* original graph, and schedules nothing that is over or may be under way.
THEOREM PromisesStayKept == RSpec => []PromisesAreKept
<1>1. RInv => PromisesAreKept
  BY DEF RInv
<1> QED
  BY <1>1, ReplanningIsSound, PTL

\* A plan it offers fits, with what was settled, the caps, the deadlines and the providers
\* that are left of the run.
THEOREM PlansFit == RSpec => []PlansFitTheRun
<1>1. RInv => PlansFitTheRun
  BY DEF RInv
<1> QED
  BY <1>1, ReplanningIsSound, PTL

\* From revision to revision facts are only added, no event counts twice, and every state
\* validates.
THEOREM HistoryIsKept == RSpec => HistoryOnlyGrows
<1>1. RInv /\ [RNext]_rvars => [NoFactIsLost]_durable
  BY ReplanningKeeps
<1> QED
  BY <1>1, ReplanningIsSound, PTL DEF RSpec, HistoryOnlyGrows
=============================================================================
