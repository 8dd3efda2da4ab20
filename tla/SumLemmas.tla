------------------------------ MODULE SumLemmas ------------------------------
(***************************************************************************)
(* What SumFunctionOnSet(f, S) of the community modules computes for a     *)
(* finite set S.  The ledgers and accounts of the models are such sums:    *)
(* what is held, charged or remaining.                                     *)
(*                                                                         *)
(* The library sums by a recursive function over the subsets of S that     *)
(* removes a chosen element at a time.  An induction theorem takes the     *)
(* claim as an operator, which the provers cannot instantiate, so every    *)
(* induction below is a set of counterexamples with no smallest member;    *)
(* the facts that say there is one are here as well, for sets and numbers. *)
(***************************************************************************)
EXTENDS Integers, FiniteSets, Functions, FiniteSetTheorems, TLAPS

Pick(s) == CHOOSE x \in s : TRUE

\* g is the library's recursive function for the sums of f over subsets of T.
Sums(g, f, T) ==
  g = [s \in SUBSET T |-> IF s = {} THEN 0 ELSE f[Pick(s)] + g[s \ {Pick(s)}]]

TheSums(f, T) == CHOOSE g : Sums(g, f, T)

\* A sum is the value of the library's recursive function.
LEMMA SumUnfolds ==
  ASSUME NEW f, NEW S
  PROVE  SumFunctionOnSet(f, S) = TheSums(f, S)[S]
BY DEF SumFunctionOnSet, FoldFunctionOnSet, MapThenFoldSet, TheSums, Sums, Pick

\* A nonempty set of finite sets has a member with no proper subset in it.
LEMMA SmallestSet ==
  ASSUME NEW S, NEW Bad, Bad \subseteq FiniteSubsetsOf(S), Bad # {}
  PROVE  \E s \in Bad : \A r \in Bad : ~ (r \subseteq s /\ r # s)
<1>1. PICK s \in Bad : \A r \in Bad : <<r, s>> \notin StrictSubsetOrdering(S)
  BY FS_StrictSubsetOrderingWellFounded, WFMin
<1>2. \A r \in Bad : <<r, s>> \in (SUBSET S) \X (SUBSET S)
  BY DEF FiniteSubsetsOf
<1> QED
  BY <1>1, <1>2 DEF StrictSubsetOrdering

\* A nonempty set of numbers has a least one.
LEMMA LeastNumber ==
  ASSUME NEW S \in SUBSET Nat, S # {}
  PROVE  \E n \in S : \A m \in S : n <= m
<1> DEFINE Below == {0..n : n \in S}
<1>1. Below \subseteq FiniteSubsetsOf(Nat) /\ Below # {}
  <2>1. \A n \in S : 0..n \subseteq Nat /\ IsFiniteSet(0..n)
    BY FS_Interval
  <2> QED
    BY <2>1 DEF FiniteSubsetsOf
<1>2. PICK s \in Below : \A r \in Below : ~ (r \subseteq s /\ r # s)
  <2> HIDE DEF Below
  <2> QED
    BY <1>1, SmallestSet
<1>3. PICK n \in S : s = 0..n
  BY <1>2
<1> SUFFICES ASSUME NEW m \in S, m < n PROVE FALSE
  OBVIOUS
<1>4. 0..m \in Below
  OBVIOUS
<1>5. 0..m \subseteq 0..n /\ n \in 0..n /\ n \notin 0..m
  OBVIOUS
<1> QED
  BY <1>2, <1>3, <1>4, <1>5

\* An element that is picked can be removed, and less remains.
LEMMA PickRemoves ==
  ASSUME NEW s, s # {}
  PROVE  /\ Pick(s) \in s
         /\ s \ {Pick(s)} \subseteq s /\ s \ {Pick(s)} # s
BY DEF Pick

\* The recursive functions of two sets agree on the finite sets that both sum.
LEMMA SumsAgree ==
  ASSUME NEW f, NEW T, NEW U, NEW g, NEW h, Sums(g, f, T), Sums(h, f, U),
         NEW s \in SUBSET (T \cap U), IsFiniteSet(s)
  PROVE  g[s] = h[s]
<1> DEFINE Bad == {r \in FiniteSubsetsOf(T \cap U) : g[r] # h[r]}
<1>1. SUFFICES Bad = {}
  BY DEF FiniteSubsetsOf
<1>2. SUFFICES ASSUME Bad # {} PROVE FALSE
  OBVIOUS
<1>3. PICK r \in Bad : \A q \in Bad : ~ (q \subseteq r /\ q # r)
  <2>1. Bad \subseteq FiniteSubsetsOf(T \cap U)
    OBVIOUS
  <2> HIDE DEF Bad
  <2> QED
    BY <1>2, <2>1, SmallestSet
<1>4. /\ r \in SUBSET T /\ r \in SUBSET U /\ IsFiniteSet(r) /\ g[r] # h[r]
  BY <1>3 DEF FiniteSubsetsOf
<1>5. /\ g[r] = IF r = {} THEN 0 ELSE f[Pick(r)] + g[r \ {Pick(r)}]
      /\ h[r] = IF r = {} THEN 0 ELSE f[Pick(r)] + h[r \ {Pick(r)}]
  BY <1>4 DEF Sums
<1>6. r # {}
  BY <1>4, <1>5
<1>7. r \ {Pick(r)} \in FiniteSubsetsOf(T \cap U)
  BY <1>4, FS_Difference DEF FiniteSubsetsOf
<1>8. g[r \ {Pick(r)}] = h[r \ {Pick(r)}]
  BY <1>3, <1>6, <1>7, PickRemoves
<1> QED
  BY <1>4, <1>5, <1>6, <1>8

\* The library's recursive function exists for every finite set.
LEMMA SumsExist ==
  ASSUME NEW f, NEW S, IsFiniteSet(S)
  PROVE  Sums(TheSums(f, S), f, S)
<1> DEFINE Bad == {T \in FiniteSubsetsOf(S) : ~ \E g : Sums(g, f, T)}
<1>1. SUFFICES Bad = {}
  <2>1. S \in FiniteSubsetsOf(S)
    BY DEF FiniteSubsetsOf
  <2>2. \E g : Sums(g, f, S)
    BY <1>1, <2>1
  <2> QED
    BY <2>2 DEF TheSums
<1>2. SUFFICES ASSUME Bad # {} PROVE FALSE
  OBVIOUS
<1>3. PICK T \in Bad : \A U \in Bad : ~ (U \subseteq T /\ U # T)
  <2>1. Bad \subseteq FiniteSubsetsOf(S)
    OBVIOUS
  <2> HIDE DEF Bad
  <2> QED
    BY <1>2, <2>1, SmallestSet
<1>4. /\ T \in SUBSET S /\ IsFiniteSet(T) /\ ~ \E g : Sums(g, f, T)
  BY <1>3 DEF FiniteSubsetsOf
<1>5. \A x \in T : Sums(TheSums(f, T \ {x}), f, T \ {x})
  <2> TAKE x \in T
  <2>1. T \ {x} \in FiniteSubsetsOf(S)
    BY <1>4, FS_Difference DEF FiniteSubsetsOf
  <2>2. \E g : Sums(g, f, T \ {x})
    BY <1>3, <2>1
  <2> QED
    BY <2>2 DEF TheSums
<1> DEFINE part(x) == TheSums(f, T \ {x})
           g == [s \in SUBSET T |->
                   IF s = {} THEN 0 ELSE f[Pick(s)] + part(Pick(s))[s \ {Pick(s)}]]
<1>6. ASSUME NEW s \in SUBSET T, s # {}
      PROVE  g[s \ {Pick(s)}] = part(Pick(s))[s \ {Pick(s)}]
  <2> DEFINE x == Pick(s)
             r == s \ {x}
  <2>1. x \in T /\ x \in s /\ r \in SUBSET T /\ r \in SUBSET (T \ {x})
    BY <1>6, PickRemoves
  <2>2. Sums(part(x), f, T \ {x})
    BY <1>5, <2>1
  <2> HIDE DEF x, r, part
  <2>3. part(x)[r] = IF r = {} THEN 0 ELSE f[Pick(r)] + part(x)[r \ {Pick(r)}]
    BY <2>1, <2>2 DEF Sums
  <2>4. CASE r = {}
    BY <2>1, <2>3, <2>4 DEF x, r
  <2>5. CASE r # {}
    <3>1. Pick(r) \in r /\ Pick(r) \in T
      BY <2>1, <2>5, PickRemoves
    <3>2. Sums(part(Pick(r)), f, T \ {Pick(r)})
      BY <1>5, <3>1 DEF part
    <3>3. /\ r \ {Pick(r)} \in SUBSET ((T \ {x}) \cap (T \ {Pick(r)}))
          /\ IsFiniteSet(r \ {Pick(r)})
      BY <1>4, <2>1, FS_Subset
    <3>4. part(x)[r \ {Pick(r)}] = part(Pick(r))[r \ {Pick(r)}]
      BY <2>2, <3>2, <3>3, SumsAgree
    <3>5. g[r] = f[Pick(r)] + part(Pick(r))[r \ {Pick(r)}]
      BY <2>1, <2>5
    <3> QED
      BY <2>3, <2>5, <3>4, <3>5 DEF x, r
  <2> QED
    BY <2>4, <2>5
<1>7. Sums(g, f, T)
  <2> HIDE DEF part
  <2>1. \A s \in SUBSET T :
          g[s] = IF s = {} THEN 0 ELSE f[Pick(s)] + g[s \ {Pick(s)}]
    BY <1>6
  <2>2. g = [s \in SUBSET T |-> g[s]]
    OBVIOUS
  <2> HIDE DEF g
  <2> QED
    BY <2>1, <2>2 DEF Sums
<1> QED
  BY <1>4, <1>7

\* The sum over the empty set.
LEMMA SumEmpty ==
  ASSUME NEW f
  PROVE  SumFunctionOnSet(f, {}) = 0
<1>1. Sums(TheSums(f, {}), f, {})
  BY FS_EmptySet, SumsExist
<1>2. {} \in SUBSET {}
  OBVIOUS
<1> QED
  BY <1>1, <1>2, SumUnfolds DEF Sums

\* The sum over a nonempty set, an element at a time in the order of Pick.
LEMMA SumPicked ==
  ASSUME NEW f, NEW S, IsFiniteSet(S), S # {}
  PROVE  SumFunctionOnSet(f, S) = f[Pick(S)] + SumFunctionOnSet(f, S \ {Pick(S)})
<1> DEFINE R == S \ {Pick(S)}
<1>1. IsFiniteSet(R) /\ R \in SUBSET (S \cap R) /\ R \in SUBSET R /\ S \in SUBSET S
  BY FS_Difference
<1>2. Sums(TheSums(f, S), f, S) /\ Sums(TheSums(f, R), f, R)
  BY <1>1, SumsExist
<1>3. TheSums(f, S)[S] = f[Pick(S)] + TheSums(f, S)[R]
  BY <1>1, <1>2 DEF Sums
<1>4. TheSums(f, S)[R] = TheSums(f, R)[R]
  BY <1>1, <1>2, SumsAgree
<1> QED
  BY <1>3, <1>4, SumUnfolds

\* A sum of integers is an integer.
LEMMA SumType ==
  ASSUME NEW f, NEW S, IsFiniteSet(S), \A x \in S : f[x] \in Int
  PROVE  SumFunctionOnSet(f, S) \in Int
<1> DEFINE Bad == {T \in FiniteSubsetsOf(S) : SumFunctionOnSet(f, T) \notin Int}
<1>1. SUFFICES Bad = {}
  BY DEF FiniteSubsetsOf
<1>2. SUFFICES ASSUME Bad # {} PROVE FALSE
  OBVIOUS
<1>3. PICK T \in Bad : \A U \in Bad : ~ (U \subseteq T /\ U # T)
  <2>1. Bad \subseteq FiniteSubsetsOf(S)
    OBVIOUS
  <2> HIDE DEF Bad
  <2> QED
    BY <1>2, <2>1, SmallestSet
<1>4. T \in SUBSET S /\ IsFiniteSet(T) /\ SumFunctionOnSet(f, T) \notin Int
  BY <1>3 DEF FiniteSubsetsOf
<1>5. T # {}
  BY <1>4, SumEmpty
<1>6. T \ {Pick(T)} \in FiniteSubsetsOf(S)
  BY <1>4, FS_Difference DEF FiniteSubsetsOf
<1>7. SumFunctionOnSet(f, T \ {Pick(T)}) \in Int /\ f[Pick(T)] \in Int
  BY <1>3, <1>4, <1>5, <1>6, PickRemoves
<1> QED
  BY <1>4, <1>5, <1>7, SumPicked

\* Any element may be taken out of a sum.
LEMMA SumRemove ==
  ASSUME NEW f, NEW S, IsFiniteSet(S), \A x \in S : f[x] \in Int,
         NEW y \in S
  PROVE  SumFunctionOnSet(f, S) = f[y] + SumFunctionOnSet(f, S \ {y})
<1> DEFINE total(T) == SumFunctionOnSet(f, T)
           Bad == {T \in FiniteSubsetsOf(S) :
                     ~ \A x \in T : total(T) = f[x] + total(T \ {x})}
<1>1. SUFFICES Bad = {}
  <2>1. S \in FiniteSubsetsOf(S)
    BY DEF FiniteSubsetsOf
  <2> QED
    BY <1>1, <2>1
<1>2. SUFFICES ASSUME Bad # {} PROVE FALSE
  OBVIOUS
<1>3. PICK T \in Bad : \A U \in Bad : ~ (U \subseteq T /\ U # T)
  <2>1. Bad \subseteq FiniteSubsetsOf(S)
    OBVIOUS
  <2> HIDE DEF Bad
  <2> QED
    BY <1>2, <2>1, SmallestSet
<1>4. PICK x \in T : total(T) # f[x] + total(T \ {x})
  BY <1>3
<1> DEFINE p == Pick(T)
<1>5. /\ T \in SUBSET S /\ IsFiniteSet(T) /\ p \in T
      /\ f[x] \in Int /\ f[p] \in Int
      /\ total(T) = f[p] + total(T \ {p})
  BY <1>3, <1>4, SumPicked, PickRemoves DEF FiniteSubsetsOf
<1> HIDE DEF p
<1>6. p # x
  BY <1>4, <1>5
<1>7. /\ T \ {p} \in FiniteSubsetsOf(S) /\ T \ {p} \subseteq T /\ T \ {p} # T
      /\ T \ {x} \in FiniteSubsetsOf(S) /\ T \ {x} \subseteq T /\ T \ {x} # T
      /\ x \in T \ {p} /\ p \in T \ {x}
  BY <1>4, <1>5, <1>6, FS_Difference DEF FiniteSubsetsOf
<1>8. /\ total(T \ {p}) = f[x] + total((T \ {p}) \ {x})
      /\ total(T \ {x}) = f[p] + total((T \ {x}) \ {p})
  <2>1. T \ {p} \notin Bad /\ T \ {x} \notin Bad
    BY <1>3, <1>7
  <2> QED
    BY <1>7, <2>1
<1>9. PICK rest \in Int : rest = total((T \ {x}) \ {p}) /\ rest = total((T \ {p}) \ {x})
  <2>1. (T \ {p}) \ {x} = (T \ {x}) \ {p} /\ IsFiniteSet((T \ {x}) \ {p})
    BY <1>5, FS_Difference
  <2>2. total((T \ {x}) \ {p}) \in Int
    BY <1>5, <2>1, SumType
  <2> QED
    BY <2>1, <2>2
<1>10. total(T) = f[p] + (f[x] + rest) /\ total(T \ {x}) = f[p] + rest
  BY <1>5, <1>8, <1>9
<1>11. f[p] + (f[x] + rest) = f[x] + (f[p] + rest)
  BY <1>5
<1> QED
  BY <1>4, <1>10, <1>11, Zenon

\* An element that is added to a set adds its value to the sum.
LEMMA SumAdd ==
  ASSUME NEW f, NEW S, IsFiniteSet(S), NEW y, y \notin S,
         \A x \in S \cup {y} : f[x] \in Int
  PROVE  SumFunctionOnSet(f, S \cup {y}) = f[y] + SumFunctionOnSet(f, S)
<1>1. IsFiniteSet(S \cup {y}) /\ (S \cup {y}) \ {y} = S
  BY FS_AddElement
<1> QED
  BY <1>1, SumRemove

\* The sums of functions that are equal on the set are equal.
LEMMA SumSame ==
  ASSUME NEW f, NEW g, NEW S, IsFiniteSet(S), \A x \in S : f[x] = g[x]
  PROVE  SumFunctionOnSet(f, S) = SumFunctionOnSet(g, S)
<1> DEFINE Bad == {T \in FiniteSubsetsOf(S) : SumFunctionOnSet(f, T) # SumFunctionOnSet(g, T)}
<1>1. SUFFICES Bad = {}
  BY DEF FiniteSubsetsOf
<1>2. SUFFICES ASSUME Bad # {} PROVE FALSE
  OBVIOUS
<1>3. PICK T \in Bad : \A U \in Bad : ~ (U \subseteq T /\ U # T)
  <2>1. Bad \subseteq FiniteSubsetsOf(S)
    OBVIOUS
  <2> HIDE DEF Bad
  <2> QED
    BY <1>2, <2>1, SmallestSet
<1>4. /\ T \in SUBSET S /\ IsFiniteSet(T)
      /\ SumFunctionOnSet(f, T) # SumFunctionOnSet(g, T)
  BY <1>3 DEF FiniteSubsetsOf
<1>5. T # {}
  BY <1>4, SumEmpty
<1>6. T \ {Pick(T)} \in FiniteSubsetsOf(S)
  BY <1>4, FS_Difference DEF FiniteSubsetsOf
<1>7. SumFunctionOnSet(f, T \ {Pick(T)}) = SumFunctionOnSet(g, T \ {Pick(T)})
  BY <1>3, <1>5, <1>6, PickRemoves
<1> QED
  BY <1>4, <1>5, <1>7, SumPicked, PickRemoves

\* A sum is at most the sum of values that are as large.
LEMMA SumMonotone ==
  ASSUME NEW f, NEW g, NEW S, IsFiniteSet(S),
         \A x \in S : f[x] \in Int /\ g[x] \in Int /\ f[x] <= g[x]
  PROVE  SumFunctionOnSet(f, S) <= SumFunctionOnSet(g, S)
<1> DEFINE Bad == {T \in FiniteSubsetsOf(S) :
                     ~ (SumFunctionOnSet(f, T) <= SumFunctionOnSet(g, T))}
<1>1. SUFFICES Bad = {}
  BY DEF FiniteSubsetsOf
<1>2. SUFFICES ASSUME Bad # {} PROVE FALSE
  OBVIOUS
<1>3. PICK T \in Bad : \A U \in Bad : ~ (U \subseteq T /\ U # T)
  <2>1. Bad \subseteq FiniteSubsetsOf(S)
    OBVIOUS
  <2> HIDE DEF Bad
  <2> QED
    BY <1>2, <2>1, SmallestSet
<1>4. /\ T \in SUBSET S /\ IsFiniteSet(T)
      /\ ~ (SumFunctionOnSet(f, T) <= SumFunctionOnSet(g, T))
  BY <1>3 DEF FiniteSubsetsOf
<1>5. T # {}
  BY <1>4, SumEmpty
<1> DEFINE p == Pick(T)
           R == T \ {p}
<1>6. R \in FiniteSubsetsOf(S) /\ R \subseteq T /\ R # T /\ p \in S
  BY <1>4, <1>5, PickRemoves, FS_Difference DEF FiniteSubsetsOf
<1>7. /\ SumFunctionOnSet(f, T) = f[p] + SumFunctionOnSet(f, R)
      /\ SumFunctionOnSet(g, T) = g[p] + SumFunctionOnSet(g, R)
  BY <1>4, <1>5, SumPicked
<1>8. SumFunctionOnSet(f, R) <= SumFunctionOnSet(g, R)
  BY <1>3, <1>6
<1>9. /\ SumFunctionOnSet(f, R) \in Int /\ SumFunctionOnSet(g, R) \in Int
      /\ f[p] \in Int /\ g[p] \in Int /\ f[p] <= g[p]
  BY <1>4, <1>6, SumType DEF FiniteSubsetsOf
<1> QED
  BY <1>4, <1>7, <1>8, <1>9

\* A sum of zeros is zero.
LEMMA SumOfZero ==
  ASSUME NEW f, NEW S, IsFiniteSet(S), \A x \in S : f[x] = 0
  PROVE  SumFunctionOnSet(f, S) = 0
<1> DEFINE Bad == {T \in FiniteSubsetsOf(S) : SumFunctionOnSet(f, T) # 0}
<1>1. SUFFICES Bad = {}
  BY DEF FiniteSubsetsOf
<1>2. SUFFICES ASSUME Bad # {} PROVE FALSE
  OBVIOUS
<1>3. PICK T \in Bad : \A U \in Bad : ~ (U \subseteq T /\ U # T)
  <2>1. Bad \subseteq FiniteSubsetsOf(S)
    OBVIOUS
  <2> HIDE DEF Bad
  <2> QED
    BY <1>2, <2>1, SmallestSet
<1>4. T \in SUBSET S /\ IsFiniteSet(T) /\ SumFunctionOnSet(f, T) # 0
  BY <1>3 DEF FiniteSubsetsOf
<1>5. T # {}
  BY <1>4, SumEmpty
<1>6. T \ {Pick(T)} \in FiniteSubsetsOf(S)
  BY <1>4, FS_Difference DEF FiniteSubsetsOf
<1>7. SumFunctionOnSet(f, T \ {Pick(T)}) = 0 /\ f[Pick(T)] = 0
  BY <1>3, <1>4, <1>5, <1>6, PickRemoves
<1> QED
  BY <1>4, <1>5, <1>7, SumPicked

\* A sum of natural numbers is one, and no less than any of its terms.
LEMMA SumNatural ==
  ASSUME NEW f, NEW S, IsFiniteSet(S), \A x \in S : f[x] \in Nat
  PROVE  /\ SumFunctionOnSet(f, S) \in Nat
         /\ \A x \in S : f[x] <= SumFunctionOnSet(f, S)
<1> DEFINE zero == [x \in S |-> 0]
<1>1. ASSUME NEW T \in SUBSET S PROVE SumFunctionOnSet(f, T) \in Nat
  <2>1. IsFiniteSet(T)
    BY FS_Subset
  <2>2. SumFunctionOnSet(zero, T) <= SumFunctionOnSet(f, T)
    BY <2>1, SumMonotone
  <2>3. SumFunctionOnSet(zero, T) = 0
    BY <2>1, SumOfZero
  <2>4. SumFunctionOnSet(f, T) \in Int
    BY <2>1, SumType
  <2> QED
    BY <2>2, <2>3, <2>4
<1>2. ASSUME NEW x \in S PROVE f[x] <= SumFunctionOnSet(f, S)
  <2>1. SumFunctionOnSet(f, S) = f[x] + SumFunctionOnSet(f, S \ {x})
    BY SumRemove
  <2>2. SumFunctionOnSet(f, S \ {x}) \in Nat
    BY <1>1
  <2> QED
    BY <2>1, <2>2
<1> QED
  BY <1>1, <1>2

\* A sum over a set is the sum over a part of it and the sum over the rest.
LEMMA SumSplit ==
  ASSUME NEW f, NEW S, IsFiniteSet(S), \A x \in S : f[x] \in Int, NEW R \in SUBSET S
  PROVE  SumFunctionOnSet(f, S) = SumFunctionOnSet(f, R) + SumFunctionOnSet(f, S \ R)
<1> DEFINE total(T) == SumFunctionOnSet(f, T)
           Bad == {T \in FiniteSubsetsOf(S) : total(T) # total(T \cap R) + total(T \ R)}
<1>1. SUFFICES Bad = {}
  <2>1. S \in FiniteSubsetsOf(S) /\ S \cap R = R
    BY DEF FiniteSubsetsOf
  <2>2. S \notin Bad
    BY <1>1
  <2>3. total(S) = total(S \cap R) + total(S \ R)
    BY <2>1, <2>2
  <2> QED
    BY <2>1, <2>3
<1>2. SUFFICES ASSUME Bad # {} PROVE FALSE
  OBVIOUS
<1>3. PICK T \in Bad : \A U \in Bad : ~ (U \subseteq T /\ U # T)
  <2>1. Bad \subseteq FiniteSubsetsOf(S)
    OBVIOUS
  <2> HIDE DEF Bad
  <2> QED
    BY <1>2, <2>1, SmallestSet
<1>4. T \in SUBSET S /\ IsFiniteSet(T) /\ total(T) # total(T \cap R) + total(T \ R)
  BY <1>3 DEF FiniteSubsetsOf
<1>5. T # {}
  <2> SUFFICES ASSUME T = {} PROVE FALSE
    OBVIOUS
  <2>1. T \cap R = {} /\ T \ R = {} /\ total({}) = 0
    BY SumEmpty
  <2>2. total(T) = 0 /\ total(T \cap R) = 0 /\ total(T \ R) = 0
    BY <2>1
  <2> HIDE DEF Bad, total
  <2> QED
    BY <1>4, <2>2
<1>6. PICK y \in T : TRUE
  BY <1>5
<1> DEFINE U == T \ {y}
<1>7. U \in FiniteSubsetsOf(S) /\ U \subseteq T /\ U # T
  BY <1>4, <1>6, FS_Difference DEF FiniteSubsetsOf
<1>8. total(U) = total(U \cap R) + total(U \ R)
  <2>1. U \notin Bad
    BY <1>3, <1>7
  <2> QED
    BY <1>7, <2>1
<1>9. total(T) = f[y] + total(U)
  BY <1>4, <1>6, SumRemove
<1>10. /\ IsFiniteSet(T \cap R) /\ IsFiniteSet(T \ R) /\ IsFiniteSet(U \cap R) /\ IsFiniteSet(U \ R)
  BY <1>4, <1>6, FS_Subset
<1>11. /\ f[y] \in Int /\ total(U \cap R) \in Int /\ total(U \ R) \in Int
  BY <1>4, <1>6, <1>10, SumType
<1>12. CASE y \in R
  <2>1. /\ y \in T \cap R /\ (T \cap R) \ {y} = U \cap R /\ T \ R = U \ R
    BY <1>6, <1>12
  <2>2. total(T \cap R) = f[y] + total((T \cap R) \ {y})
    BY <1>4, <1>10, <2>1, SumRemove
  <2>3. total(T \cap R) = f[y] + total(U \cap R) /\ total(T \ R) = total(U \ R)
    BY <2>1, <2>2
  <2> HIDE DEF total, Bad
  <2> QED
    BY <1>4, <1>8, <1>9, <1>11, <2>3
<1>13. CASE y \notin R
  <2>1. /\ y \in T \ R /\ (T \ R) \ {y} = U \ R /\ T \cap R = U \cap R
    BY <1>6, <1>13
  <2>2. total(T \ R) = f[y] + total((T \ R) \ {y})
    BY <1>4, <1>10, <2>1, SumRemove
  <2>3. total(T \ R) = f[y] + total(U \ R) /\ total(T \cap R) = total(U \cap R)
    BY <2>1, <2>2
  <2> HIDE DEF total, Bad
  <2> QED
    BY <1>4, <1>8, <1>9, <1>11, <2>3
<1> QED
  BY <1>12, <1>13

\* A part of a set of natural numbers sums up to no more than all of it.
LEMMA SumPart ==
  ASSUME NEW f, NEW S, IsFiniteSet(S), \A x \in S : f[x] \in Nat, NEW R \in SUBSET S
  PROVE  SumFunctionOnSet(f, R) <= SumFunctionOnSet(f, S)
<1>1. IsFiniteSet(R) /\ IsFiniteSet(S \ R)
  BY FS_Subset
<1>2. SumFunctionOnSet(f, R) \in Nat /\ SumFunctionOnSet(f, S \ R) \in Nat
  BY <1>1, SumNatural
<1>3. SumFunctionOnSet(f, S) = SumFunctionOnSet(f, R) + SumFunctionOnSet(f, S \ R)
  BY SumSplit
<1> QED
  BY <1>2, <1>3
=============================================================================
