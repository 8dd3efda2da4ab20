--------------------------- MODULE AdaptiveProofs ---------------------------
(***************************************************************************)
(* Proofs about AdaptiveService and AdaptiveReplay, for every set of       *)
(* admitted workflows and every bound, in two layers of invariants.        *)
(*                                                                         *)
(* IInv: the service calls each worker once and pays for each call.  All   *)
(* that this needs of _reconcile, whatever it decides, is that it sheds    *)
(* tasks of the workflow and never makes a run that stopped run again.     *)
(*                                                                         *)
(* OnPlan: what _reconcile keeps, and _dispatch_choices respects, is a     *)
(* serial schedule of all that is left, within deadlines and budget.  So   *)
(* the run never sheds or refuses work on its own account, stops only for  *)
(* a cause, and records nothing that its own replay would refuse.          *)
(***************************************************************************)
EXTENDS AdaptiveReplay, SumLemmas

-----------------------------------------------------------------------------
(* Types *)

Statuses == {"running", "refused", "completed", "cancelled"}

States ==
  [caps : Usages, settled : Usages, unknownUsage : Usages, completed : SUBSET Task,
   shed : SUBSET Task, unknown : SUBSET Task, inflight : Task \cup {None},
   resets : [Providers -> Nat \cup {None}], closed : SUBSET Providers, now : Nat,
   status : Statuses]

-----------------------------------------------------------------------------
(* Usages *)

\* The tasks are finitely many.
LEMMA TasksFinite == IsFiniteSet(Task) /\ \A S \in SUBSET Task : IsFiniteSet(S)
<1>1. IsFiniteSet(Task)
  BY ControllerAssumption, FS_Interval DEF Task
<1> QED
  BY <1>1, FS_Subset

\* None is not the number of a task.
LEMMA NoneIsNoTask == None \notin Task
BY ControllerAssumption DEF Task

\* A plan's figures are of the types they have.
LEMMA PlanShape ==
  ASSUME plan \in Plans
  PROVE  /\ plan.deps \in [Task -> SUBSET Task] /\ plan.cost \in [Task -> Usages]
         /\ plan.p50 \in [Task -> Nat] /\ plan.p95 \in [Task -> Nat]
         /\ plan.due \in [Task -> Time] /\ plan.provider \in [Task -> Providers]
         /\ plan.skipped \subseteq Task /\ plan.optional \subseteq Task
         /\ plan.skipped \subseteq plan.optional
         /\ \A t \in Task : plan.p50[t] <= plan.p95[t]
BY ControllerAssumption DEF IsPlan

\* The reservation of a set, unit by unit.
LEMMA CostUnfolds ==
  ASSUME plan \in Plans, NEW S \in SUBSET Task, NEW u \in Units
  PROVE  /\ CostOf(S)[u] = SumFunctionOnSet([t \in Task |-> plan.cost[t][u]], S)
         /\ CostOf(S) = [w \in Units |-> CostOf(S)[w]]
BY DEF CostOf, Reservation

\* A reservation is a usage, of which each task's own is a part.
LEMMA CostType ==
  ASSUME plan \in Plans, NEW S \in SUBSET Task
  PROVE  CostOf(S) \in Usages /\ \A t \in S : Fits(plan.cost[t], CostOf(S))
<1>1. ASSUME NEW u \in Units
      PROVE  CostOf(S)[u] \in Nat /\ \A t \in S : plan.cost[t][u] <= CostOf(S)[u]
  <2> DEFINE f == [t \in Task |-> plan.cost[t][u]]
  <2>1. \A t \in S : f[t] \in Nat /\ f[t] = plan.cost[t][u]
    BY PlanShape DEF Usages
  <2> HIDE DEF f
  <2>2. SumFunctionOnSet(f, S) \in Nat /\ \A t \in S : f[t] <= SumFunctionOnSet(f, S)
    BY <2>1, TasksFinite, SumNatural
  <2>3. CostOf(S)[u] = SumFunctionOnSet(f, S)
    BY CostUnfolds DEF f
  <2> QED
    BY <2>1, <2>2, <2>3
<1>2. CostOf(S) = [u \in Units |-> CostOf(S)[u]]
  BY DEF CostOf, Reservation
<1> QED
  BY <1>1, <1>2 DEF Usages, Fits

\* Nothing costs nothing.
LEMMA CostEmpty ==
  ASSUME plan \in Plans
  PROVE  CostOf({}) = Zero
BY SumEmpty DEF CostOf, Reservation, Zero

\* One task more adds its reservation.
LEMMA CostAdd ==
  ASSUME plan \in Plans, NEW S \in SUBSET Task, NEW t \in Task \ S
  PROVE  CostOf(S \cup {t}) = Plus(CostOf(S), plan.cost[t])
<1>1. ASSUME NEW u \in Units
      PROVE  CostOf(S \cup {t})[u] = CostOf(S)[u] + plan.cost[t][u]
  <2> DEFINE f == [x \in Task |-> plan.cost[x][u]]
  <2>1. \A x \in S \cup {t} : f[x] \in Int
    BY PlanShape DEF Usages
  <2>2. f[t] = plan.cost[t][u] /\ f[t] \in Int
    BY <2>1
  <2> HIDE DEF f
  <2>3. SumFunctionOnSet(f, S \cup {t}) = f[t] + SumFunctionOnSet(f, S)
    BY <2>1, TasksFinite, SumAdd
  <2>4. CostOf(S \cup {t})[u] = SumFunctionOnSet(f, S \cup {t}) /\ CostOf(S)[u] = SumFunctionOnSet(f, S)
    BY CostUnfolds DEF f
  <2>5. CostOf(S)[u] \in Int
    BY CostType DEF Usages
  <2> QED
    BY <2>2, <2>3, <2>4, <2>5
<1>2. CostOf(S \cup {t}) = [u \in Units |-> CostOf(S \cup {t})[u]]
  BY DEF CostOf, Reservation
<1> QED
  BY <1>1, <1>2 DEF Plus

\* A task by itself costs what it reserves.
LEMMA CostOne ==
  ASSUME plan \in Plans, NEW t \in Task
  PROVE  CostOf({t}) = plan.cost[t]
<1>1. CostOf({} \cup {t}) = Plus(CostOf({}), plan.cost[t])
  BY CostAdd
<1>2. plan.cost[t] \in Usages
  BY PlanShape
<1>3. Plus(Zero, plan.cost[t]) = plan.cost[t]
  BY <1>2 DEF Plus, Zero, Usages
<1> QED
  BY <1>1, <1>3, CostEmpty

\* A set costs what a part of it and the rest cost; a part costs no more.
LEMMA CostSplit ==
  ASSUME plan \in Plans, NEW S \in SUBSET Task, NEW R \in SUBSET S
  PROVE  CostOf(S) = Plus(CostOf(R), CostOf(S \ R))
<1>1. ASSUME NEW u \in Units PROVE CostOf(S)[u] = CostOf(R)[u] + CostOf(S \ R)[u]
  <2> DEFINE f == [t \in Task |-> plan.cost[t][u]]
  <2>1. \A t \in S : f[t] \in Int
    BY PlanShape DEF Usages
  <2>2. /\ CostOf(S)[u] = SumFunctionOnSet(f, S) /\ CostOf(R)[u] = SumFunctionOnSet(f, R)
        /\ CostOf(S \ R)[u] = SumFunctionOnSet(f, S \ R)
    BY CostUnfolds
  <2> HIDE DEF f
  <2>3. SumFunctionOnSet(f, S) = SumFunctionOnSet(f, R) + SumFunctionOnSet(f, S \ R)
    BY <2>1, TasksFinite, SumSplit
  <2> QED
    BY <2>2, <2>3
<1>2. CostOf(S) = [u \in Units |-> CostOf(S)[u]]
  BY DEF CostOf, Reservation
<1> QED
  BY <1>1, <1>2 DEF Plus

\* More tasks reserve no less.
LEMMA CostMonotone ==
  ASSUME plan \in Plans, NEW S \in SUBSET Task, NEW R \in SUBSET S
  PROVE  Fits(CostOf(R), CostOf(S))
<1>1. CostOf(S) = Plus(CostOf(R), CostOf(S \ R))
  BY CostSplit
<1>2. CostOf(R) \in Usages /\ CostOf(S \ R) \in Usages
  BY CostType
<1>3. \A u \in Units : CostOf(R)[u] <= CostOf(R)[u] + CostOf(S \ R)[u]
  BY <1>2 DEF Usages
<1> QED
  BY <1>1, <1>3 DEF Fits, Plus

-----------------------------------------------------------------------------
(* The serial schedule of _serial_deadlines_fit *)

\* The tasks of rest that are ready when the others of todo are done, the one
\* that is run next, and whether it is ready in time.
Ready(done, todo, rest) == {t \in rest : plan.deps[t] \subseteq done \cup (todo \ rest)}

First(done, todo, rest) == Min(Ready(done, todo, rest))

InTime(done, todo, now, rest) ==
  /\ Ready(done, todo, rest) # {}
  /\ now + P95Of(todo \ rest) + plan.p95[First(done, todo, rest)]
       <= plan.due[First(done, todo, rest)]

\* g is the recursive function of SerialFits on the subsets of T.
Serves(g, done, todo, now, T) ==
  g = [rest \in SUBSET T |->
        LET ready == {t \in rest : plan.deps[t] \subseteq done \cup (todo \ rest)}
            t == Min(ready)
        IN \/ rest = {}
           \/ /\ ready # {}
              /\ now + P95Of(todo \ rest) + plan.p95[t] <= plan.due[t]
              /\ g[rest \ {t}]]

Service(done, todo, now, T) == CHOOSE g : Serves(g, done, todo, now, T)

\* What is left of todo can be served.
Serviceable(done, todo, now, rest) == Service(done, todo, now, todo)[rest]

\* SerialFits says that all that is left can be served.
LEMMA SerialUnfolds ==
  ASSUME NEW done, NEW S, NEW now
  PROVE  SerialFits(done, S, now) = Serviceable(done, S \ done, now, S \ done)
BY DEF SerialFits, InSeries, Serviceable, Service, Serves, P95Of

\* One step of the recursion.
LEMMA ServesStep ==
  ASSUME NEW g, NEW done, NEW todo, NEW now, NEW T, Serves(g, done, todo, now, T),
         NEW rest \in SUBSET T
  PROVE  g[rest] = \/ rest = {}
                   \/ /\ InTime(done, todo, now, rest)
                      /\ g[rest \ {First(done, todo, rest)}]
BY DEF Serves, InTime, First, Ready

\* The first of a nonempty set of tasks is one of them, before all others.
LEMMA FirstOfTasks ==
  ASSUME NEW S \in SUBSET Task, S # {}
  PROVE  Min(S) \in S /\ \A t \in S : Min(S) <= t
<1>1. S \in SUBSET Nat
  BY ControllerAssumption DEF Task
<1>2. \E m \in S : \A n \in S : m <= n
  BY <1>1, LeastNumber
<1> QED
  BY <1>2 DEF Min

\* The task that is run next is ready.
LEMMA FirstIsReady ==
  ASSUME NEW done, NEW todo, NEW rest \in SUBSET Task, Ready(done, todo, rest) # {}
  PROVE  /\ First(done, todo, rest) \in Ready(done, todo, rest)
         /\ First(done, todo, rest) \in rest
         /\ \A t \in Ready(done, todo, rest) : First(done, todo, rest) <= t
<1>1. Ready(done, todo, rest) \in SUBSET Task /\ Ready(done, todo, rest) \subseteq rest
  BY DEF Ready
<1> QED
  BY <1>1, FirstOfTasks DEF First

\* The functions of two sets agree on what both serve.
LEMMA ServicesAgree ==
  ASSUME NEW done, NEW todo, NEW now, NEW T, NEW U, NEW g, NEW h,
         Serves(g, done, todo, now, T), Serves(h, done, todo, now, U),
         NEW s \in SUBSET (T \cap U), s \in SUBSET Task
  PROVE  g[s] = h[s]
<1> DEFINE V == (T \cap U) \cap Task
           Bad == {r \in FiniteSubsetsOf(V) : g[r] # h[r]}
<1>1. SUFFICES Bad = {}
  <2>1. s \in FiniteSubsetsOf(V)
    BY TasksFinite DEF FiniteSubsetsOf
  <2> QED
    BY <1>1, <2>1
<1>2. SUFFICES ASSUME Bad # {} PROVE FALSE
  OBVIOUS
<1>3. PICK r \in Bad : \A q \in Bad : ~ (q \subseteq r /\ q # r)
  <2>1. Bad \subseteq FiniteSubsetsOf(V)
    OBVIOUS
  <2> HIDE DEF Bad
  <2> QED
    BY <1>2, <2>1, SmallestSet
<1>4. r \in SUBSET T /\ r \in SUBSET U /\ r \in SUBSET Task /\ IsFiniteSet(r) /\ g[r] # h[r]
  BY <1>3 DEF FiniteSubsetsOf
<1> DEFINE f == First(done, todo, r)
           on == InTime(done, todo, now, r)
<1>5. /\ g[r] = (r = {} \/ (on /\ g[r \ {f}]))
      /\ h[r] = (r = {} \/ (on /\ h[r \ {f}]))
  <2>1. r \in SUBSET T /\ r \in SUBSET U
    BY <1>4
  <2> HIDE DEF Bad, V
  <2> QED
    BY <2>1, ServesStep, Zenon
<1>6. on => f \in r
  BY <1>4, FirstIsReady DEF InTime
<1> HIDE DEF f, on
<1>7. CASE on
  <2>1. r \ {f} \in FiniteSubsetsOf(V) /\ r \ {f} \subseteq r /\ r \ {f} # r
    BY <1>4, <1>6, <1>7, FS_Difference DEF FiniteSubsetsOf
  <2>2. g[r \ {f}] = h[r \ {f}]
    BY <1>3, <2>1
  <2> QED
    BY <1>4, <1>5, <2>2
<1>8. CASE ~on
  BY <1>4, <1>5, <1>8
<1> QED
  BY <1>7, <1>8

\* The function exists.
LEMMA ServiceExists ==
  ASSUME NEW done, NEW todo, NEW now, NEW S \in SUBSET Task
  PROVE  Serves(Service(done, todo, now, S), done, todo, now, S)
<1> DEFINE Bad == {T \in FiniteSubsetsOf(S) : ~ \E g : Serves(g, done, todo, now, T)}
<1>1. SUFFICES Bad = {}
  <2>1. S \in FiniteSubsetsOf(S)
    BY TasksFinite DEF FiniteSubsetsOf
  <2>2. \E g : Serves(g, done, todo, now, S)
    BY <1>1, <2>1
  <2> QED
    BY <2>2 DEF Service
<1>2. SUFFICES ASSUME Bad # {} PROVE FALSE
  OBVIOUS
<1>3. PICK T \in Bad : \A U \in Bad : ~ (U \subseteq T /\ U # T)
  <2>1. Bad \subseteq FiniteSubsetsOf(S)
    OBVIOUS
  <2> HIDE DEF Bad
  <2> QED
    BY <1>2, <2>1, SmallestSet
<1>4. /\ T \in SUBSET S /\ T \in SUBSET Task /\ IsFiniteSet(T)
      /\ ~ \E g : Serves(g, done, todo, now, T)
  BY <1>3 DEF FiniteSubsetsOf
<1>5. \A x \in T : Serves(Service(done, todo, now, T \ {x}), done, todo, now, T \ {x})
  <2> TAKE x \in T
  <2>1. T \ {x} \in FiniteSubsetsOf(S)
    BY <1>4, FS_Difference DEF FiniteSubsetsOf
  <2>2. \E g : Serves(g, done, todo, now, T \ {x})
    BY <1>3, <2>1
  <2> QED
    BY <2>2 DEF Service
<1> DEFINE part(x) == Service(done, todo, now, T \ {x})
           next(s) == First(done, todo, s)
           on(s) == InTime(done, todo, now, s)
           g == [s \in SUBSET T |-> s = {} \/ (on(s) /\ part(next(s))[s \ {next(s)}])]
<1>6. ASSUME NEW s \in SUBSET T, s # {}, on(s)
      PROVE  g[s \ {next(s)}] = part(next(s))[s \ {next(s)}]
  <2> DEFINE x == next(s)
             r == s \ {x}
  <2>1. s \in SUBSET Task /\ x \in s
    BY <1>4, <1>6, FirstIsReady DEF InTime
  <2>2. x \in T /\ r \in SUBSET T /\ r \in SUBSET (T \ {x}) /\ r \in SUBSET Task
    BY <2>1
  <2>3. Serves(part(x), done, todo, now, T \ {x})
    BY <1>5, <2>2
  <2> HIDE DEF x, r, part, on, next
  <2>4. part(x)[r] = (r = {} \/ (on(r) /\ part(x)[r \ {next(r)}]))
    BY <2>2, <2>3, ServesStep DEF on, next
  <2>5. g[r] = (r = {} \/ (on(r) /\ part(next(r))[r \ {next(r)}]))
    BY <2>2
  <2>6. CASE r # {} /\ on(r)
    <3>1. next(r) \in r /\ next(r) \in T
      BY <2>2, <2>6, FirstIsReady DEF on, next, InTime
    <3>2. Serves(part(next(r)), done, todo, now, T \ {next(r)})
      BY <1>5, <3>1 DEF part
    <3>3. /\ r \ {next(r)} \in SUBSET ((T \ {x}) \cap (T \ {next(r)}))
          /\ r \ {next(r)} \in SUBSET Task
      BY <2>2
    <3>4. part(x)[r \ {next(r)}] = part(next(r))[r \ {next(r)}]
      BY <2>3, <3>2, <3>3, ServicesAgree
    <3> HIDE DEF g
    <3>5. g[r] = part(x)[r]
      BY <2>4, <2>5, <3>4
    <3> QED
      BY <3>5 DEF x, r
  <2>7. CASE ~ (r # {} /\ on(r))
    <3> HIDE DEF g
    <3>1. g[r] = part(x)[r]
      BY <2>4, <2>5, <2>7
    <3> QED
      BY <3>1 DEF x, r
  <2> QED
    BY <2>6, <2>7
<1>7. Serves(g, done, todo, now, T)
  <2> HIDE DEF part
  <2>1. \A s \in SUBSET T : g[s] = (s = {} \/ (on(s) /\ g[s \ {next(s)}]))
    <3> TAKE s \in SUBSET T
    <3>1. g[s] = (s = {} \/ (on(s) /\ part(next(s))[s \ {next(s)}]))
      OBVIOUS
    <3> HIDE DEF g, on, next
    <3>2. CASE s # {} /\ on(s)
      BY <1>6, <3>1, <3>2
    <3>3. CASE ~ (s # {} /\ on(s))
      BY <3>1, <3>3
    <3> QED
      BY <3>2, <3>3
  <2>2. g = [s \in SUBSET T |-> g[s]]
    OBVIOUS
  <2> HIDE DEF g
  <2>3. g = [s \in SUBSET T |-> s = {} \/ (on(s) /\ g[s \ {next(s)}])]
    BY <2>1, <2>2
  <2> QED
    BY <2>3 DEF Serves, InTime, First, Ready
<1> QED
  BY <1>4, <1>7

\* What is left can be served if its first task can and the rest can.
LEMMA ServiceStep ==
  ASSUME NEW done, NEW todo \in SUBSET Task, NEW now, NEW rest \in SUBSET todo
  PROVE  Serviceable(done, todo, now, rest) <=>
           \/ rest = {}
           \/ /\ InTime(done, todo, now, rest)
              /\ First(done, todo, rest) \in rest
              /\ Serviceable(done, todo, now, rest \ {First(done, todo, rest)})
<1>1. Serves(Service(done, todo, now, todo), done, todo, now, todo)
  BY ServiceExists
<1>2. InTime(done, todo, now, rest) => First(done, todo, rest) \in rest
  BY FirstIsReady DEF InTime
<1> QED
  BY <1>1, <1>2, ServesStep DEF Serviceable

\* How long a set of tasks takes: a part of it and the rest, one after the other.
LEMMA P95Split ==
  ASSUME plan \in Plans, NEW S \in SUBSET Task, NEW R \in SUBSET S
  PROVE  /\ P95Of(S) \in Nat /\ P95Of(R) \in Nat /\ P95Of(S \ R) \in Nat
         /\ P95Of(S) = P95Of(R) + P95Of(S \ R)
<1> DEFINE f == plan.p95
<1>1. \A t \in S : f[t] \in Nat
  BY PlanShape
<1>2. IsFiniteSet(S) /\ IsFiniteSet(R) /\ IsFiniteSet(S \ R)
  BY TasksFinite
<1>3. \A T \in SUBSET Task : P95Of(T) = SumFunctionOnSet(f, T)
  BY DEF P95Of, Duration
<1> HIDE DEF f
<1>4. /\ SumFunctionOnSet(f, S) \in Nat /\ SumFunctionOnSet(f, R) \in Nat
      /\ SumFunctionOnSet(f, S \ R) \in Nat
  BY <1>1, <1>2, SumNatural
<1>5. SumFunctionOnSet(f, S) = SumFunctionOnSet(f, R) + SumFunctionOnSet(f, S \ R)
  BY <1>1, <1>2, SumSplit
<1>6. R \in SUBSET Task /\ S \ R \in SUBSET Task
  OBVIOUS
<1> QED
  BY <1>3, <1>4, <1>5, <1>6

\* No tasks take no time, one takes its own.
LEMMA P95One ==
  ASSUME plan \in Plans
  PROVE  P95Of({}) = 0 /\ \A t \in Task : P95Of({t}) = plan.p95[t] /\ plan.p95[t] \in Nat
<1>1. P95Of({}) = SumFunctionOnSet(plan.p95, {})
  BY DEF P95Of, Duration
<1>2. P95Of({}) = 0
  BY <1>1, SumEmpty
<1>3. ASSUME NEW t \in Task PROVE P95Of({t}) = plan.p95[t] /\ plan.p95[t] \in Nat
  <2>1. plan.p95[t] \in Nat
    BY PlanShape
  <2>2. SumFunctionOnSet(plan.p95, {} \cup {t}) = plan.p95[t] + SumFunctionOnSet(plan.p95, {})
    <3>1. IsFiniteSet({}) /\ t \notin {} /\ \A x \in {} \cup {t} : plan.p95[x] \in Int
      BY <2>1, FS_EmptySet
    <3> QED
      BY <3>1, SumAdd
  <2>3. {} \cup {t} = {t} /\ P95Of({t}) = SumFunctionOnSet(plan.p95, {t})
    BY DEF P95Of, Duration
  <2> QED
    BY <2>1, <2>2, <2>3, SumEmpty
<1> QED
  BY <1>2, <1>3

\* What can be served can be served from an earlier time.
LEMMA ServiceEarlier ==
  ASSUME plan \in Plans, NEW done, NEW todo \in SUBSET Task, NEW now \in Nat, NEW then \in Nat,
         now <= then, NEW S \in SUBSET todo, Serviceable(done, todo, then, S)
  PROVE  Serviceable(done, todo, now, S)
<1> DEFINE early(r) == Serviceable(done, todo, now, r)
           late(r)  == Serviceable(done, todo, then, r)
           f(r)     == First(done, todo, r)
           Bad == {r \in FiniteSubsetsOf(todo) : late(r) /\ ~early(r)}
<1>1. SUFFICES Bad = {}
  <2>1. S \in FiniteSubsetsOf(todo)
    BY TasksFinite DEF FiniteSubsetsOf
  <2> QED
    BY <1>1, <2>1
<1>2. SUFFICES ASSUME Bad # {} PROVE FALSE
  OBVIOUS
<1>3. PICK r \in Bad : \A q \in Bad : ~ (q \subseteq r /\ q # r)
  <2>1. Bad \subseteq FiniteSubsetsOf(todo)
    OBVIOUS
  <2> HIDE DEF Bad
  <2> QED
    BY <1>2, <2>1, SmallestSet
<1>4. r \in SUBSET todo /\ r \in SUBSET Task /\ IsFiniteSet(r) /\ late(r) /\ ~early(r)
  BY <1>3 DEF FiniteSubsetsOf
<1>5. r # {} /\ InTime(done, todo, then, r) /\ f(r) \in r /\ late(r \ {f(r)})
  <2> HIDE DEF Bad
  <2>1. r # {}
    BY <1>4, ServiceStep
  <2> QED
    BY <1>4, <2>1, ServiceStep
<1>6. early(r \ {f(r)})
  <2>1. r \ {f(r)} \in FiniteSubsetsOf(todo) /\ r \ {f(r)} \subseteq r /\ r \ {f(r)} # r
    BY <1>4, <1>5, FS_Difference DEF FiniteSubsetsOf
  <2> HIDE DEF f, early, late
  <2> QED
    BY <1>3, <1>5, <2>1
<1>7. InTime(done, todo, now, r)
  <2>1. P95Of(todo \ r) \in Nat
    BY <1>4, P95Split
  <2>2. f(r) \in Task
    BY <1>4, <1>5
  <2>3. plan.p95[f(r)] \in Nat /\ plan.due[f(r)] \in Nat
    BY <2>2, PlanShape, ControllerAssumption DEF Time
  <2>4. then + P95Of(todo \ r) + plan.p95[f(r)] <= plan.due[f(r)]
    BY <1>5 DEF InTime
  <2> HIDE DEF f
  <2>5. now + P95Of(todo \ r) + plan.p95[f(r)] <= plan.due[f(r)]
    BY <2>1, <2>3, <2>4
  <2> QED
    BY <1>5, <2>5 DEF InTime, f
<1> HIDE DEF Bad
<1>8. early(r)
  BY <1>4, <1>5, <1>6, <1>7, ServiceStep
<1> QED
  BY <1>4, <1>8

\* Once its first task is through, the rest is served as before.
LEMMA ServiceAfterFirst ==
  ASSUME plan \in Plans, NEW done, NEW todo \in SUBSET Task, NEW now \in Nat, NEW t \in todo,
         NEW S \in SUBSET (todo \ {t}), Serviceable(done, todo, now, S)
  PROVE  Serviceable(done \cup {t}, todo \ {t}, now + plan.p95[t], S)
<1> DEFINE sooner(r) == Serviceable(done, todo, now, r)
           after(r)  == Serviceable(done \cup {t}, todo \ {t}, now + plan.p95[t], r)
           f(r)      == First(done, todo, r)
           Bad == {r \in FiniteSubsetsOf(todo \ {t}) : sooner(r) /\ ~after(r)}
<1>1. SUFFICES Bad = {}
  <2>1. S \in FiniteSubsetsOf(todo \ {t})
    BY TasksFinite DEF FiniteSubsetsOf
  <2> QED
    BY <1>1, <2>1
<1>2. SUFFICES ASSUME Bad # {} PROVE FALSE
  OBVIOUS
<1>3. PICK r \in Bad : \A q \in Bad : ~ (q \subseteq r /\ q # r)
  <2>1. Bad \subseteq FiniteSubsetsOf(todo \ {t})
    OBVIOUS
  <2> HIDE DEF Bad
  <2> QED
    BY <1>2, <2>1, SmallestSet
<1>4. /\ r \in SUBSET todo /\ r \in SUBSET (todo \ {t}) /\ r \in SUBSET Task
      /\ IsFiniteSet(r) /\ sooner(r) /\ ~after(r)
  BY <1>3 DEF FiniteSubsetsOf
<1>5. r # {} /\ InTime(done, todo, now, r) /\ f(r) \in r /\ sooner(r \ {f(r)})
  <2> HIDE DEF Bad
  <2>1. r # {}
    BY <1>4, ServiceStep
  <2> QED
    BY <1>4, <2>1, ServiceStep
<1>6. after(r \ {f(r)})
  <2>1. /\ r \ {f(r)} \in FiniteSubsetsOf(todo \ {t})
        /\ r \ {f(r)} \subseteq r /\ r \ {f(r)} # r
    BY <1>4, <1>5, FS_Difference DEF FiniteSubsetsOf
  <2> HIDE DEF f, sooner, after
  <2> QED
    BY <1>3, <1>5, <2>1
<1>7. /\ Ready(done \cup {t}, todo \ {t}, r) = Ready(done, todo, r)
      /\ First(done \cup {t}, todo \ {t}, r) = f(r)
  <2>1. (done \cup {t}) \cup ((todo \ {t}) \ r) = done \cup (todo \ r)
    BY <1>4
  <2> QED
    BY <2>1 DEF Ready, First
<1>8. InTime(done \cup {t}, todo \ {t}, now + plan.p95[t], r)
  <2> DEFINE before == todo \ r
             left   == (todo \ {t}) \ r
  <2>1. before \in SUBSET Task /\ {t} \in SUBSET before /\ before \ {t} = left
    BY <1>4
  <2> HIDE DEF before, left
  <2>5. /\ P95Of(before) = P95Of({t}) + P95Of(before \ {t})
        /\ P95Of(before \ {t}) \in Nat
    BY <2>1, P95Split
  <2>2. /\ P95Of(todo \ r) = P95Of({t}) + P95Of((todo \ {t}) \ r)
        /\ P95Of((todo \ {t}) \ r) \in Nat
    BY <2>1, <2>5 DEF before, left
  <2>3. P95Of({t}) = plan.p95[t] /\ plan.p95[t] \in Nat
    BY P95One
  <2>4. now + P95Of(todo \ r) = (now + plan.p95[t]) + P95Of((todo \ {t}) \ r)
    BY <2>2, <2>3
  <2> QED
    BY <1>5, <1>7, <2>4 DEF InTime
<1> HIDE DEF Bad
<1>9. todo \ {t} \in SUBSET Task
  OBVIOUS
<1>10. after(r)
  BY <1>4, <1>5, <1>6, <1>7, <1>8, <1>9, ServiceStep
<1> QED
  BY <1>4, <1>10

\* A part of the tasks that waits for no others of them is served as well: its
\* tasks keep their order, and none starts later.
LEMMA ServiceFewer ==
  ASSUME plan \in Plans, NEW done, NEW todo \in SUBSET Task, NEW now \in Nat,
         NEW part \in SUBSET todo, \A x \in part : plan.deps[x] \cap todo \subseteq part,
         Serviceable(done, todo, now, todo)
  PROVE  Serviceable(done, part, now, part)
<1> DEFINE all(r)  == Serviceable(done, todo, now, r)
           some(r) == Serviceable(done, part, now, r)
           f(r)    == First(done, todo, r)
           Bad == {r \in FiniteSubsetsOf(todo) : all(r) /\ ~some(r \cap part)}
<1>1. SUFFICES Bad = {}
  <2>1. todo \in FiniteSubsetsOf(todo) /\ todo \cap part = part
    BY TasksFinite DEF FiniteSubsetsOf
  <2>2. some(todo \cap part)
    BY <1>1, <2>1
  <2> QED
    BY <2>1, <2>2
<1>2. SUFFICES ASSUME Bad # {} PROVE FALSE
  OBVIOUS
<1>3. PICK r \in Bad : \A q \in Bad : ~ (q \subseteq r /\ q # r)
  <2>1. Bad \subseteq FiniteSubsetsOf(todo)
    OBVIOUS
  <2> HIDE DEF Bad
  <2> QED
    BY <1>2, <2>1, SmallestSet
<1> DEFINE s == r \cap part
<1>4. /\ r \in SUBSET todo /\ r \in SUBSET Task /\ IsFiniteSet(r) /\ all(r) /\ ~some(s)
      /\ s \in SUBSET part /\ s \in SUBSET Task /\ part \in SUBSET Task
  BY <1>3 DEF FiniteSubsetsOf
<1>5. r # {} /\ s # {} /\ InTime(done, todo, now, r) /\ f(r) \in r /\ all(r \ {f(r)})
  <2> HIDE DEF Bad, s
  <2>1. s # {}
    BY <1>4, ServiceStep
  <2>2. r # {}
    BY <2>1 DEF s
  <2> QED
    BY <1>4, <2>1, <2>2, ServiceStep
<1>6. some((r \ {f(r)}) \cap part)
  <2>1. /\ r \ {f(r)} \in FiniteSubsetsOf(todo)
        /\ r \ {f(r)} \subseteq r /\ r \ {f(r)} # r
    BY <1>4, <1>5, FS_Difference DEF FiniteSubsetsOf
  <2> HIDE DEF f, all, some, s
  <2> QED
    BY <1>3, <1>5, <2>1
<1> HIDE DEF Bad
<1>7. f(r) \in part
  <2>1. SUFFICES ASSUME f(r) \notin part PROVE FALSE
    OBVIOUS
  <2>2. (r \ {f(r)}) \cap part = s
    BY <2>1
  <2> QED
    BY <1>4, <1>6, <2>2
<1>8. Ready(done, part, s) = Ready(done, todo, r) \cap part
  <2>1. ASSUME NEW x \in s
        PROVE  plan.deps[x] \subseteq done \cup (part \ s)
                 <=> plan.deps[x] \subseteq done \cup (todo \ r)
    <3>1. plan.deps[x] \cap todo \subseteq part
      BY <2>1
    <3> QED
      BY <1>4, <3>1
  <2> QED
    BY <2>1 DEF Ready
<1>9. First(done, part, s) = f(r) /\ Ready(done, part, s) # {}
  <2>1. f(r) \in Ready(done, todo, r) /\ \A x \in Ready(done, todo, r) : f(r) <= x
    BY <1>4, <1>5, FirstIsReady DEF InTime
  <2>2. f(r) \in Ready(done, part, s)
    BY <1>7, <1>8, <2>1
  <2>3. /\ First(done, part, s) \in Ready(done, part, s)
        /\ \A x \in Ready(done, part, s) : First(done, part, s) <= x
    BY <1>4, <2>2, FirstIsReady
  <2>4. First(done, part, s) <= f(r) /\ f(r) <= First(done, part, s)
    BY <1>8, <2>1, <2>2, <2>3
  <2>5. f(r) \in Nat /\ First(done, part, s) \in Nat
    <3> HIDE DEF s
    <3>1. Ready(done, part, s) \subseteq s
      BY DEF Ready
    <3>2. Task \subseteq Nat
      BY ControllerAssumption DEF Task
    <3> QED
      BY <1>4, <2>2, <2>3, <3>1, <3>2
  <2> HIDE DEF f
  <2>6. First(done, part, s) = f(r)
    BY <2>4, <2>5
  <2> QED
    BY <2>2, <2>6
<1>10. InTime(done, part, now, s)
  <2>1. todo \ r \in SUBSET Task /\ part \ s \in SUBSET (todo \ r)
    BY <1>4
  <2>2. /\ P95Of(part \ s) \in Nat /\ P95Of(todo \ r) \in Nat
        /\ P95Of((todo \ r) \ (part \ s)) \in Nat
        /\ P95Of(todo \ r) = P95Of(part \ s) + P95Of((todo \ r) \ (part \ s))
    BY <2>1, P95Split
  <2>3. P95Of(part \ s) <= P95Of(todo \ r)
    BY <2>2
  <2>4. f(r) \in Task
    BY <1>4, <1>5
  <2>5. plan.p95[f(r)] \in Nat /\ plan.due[f(r)] \in Nat
    BY <2>4, PlanShape, ControllerAssumption DEF Time
  <2>6. now + P95Of(todo \ r) + plan.p95[f(r)] <= plan.due[f(r)]
    BY <1>5 DEF InTime
  <2> HIDE DEF f, s
  <2>7. now + P95Of(part \ s) + plan.p95[f(r)] <= plan.due[f(r)]
    BY <2>2, <2>3, <2>5, <2>6
  <2> QED
    BY <1>9, <2>7 DEF InTime
<1>11. some(s \ {f(r)})
  <2>1. (r \ {f(r)}) \cap part = s \ {f(r)}
    OBVIOUS
  <2> QED
    BY <1>6, <2>1
<1>12. some(s)
  <2>1. f(r) \in s
    BY <1>5, <1>7
  <2> HIDE DEF s
  <2> QED
    BY <1>4, <1>9, <1>10, <1>11, <2>1, ServiceStep
<1> QED
  BY <1>4, <1>12

\* A task that is served waits only for what is done or served.
LEMMA ServiceGrounded ==
  ASSUME NEW done, NEW todo \in SUBSET Task, NEW now, NEW S \in SUBSET todo,
         Serviceable(done, todo, now, S), NEW x \in S
  PROVE  plan.deps[x] \subseteq done \cup todo
<1> DEFINE fine(r) == \A y \in r : plan.deps[y] \subseteq done \cup todo
           Bad == {r \in FiniteSubsetsOf(todo) : Serviceable(done, todo, now, r) /\ ~fine(r)}
<1>1. SUFFICES Bad = {}
  <2>1. S \in FiniteSubsetsOf(todo)
    BY TasksFinite DEF FiniteSubsetsOf
  <2> QED
    BY <1>1, <2>1
<1>2. SUFFICES ASSUME Bad # {} PROVE FALSE
  OBVIOUS
<1>3. PICK r \in Bad : \A q \in Bad : ~ (q \subseteq r /\ q # r)
  <2>1. Bad \subseteq FiniteSubsetsOf(todo)
    OBVIOUS
  <2> HIDE DEF Bad
  <2> QED
    BY <1>2, <2>1, SmallestSet
<1> DEFINE t == First(done, todo, r)
<1>4. /\ r \in SUBSET todo /\ r \in SUBSET Task /\ IsFiniteSet(r)
      /\ Serviceable(done, todo, now, r) /\ ~fine(r)
  BY <1>3 DEF FiniteSubsetsOf
<1>5. /\ InTime(done, todo, now, r) /\ t \in r
      /\ Serviceable(done, todo, now, r \ {t})
  <2> HIDE DEF Bad
  <2>1. r # {}
    BY <1>4
  <2> QED
    BY <1>4, <2>1, ServiceStep
<1>6. fine(r \ {t})
  <2>1. r \ {t} \in FiniteSubsetsOf(todo) /\ r \ {t} \subseteq r /\ r \ {t} # r
    BY <1>4, <1>5, FS_Difference DEF FiniteSubsetsOf
  <2> HIDE DEF t, fine
  <2> QED
    BY <1>3, <1>5, <2>1
<1>7. plan.deps[t] \subseteq done \cup todo
  <2>1. t \in Ready(done, todo, r)
    BY <1>4, <1>5, FirstIsReady DEF InTime
  <2> HIDE DEF t
  <2> QED
    BY <2>1 DEF Ready
<1> QED
  BY <1>4, <1>6, <1>7

\* What fits from a later time fits from an earlier one.
LEMMA SerialEarlier ==
  ASSUME plan \in Plans, NEW done, NEW S \in SUBSET Task, NEW now \in Nat, NEW then \in Nat,
         now <= then, SerialFits(done, S, then)
  PROVE  SerialFits(done, S, now)
<1> DEFINE todo == S \ done
<1>1. todo \in SUBSET Task /\ todo \in SUBSET todo /\ Serviceable(done, todo, then, todo)
  BY SerialUnfolds
<1>2. Serviceable(done, todo, now, todo)
  <2> HIDE DEF todo
  <2> QED
    BY <1>1, ServiceEarlier
<1> QED
  BY <1>2, SerialUnfolds

\* A part of what fits, which waits for nothing of the rest, fits.
LEMMA SerialFewer ==
  ASSUME plan \in Plans, NEW done, NEW S \in SUBSET Task, NEW now \in Nat, NEW R \in SUBSET S,
         \A x \in R \ done : plan.deps[x] \cap (S \ done) \subseteq R,
         SerialFits(done, S, now)
  PROVE  SerialFits(done, R, now)
<1> DEFINE todo == S \ done
           part == R \ done
<1>1. /\ todo \in SUBSET Task /\ part \in SUBSET todo /\ Serviceable(done, todo, now, todo)
      /\ \A x \in part : plan.deps[x] \cap todo \subseteq part
  BY SerialUnfolds
<1>2. Serviceable(done, part, now, part)
  <2> HIDE DEF todo, part
  <2> QED
    BY <1>1, ServiceFewer
<1> QED
  BY <1>2, SerialUnfolds

\* Of the tasks of S, t can start now and the others after it.
Starts(done, S, now, t) ==
  /\ plan.deps[t] \subseteq done
  /\ now + plan.p95[t] <= plan.due[t]
  /\ SerialFits(done \cup {t}, (S \ done) \ {t}, now + plan.p95[t])

\* Of what fits, a task can start at once, and the rest fits after it.
LEMMA SerialFirst ==
  ASSUME plan \in Plans, NEW done, NEW S \in SUBSET Task, NEW now \in Nat,
         S \ done # {}, SerialFits(done, S, now)
  PROVE  \E t \in S \ done : Starts(done, S, now, t)
<1> DEFINE todo == S \ done
           t == First(done, todo, todo)
<1>1. todo \in SUBSET Task /\ todo \in SUBSET todo /\ todo # {}
  OBVIOUS
<1>2. Serviceable(done, todo, now, todo)
  BY SerialUnfolds
<1> HIDE DEF todo
<1>3. InTime(done, todo, now, todo) /\ t \in todo /\ Serviceable(done, todo, now, todo \ {t})
  BY <1>1, <1>2, ServiceStep
<1>4. plan.deps[t] \subseteq done
  <2>1. t \in Ready(done, todo, todo)
    BY <1>1, <1>3, FirstIsReady DEF InTime
  <2> HIDE DEF t
  <2> QED
    BY <2>1 DEF Ready
<1>5. now + plan.p95[t] <= plan.due[t]
  <2>1. now + P95Of(todo \ todo) + plan.p95[t] <= plan.due[t]
    BY <1>3 DEF InTime
  <2>2. todo \ todo = {} /\ P95Of({}) = 0
    BY P95One
  <2> QED
    BY <2>1, <2>2
<1>6. SerialFits(done \cup {t}, todo \ {t}, now + plan.p95[t])
  <2> HIDE DEF t
  <2>1. todo \ {t} \in SUBSET (todo \ {t})
    OBVIOUS
  <2>2. Serviceable(done \cup {t}, todo \ {t}, now + plan.p95[t], todo \ {t})
    BY <1>1, <1>3, <2>1, ServiceAfterFirst
  <2>3. (todo \ {t}) \ (done \cup {t}) = todo \ {t}
    BY DEF todo
  <2> QED
    BY <2>2, <2>3, SerialUnfolds
<1> QED
  BY <1>3, <1>4, <1>5, <1>6 DEF todo, Starts

\* What fits waits for nothing else.
LEMMA SerialGrounded ==
  ASSUME NEW done, NEW S \in SUBSET Task, NEW now, SerialFits(done, S, now), NEW x \in S \ done
  PROVE  plan.deps[x] \subseteq done \cup S
<1> DEFINE todo == S \ done
<1>1. todo \in SUBSET Task /\ todo \in SUBSET todo /\ Serviceable(done, todo, now, todo) /\ x \in todo
  BY SerialUnfolds
<1>2. plan.deps[x] \subseteq done \cup todo
  <2> HIDE DEF todo
  <2> QED
    BY <1>1, ServiceGrounded
<1> QED
  BY <1>2

-----------------------------------------------------------------------------
(* Events *)

\* The later of two times is one of them and not before either.
LEMMA LaterOfTwo ==
  ASSUME NEW x \in Nat, NEW y \in Nat
  PROVE  Max({x, y}) \in Nat /\ Max({x, y}) >= x /\ Max({x, y}) >= y
<1>1. \E m \in {x, y} : \A z \in {x, y} : m >= z
  OBVIOUS
<1> QED
  BY <1>1 DEF Max

\* What the books of a run say: what is spent, promised or lost is charged once
\* and is within the envelope, a task of unknown fate is neither done nor under
\* way, and a run that goes on has given it up.
Books(s) ==
  /\ s \in States
  /\ s.inflight \notin s.completed
  /\ s.unknown \cap Underway(s) = {}
  /\ s.status = "running" => s.unknown \subseteq s.shed
  /\ s.unknownUsage = CostOf(s.unknown)
  /\ Fits(s.caps, Envelope)
  /\ Fits(Committed(s), Envelope)

\* What is settled is what the outputs of the completed tasks say.
Grounded(s, o) ==
  /\ o \in [Task -> Usages \cup {None}]
  /\ \A t \in s.completed : o[t] # None
  /\ s.settled = [u \in Units |-> SumFunctionOnSet([t \in Task |-> o[t][u]], s.completed)]

\* Reconciling sheds tasks and may end the run.
LEMMA ReconcileSheds ==
  ASSUME plan \in Plans, NEW s \in States
  PROVE  \E shed \in SUBSET Task, status \in Statuses :
           /\ Reconcile(s) = [s EXCEPT !.shed = shed, !.status = status]
           /\ s.shed \subseteq shed
           /\ status = "running" => s.status = "running"
<1>1. /\ s.shed \in SUBSET Task /\ s.status \in Statuses
      /\ s = [s EXCEPT !.shed = s.shed, !.status = s.status]
      /\ {"refused", "completed"} \subseteq Statuses
  BY DEF States, Statuses
<1>2. Candidates(s) \in SUBSET Task /\ Admitted \in SUBSET Task
  BY DEF Candidates, Admitted
<1>3. CASE s.status = "cancelled"
  BY <1>1, <1>3 DEF Reconcile
<1>4. CASE s.status # "cancelled" /\ Hopeless(s)
  <2>1. Reconcile(s) = [s EXCEPT !.shed = s.shed, !.status = "refused"]
    BY <1>1, <1>4 DEF Reconcile, States
  <2> QED
    BY <1>1, <2>1
<1>5. CASE s.status # "cancelled" /\ ~Hopeless(s) /\ Unschedulable(s)
  <2> DEFINE shed == s.shed \cup (Admitted \ (Protected \cup s.completed))
  <2>1. Reconcile(s) = [s EXCEPT !.shed = shed, !.status = "refused"]
    BY <1>5 DEF Reconcile, States
  <2>2. shed \in SUBSET Task /\ s.shed \subseteq shed
    BY <1>1, <1>2
  <2> HIDE DEF shed
  <2> QED
    BY <1>1, <2>1, <2>2
<1>6. CASE s.status # "cancelled" /\ ~Hopeless(s) /\ ~Unschedulable(s) /\ Unaffordable(s)
  <2> DEFINE shed == s.shed \cup (Task \ (Protected \cup Underway(s)))
  <2>1. Reconcile(s) = [s EXCEPT !.shed = shed, !.status = "refused"]
    BY <1>6 DEF Reconcile, States
  <2>2. shed \in SUBSET Task /\ s.shed \subseteq shed
    BY <1>1
  <2> HIDE DEF shed
  <2> QED
    BY <1>1, <2>1, <2>2
<1>7. CASE s.status # "cancelled" /\ ~Hopeless(s) /\ ~Unschedulable(s) /\ ~Unaffordable(s)
  <2> DEFINE shed == s.shed \cup (Candidates(s) \ Kept(s))
             ends == /\ InFlight(s) = {} /\ Task \subseteq s.completed \cup shed
                     /\ Protected \subseteq s.completed
             status == IF ends THEN "completed" ELSE s.status
  <2>1. Reconcile(s) = [s EXCEPT !.shed = shed, !.status = status]
    BY <1>7 DEF Reconcile, States
  <2>2. shed \in SUBSET Task /\ s.shed \subseteq shed
    BY <1>1, <1>2
  <2>3. status \in Statuses /\ (status = "running" => s.status = "running")
    BY <1>1
  <2> HIDE DEF shed, status
  <2> QED
    BY <2>1, <2>2, <2>3
<1> QED
  BY <1>3, <1>4, <1>5, <1>6, <1>7

\* The books stay in order when the run is reconciled.
LEMMA ReconcileBooks ==
  ASSUME plan \in Plans, NEW s, Books(s)
  PROVE  /\ Books(Reconcile(s))
         /\ Reconcile(s).inflight = s.inflight /\ Reconcile(s).completed = s.completed
         /\ Reconcile(s).settled = s.settled /\ Reconcile(s).unknown = s.unknown
<1>1. PICK shed \in SUBSET Task, status \in Statuses :
        /\ Reconcile(s) = [s EXCEPT !.shed = shed, !.status = status]
        /\ s.shed \subseteq shed
        /\ status = "running" => s.status = "running"
  BY ReconcileSheds DEF Books
<1> DEFINE r == [s EXCEPT !.shed = shed, !.status = status]
<1>2. /\ r \in States
      /\ r.caps = s.caps /\ r.settled = s.settled /\ r.unknownUsage = s.unknownUsage
      /\ r.completed = s.completed /\ r.unknown = s.unknown /\ r.inflight = s.inflight
      /\ r.shed = shed /\ r.status = status
  BY DEF Books, States
<1> HIDE DEF r
<1>3. Underway(r) = Underway(s) /\ Committed(r) = Committed(s)
  BY <1>2 DEF Underway, Committed, InFlight
<1>4. Books(r)
  BY <1>1, <1>2, <1>3 DEF Books
<1> QED
  BY <1>1, <1>2, <1>4 DEF r

\* A state that differs from one with its books in order by an event from
\* outside: by the time, the providers and lower caps.
LEMMA ControlBooks ==
  ASSUME plan \in Plans, NEW s, Books(s), NEW r \in States,
         r.settled = s.settled, r.unknownUsage = s.unknownUsage, r.completed = s.completed,
         r.shed = s.shed, r.unknown = s.unknown, r.inflight = s.inflight, r.status = s.status,
         Fits(r.caps, Envelope)
  PROVE  Books(r)
<1>1. Underway(r) = Underway(s) /\ Committed(r) = Committed(s)
  BY DEF Underway, Committed, InFlight
<1> QED
  BY <1>1 DEF Books

\* Limits are passed on.
LEMMA FitsTransitive ==
  ASSUME NEW v \in Usages, NEW w \in Usages, NEW x \in Usages, Fits(v, w), Fits(w, x)
  PROVE  Fits(v, x)
<1> SUFFICES ASSUME NEW u \in Units PROVE v[u] <= x[u]
  BY DEF Fits
<1>1. v[u] \in Nat /\ w[u] \in Nat /\ x[u] \in Nat
  BY DEF Usages
<1>2. v[u] <= w[u] /\ w[u] <= x[u]
  BY DEF Fits
<1> QED
  BY <1>1, <1>2

\* Usages add up to usages.
LEMMA PlusType ==
  ASSUME NEW v \in Usages, NEW w \in Usages
  PROVE  /\ Plus(v, w) \in Usages /\ Plus(v, w) = Plus(w, v)
         /\ Plus(v, Zero) = v /\ Plus(Zero, v) = v /\ Zero \in Usages
<1>1. \A u \in Units : v[u] \in Nat /\ w[u] \in Nat
  BY DEF Usages
<1>2. Plus(v, w) \in Usages
  BY <1>1 DEF Plus, Usages
<1>3. Plus(v, w) = Plus(w, v)
  <2>1. \A u \in Units : v[u] + w[u] = w[u] + v[u]
    BY <1>1
  <2> QED
    BY <2>1 DEF Plus
<1>4. Zero \in Usages /\ Plus(v, Zero) = v /\ Plus(Zero, v) = v
  BY DEF Plus, Zero, Usages
<1> QED
  BY <1>2, <1>3, <1>4

\* Three usages add up the same in any order.
LEMMA PlusOrder ==
  ASSUME NEW v \in Usages, NEW w \in Usages, NEW x \in Usages
  PROVE  /\ Plus(Plus(v, x), w) = Plus(Plus(v, w), x)
         /\ Plus(Plus(v, x), w) = Plus(v, Plus(x, w))
<1>1. \A u \in Units : v[u] \in Nat /\ w[u] \in Nat /\ x[u] \in Nat
  BY DEF Usages
<1>2. \A u \in Units : /\ (v[u] + x[u]) + w[u] = (v[u] + w[u]) + x[u]
                       /\ (v[u] + x[u]) + w[u] = v[u] + (x[u] + w[u])
  BY <1>1
<1> QED
  BY <1>2 DEF Plus

\* Less fits where more does.
LEMMA PlusMonotone ==
  ASSUME NEW v \in Usages, NEW w \in Usages, NEW x \in Usages, Fits(v, w)
  PROVE  Fits(Plus(x, v), Plus(x, w)) /\ Fits(Plus(v, x), Plus(w, x))
<1>1. \A u \in Units : v[u] \in Nat /\ w[u] \in Nat /\ x[u] \in Nat /\ v[u] <= w[u]
  BY DEF Usages, Fits
<1>2. \A u \in Units : x[u] + v[u] <= x[u] + w[u] /\ v[u] + x[u] <= w[u] + x[u]
  BY <1>1
<1> QED
  BY <1>2 DEF Plus, Fits

\* The next dispatch is a task that may be dispatched.
LEMMA NextIsEligible ==
  ASSUME NEW s, NextDispatch(s) # None
  PROVE  NextDispatch(s) \in Eligible(s, s.now)
<1>1. Eligible(s, s.now) # {}
  BY DEF NextDispatch
<1>2. Eligible(s, s.now) \in SUBSET Nat
  BY ControllerAssumption DEF Eligible, Admitted, Task
<1>3. \E m \in Eligible(s, s.now) : \A n \in Eligible(s, s.now) : m <= n
  BY <1>1, <1>2, LeastNumber
<1> QED
  BY <1>1, <1>3 DEF NextDispatch, Min

\* A dispatch promises what is free.
LEMMA DispatchBooks ==
  ASSUME plan \in Plans, NEW s, Books(s), NEW t \in Eligible(s, s.now)
  PROVE  /\ Books([s EXCEPT !.inflight = t])
         /\ s.inflight = None /\ t \in Task /\ t \notin s.completed /\ t \notin s.unknown
<1>1. /\ s.status = "running" /\ s.inflight = None
      /\ t \in Task /\ t \notin s.completed /\ t \notin s.shed
      /\ Dispatchable(s, t, s.now)
  BY DEF Eligible, Admitted
<1>2. t \notin s.unknown
  BY <1>1 DEF Books
<1> DEFINE r == [s EXCEPT !.inflight = t]
<1>3. /\ r \in States /\ r.inflight = t
      /\ r.caps = s.caps /\ r.settled = s.settled /\ r.unknownUsage = s.unknownUsage
      /\ r.completed = s.completed /\ r.unknown = s.unknown
      /\ r.shed = s.shed /\ r.status = s.status
  BY <1>1 DEF Books, States
<1> HIDE DEF r
<1>4. t # None
  BY <1>1, NoneIsNoTask
<1>5. InFlight(r) = {t} /\ Underway(r) = s.completed \cup {t} /\ Underway(s) = s.completed
  BY <1>1, <1>3, <1>4 DEF InFlight, Underway
<1>6. Fits(Committed(r), Envelope)
  <2> DEFINE spent == Plus(s.settled, s.unknownUsage)
             work  == {t} \cup (Protected \ s.completed)
  <2>1. /\ spent \in Usages /\ s.caps \in Usages /\ Envelope \in Usages
        /\ Fits(s.caps, Envelope)
    BY PlusType, ControllerAssumption DEF Books, States
  <2>2. Protected \in SUBSET Task
    BY ControllerAssumption DEF Protected, Closure
  <2>3. work \in SUBSET Task /\ {t} \in SUBSET work
    BY <1>1, <2>2
  <2>4. Fits(Plus(spent, CostOf(work)), s.caps)
    BY <1>1 DEF Dispatchable
  <2>5. Committed(r) = Plus(spent, CostOf({t}))
    BY <1>3, <1>5 DEF Committed
  <2> HIDE DEF spent, work
  <2>6. {t} \in SUBSET Task
    BY <1>1
  <2>7. CostOf({t}) \in Usages /\ CostOf(work) \in Usages /\ Fits(CostOf({t}), CostOf(work))
    BY <2>3, <2>6, CostType, CostMonotone
  <2>8. Fits(Plus(spent, CostOf({t})), Plus(spent, CostOf(work)))
    BY <2>1, <2>7, PlusMonotone
  <2>9. Plus(spent, CostOf({t})) \in Usages /\ Plus(spent, CostOf(work)) \in Usages
    BY <2>1, <2>7, PlusType
  <2> QED
    BY <2>1, <2>4, <2>5, <2>8, <2>9, FitsTransitive
<1>7. Books(r)
  BY <1>1, <1>2, <1>3, <1>5, <1>6 DEF Books
<1> QED
  BY <1>1, <1>2, <1>7 DEF r

\* A settlement charges no more than was promised.
LEMMA SettleBooks ==
  ASSUME plan \in Plans, NEW s, Books(s), s.inflight # None,
         NEW actual \in Usages, Fits(actual, plan.cost[s.inflight]), NEW at \in Nat
  PROVE  Books([s EXCEPT !.now = at, !.inflight = None, !.completed = @ \cup {s.inflight},
                         !.settled = Plus(@, actual)])
<1> DEFINE t == s.inflight
           r == [s EXCEPT !.now = at, !.inflight = None, !.completed = @ \cup {t},
                          !.settled = Plus(@, actual)]
<1>1. /\ t \in Task /\ None \notin Task /\ s.completed \in SUBSET Task
      /\ s.settled \in Usages /\ s.unknownUsage \in Usages
      /\ s \in States /\ t \notin s.completed /\ t \notin s.unknown
  BY NoneIsNoTask DEF Books, States, Underway, InFlight
<1>2. Plus(s.settled, actual) \in Usages
  BY <1>1, PlusType
<1>3. /\ r \in States /\ r.inflight = None /\ r.completed = s.completed \cup {t}
      /\ r.settled = Plus(s.settled, actual) /\ r.unknownUsage = s.unknownUsage
      /\ r.caps = s.caps /\ r.unknown = s.unknown /\ r.shed = s.shed /\ r.status = s.status
  BY <1>1, <1>2 DEF States
<1> HIDE DEF r, t
<1>4. InFlight(r) = {} /\ InFlight(s) = {t} /\ Underway(r) = Underway(s)
  BY <1>1, <1>3 DEF InFlight, Underway, t
<1>5. Fits(Committed(r), Envelope)
  <2> DEFINE lost == s.unknownUsage
             cost == plan.cost[t]
             before == Plus(Plus(s.settled, lost), cost)
             after  == Plus(Plus(s.settled, lost), actual)
  <2>1. cost \in Usages
    BY <1>1, PlanShape
  <2>2. Plus(s.settled, lost) \in Usages /\ before \in Usages /\ after \in Usages
    BY <1>1, <2>1, PlusType
  <2>3. Fits(after, before)
    <3> DEFINE spent == Plus(s.settled, lost)
    <3>1. spent \in Usages /\ Fits(actual, cost)
      BY <2>2 DEF t
    <3> HIDE DEF spent, cost
    <3>2. Fits(Plus(spent, actual), Plus(spent, cost))
      BY <2>1, <3>1, PlusMonotone
    <3> QED
      BY <3>2 DEF spent
  <2>4. Committed(s) = before
    BY <1>1, <1>4, CostOne DEF Committed
  <2>5. Committed(r) = after
    <3>1. Committed(r) = Plus(Plus(Plus(s.settled, actual), lost), CostOf({}))
      BY <1>3, <1>4 DEF Committed
    <3>2. Plus(Plus(s.settled, actual), lost) = after
      BY <1>1, PlusOrder
    <3> QED
      BY <2>2, <3>1, <3>2, CostEmpty, PlusType
  <2>6. Fits(before, Envelope) /\ Envelope \in Usages
    BY <2>4, ControllerAssumption DEF Books
  <2> HIDE DEF before, after
  <2> QED
    BY <2>2, <2>3, <2>5, <2>6, FitsTransitive
<1>6. Books(r)
  BY <1>3, <1>4, <1>5, <1>1, ControllerAssumption DEF Books
<1> QED
  BY <1>6 DEF r, t

\* A call of unknown fate is charged in full and never made again.
LEMMA UnknownBooks ==
  ASSUME plan \in Plans, NEW s, Books(s), s.inflight # None, NEW at \in Nat
  PROVE  Books([s EXCEPT !.now = at, !.inflight = None, !.unknown = @ \cup {s.inflight},
                  !.unknownUsage = Plus(@, plan.cost[s.inflight]),
                  !.shed = IF s.inflight \in Protected THEN @ ELSE @ \cup {s.inflight},
                  !.status = IF s.inflight \in Protected THEN "refused" ELSE @])
<1> DEFINE t == s.inflight
           shed == IF t \in Protected THEN s.shed ELSE s.shed \cup {t}
           status == IF t \in Protected THEN "refused" ELSE s.status
           r == [s EXCEPT !.now = at, !.inflight = None, !.unknown = @ \cup {t},
                          !.unknownUsage = Plus(@, plan.cost[t]),
                          !.shed = shed, !.status = status]
<1>1. /\ t \in Task /\ None \notin Task /\ s.shed \in SUBSET Task /\ s.unknown \in SUBSET Task
      /\ s.completed \in SUBSET Task /\ Fits(s.caps, Envelope) /\ Fits(Committed(s), Envelope)
      /\ s.unknown \cap s.completed = {} /\ (s.status = "running" => s.unknown \subseteq s.shed)
      /\ s.settled \in Usages /\ s.unknownUsage \in Usages
      /\ s \in States /\ t \notin s.completed /\ t \notin s.unknown
      /\ s.status \in Statuses /\ "refused" \in Statuses
  BY NoneIsNoTask DEF Books, States, Statuses, Underway, InFlight
<1>2. plan.cost[t] \in Usages
  BY <1>1, PlanShape
<1>3. Plus(s.unknownUsage, plan.cost[t]) \in Usages
  BY <1>1, <1>2, PlusType
<1>4. /\ shed \in SUBSET Task /\ status \in Statuses
      /\ status = "running" => t \in shed /\ s.status = "running"
      /\ s.shed \subseteq shed
  BY <1>1
<1> HIDE DEF shed, status
<1>5. /\ r \in States /\ r.inflight = None /\ r.completed = s.completed
      /\ r.settled = s.settled /\ r.unknownUsage = Plus(s.unknownUsage, plan.cost[t])
      /\ r.caps = s.caps /\ r.unknown = s.unknown \cup {t} /\ r.shed = shed /\ r.status = status
  BY <1>1, <1>3, <1>4 DEF States
<1> HIDE DEF r, t
<1>6. /\ InFlight(r) = {} /\ InFlight(s) = {t}
      /\ Underway(r) = s.completed /\ Underway(s) = s.completed \cup {t}
  BY <1>1, <1>5 DEF InFlight, Underway, t
<1>7. r.unknownUsage = CostOf(r.unknown)
  BY <1>1, <1>5, CostAdd DEF Books
<1>8. Committed(r) = Committed(s)
  <2>1. Committed(s) = Plus(Plus(s.settled, s.unknownUsage), plan.cost[t])
    BY <1>1, <1>6, CostOne DEF Committed
  <2>2. Committed(r) = Plus(Plus(s.settled, Plus(s.unknownUsage, plan.cost[t])), CostOf({}))
    BY <1>5, <1>6 DEF Committed
  <2> DEFINE cost == plan.cost[t]
             spent == Plus(s.settled, Plus(s.unknownUsage, cost))
  <2>3. cost \in Usages /\ Plus(s.unknownUsage, cost) \in Usages
    BY <1>2, <1>3
  <2>4. spent \in Usages
    BY <1>1, <2>3, PlusType
  <2>5. spent = Plus(Plus(s.settled, s.unknownUsage), cost)
    <3> HIDE DEF cost
    <3> QED
      BY <1>1, <2>3, PlusOrder
  <2>6. Plus(spent, CostOf({})) = spent
    <3> HIDE DEF spent
    <3> QED
      BY <2>4, CostEmpty, PlusType
  <2> QED
    BY <2>1, <2>2, <2>5, <2>6
<1>9. Books(r)
  BY <1>1, <1>4, <1>5, <1>6, <1>7, <1>8, ControllerAssumption DEF Books
<1>10. r = [s EXCEPT !.now = at, !.inflight = None, !.unknown = @ \cup {s.inflight},
                  !.unknownUsage = Plus(@, plan.cost[s.inflight]),
                  !.shed = IF s.inflight \in Protected THEN @ ELSE @ \cup {s.inflight},
                  !.status = IF s.inflight \in Protected THEN "refused" ELSE @]
  BY <1>1 DEF r, t, shed, status, States
<1> QED
  BY <1>9, <1>10

\* So is one that a cancellation leaves behind.
LEMMA CancelBooks ==
  ASSUME plan \in Plans, NEW s, Books(s)
  PROVE  Books(Cancellation(s))
<1> DEFINE r == Cancellation(s)
           fl == InFlight(s)
<1>1. /\ fl \in SUBSET Task /\ None \notin Task /\ s \in States
      /\ fl \cap s.completed = {} /\ fl \cap s.unknown = {} /\ s.unknown \cap s.completed = {}
      /\ s.completed \in SUBSET Task /\ Fits(s.caps, Envelope) /\ Fits(Committed(s), Envelope)
      /\ fl = {} \/ \E t \in Task : fl = {t}
      /\ s.settled \in Usages /\ s.unknownUsage \in Usages
  BY NoneIsNoTask DEF Books, States, Underway, InFlight
<1>2. CostOf(fl) \in Usages
  BY <1>1, CostType
<1>3. Plus(s.unknownUsage, CostOf(fl)) \in Usages
  BY <1>1, <1>2, PlusType
<1> HIDE DEF fl
<1>4. /\ r \in States /\ r.inflight = None /\ r.completed = s.completed
      /\ r.settled = s.settled /\ r.unknownUsage = Plus(s.unknownUsage, CostOf(fl))
      /\ r.caps = s.caps /\ r.unknown = s.unknown \cup fl /\ r.status = "cancelled"
  BY <1>1, <1>3 DEF Cancellation, States, Statuses, fl
<1> HIDE DEF r
<1>5. InFlight(r) = {} /\ Underway(r) = s.completed /\ Underway(s) = s.completed \cup fl
  BY <1>4 DEF InFlight, Underway, fl
<1>6. r.unknownUsage = CostOf(r.unknown)
  <2>1. CASE fl = {}
    BY <1>1, <1>4, <2>1, CostEmpty, PlusType DEF Books
  <2>2. ASSUME NEW t \in Task, fl = {t} PROVE r.unknownUsage = CostOf(r.unknown)
    <3>1. t \in Task \ s.unknown /\ s.unknown \in SUBSET Task
      BY <1>1, <2>2 DEF States
    <3> QED
      BY <1>4, <2>2, <3>1, CostAdd, CostOne DEF Books
  <2> QED
    BY <1>1, <2>1, <2>2
<1>7. Committed(r) = Committed(s)
  <2> DEFINE cost == CostOf(fl)
             spent == Plus(s.settled, Plus(s.unknownUsage, cost))
  <2>1. Committed(s) = Plus(Plus(s.settled, s.unknownUsage), cost)
    BY DEF Committed, fl
  <2>2. Committed(r) = Plus(spent, CostOf({}))
    BY <1>4, <1>5 DEF Committed
  <2>3. spent \in Usages /\ cost \in Usages
    BY <1>1, <1>2, <1>3, PlusType
  <2>4. spent = Plus(Plus(s.settled, s.unknownUsage), cost)
    <3> HIDE DEF cost
    <3> QED
      BY <1>1, <2>3, PlusOrder
  <2>5. Plus(spent, CostOf({})) = spent
    <3> HIDE DEF spent
    <3> QED
      BY <2>3, CostEmpty, PlusType
  <2> QED
    BY <2>1, <2>2, <2>4, <2>5
<1>8. Books(r)
  BY <1>1, <1>4, <1>5, <1>6, <1>7, ControllerAssumption DEF Books
<1> QED
  BY <1>8 DEF r

-----------------------------------------------------------------------------
(* Outputs *)

\* A transition that settles nothing.
LEMMA GroundedSame ==
  ASSUME NEW s, NEW o, Grounded(s, o), NEW r, r.completed = s.completed, r.settled = s.settled
  PROVE  Grounded(r, o)
BY DEF Grounded

\* The output of a task that is settled is added.
LEMMA GroundedSettle ==
  ASSUME plan \in Plans, NEW s \in States, NEW o, Grounded(s, o),
         NEW t \in Task, t \notin s.completed, o[t] # None,
         NEW r, r.completed = s.completed \cup {t}, r.settled = Plus(s.settled, o[t])
  PROVE  Grounded(r, o)
<1>1. ASSUME NEW u \in Units
      PROVE  SumFunctionOnSet([x \in Task |-> o[x][u]], r.completed) = r.settled[u]
  <2> DEFINE f == [x \in Task |-> o[x][u]]
             S == s.completed
  <2>1. S \in SUBSET Task /\ IsFiniteSet(S) /\ t \notin S
    BY TasksFinite DEF States
  <2>2. \A x \in S \cup {t} : f[x] \in Int
    <3>1. \A x \in S \cup {t} : o[x] \in Usages
      BY <2>1 DEF Grounded
    <3> QED
      BY <2>1, <3>1 DEF Usages
  <2>3. f[t] = o[t][u]
    OBVIOUS
  <2>4. s.settled[u] = SumFunctionOnSet(f, S)
    BY DEF Grounded
  <2> HIDE DEF f, S
  <2>5. SumFunctionOnSet(f, S \cup {t}) = f[t] + SumFunctionOnSet(f, S)
    BY <2>1, <2>2, SumAdd
  <2>6. SumFunctionOnSet(f, S) \in Int
    BY <2>1, <2>2, SumType
  <2>7. r.settled[u] = s.settled[u] + o[t][u]
    BY DEF Plus
  <2>8. r.settled[u] = SumFunctionOnSet(f, S \cup {t})
    BY <2>2, <2>3, <2>4, <2>5, <2>6, <2>7
  <2> QED
    BY <2>8 DEF f, S
<1>2. r.settled = [u \in Units |-> SumFunctionOnSet([x \in Task |-> o[x][u]], r.completed)]
  <2>1. r.settled = [u \in Units |-> r.settled[u]]
    BY DEF Plus
  <2> QED
    BY <1>1, <2>1
<1> QED
  BY <1>2 DEF Grounded

\* An output is recorded before it counts.
LEMMA GroundedWrite ==
  ASSUME NEW s \in States, NEW o, Grounded(s, o),
         NEW t \in Task, t \notin s.completed, NEW actual \in Usages
  PROVE  Grounded(s, [o EXCEPT ![t] = actual])
<1> DEFINE q == [o EXCEPT ![t] = actual]
<1>1. /\ q \in [Task -> Usages \cup {None}] /\ s.completed \in SUBSET Task
      /\ \A x \in s.completed : q[x] = o[x]
  BY DEF Grounded, States
<1> HIDE DEF q
<1>2. ASSUME NEW u \in Units
      PROVE  SumFunctionOnSet([x \in Task |-> q[x][u]], s.completed)
               = SumFunctionOnSet([x \in Task |-> o[x][u]], s.completed)
  <2> DEFINE f == [x \in Task |-> q[x][u]]
             g == [x \in Task |-> o[x][u]]
             S == s.completed
  <2>1. IsFiniteSet(S) /\ \A x \in S : f[x] = g[x]
    BY <1>1, TasksFinite
  <2> HIDE DEF f, g, S
  <2>2. SumFunctionOnSet(f, S) = SumFunctionOnSet(g, S)
    BY <2>1, SumSame
  <2> QED
    BY <2>2 DEF f, g, S
<1>3. Grounded(s, q)
  BY <1>1, <1>2 DEF Grounded
<1> QED
  BY <1>3 DEF q

-----------------------------------------------------------------------------
(* The inductive invariant of the books. *)

\* What the coordinator knows where it is: a call that is being made was not
\* made before, and what a worker reported is within what was reserved.
DriveKnows ==
  /\ drive \in {"dispatched", "working", "returned"} => ctl.inflight # None
  /\ drive = "dispatched" => ctl.inflight \notin called
  /\ drive = "returned" => output[ctl.inflight] # None
  /\ \A t \in Task : output[t] # None => Fits(output[t], plan.cost[t])

IInv ==
  /\ plan \in Plans
  /\ Books(ctl)
  /\ Grounded(ctl, output)
  /\ called \subseteq Underway(ctl) \cup ctl.unknown
  /\ DriveKnows

\* A transition that nobody is in the middle of.
LEMMA NewBooks ==
  ASSUME IInv, UNCHANGED <<plan, called, output>>, Books(ctl'), Grounded(ctl', output),
         called \subseteq Underway(ctl') \cup ctl'.unknown,
         drive' \notin {"working", "returned"},
         drive' = "dispatched" => ctl'.inflight # None /\ ctl'.inflight \notin called
  PROVE  IInv'
<1>1. Books(ctl)'
  BY DEF Books, Underway, InFlight, Committed, CostOf
<1>2. Grounded(ctl, output)'
  BY DEF Grounded
<1>3. DriveKnows'
  BY DEF IInv, DriveKnows
<1>4. (called \subseteq Underway(ctl) \cup ctl.unknown)'
  BY DEF Underway, InFlight
<1> QED
  BY <1>1, <1>2, <1>3, <1>4 DEF IInv

\* The same of a transition that is reconciled.
LEMMA NewReconciled ==
  ASSUME IInv, UNCHANGED <<plan, called, output>>,
         NEW r, ctl' = Reconcile(r), Books(r), Grounded(r, output),
         called \subseteq Underway(r) \cup r.unknown,
         drive' \notin {"working", "returned"},
         drive' = "dispatched" => r.inflight # None /\ r.inflight \notin called
  PROVE  IInv'
<1>1. /\ Books(ctl') /\ ctl'.inflight = r.inflight /\ ctl'.completed = r.completed
      /\ ctl'.settled = r.settled /\ ctl'.unknown = r.unknown
  BY ReconcileBooks DEF IInv
<1>2. Grounded(ctl', output)
  BY <1>1, GroundedSame
<1>3. Underway(ctl') = Underway(r)
  BY <1>1 DEF Underway, InFlight
<1> QED
  BY <1>1, <1>2, <1>3, NewBooks

\* A step of the coordinator that is not a transition, outside of a call.
LEMMA QuietStep ==
  ASSUME IInv, UNCHANGED <<plan, ctl, called, output>>,
         drive' \notin {"dispatched", "working", "returned"}
  PROVE  IInv'
BY NewBooks DEF IInv

\* A task is dispatched only while it can be afforded with all mandatory work.
LEMMA DispatchStep ==
  ASSUME IInv, Dispatch
  PROVE  IInv'
<1> DEFINE t == NextDispatch(ctl)
           r == [ctl EXCEPT !.inflight = t]
<1>1. t \in Eligible(ctl, ctl.now)
  BY NextIsEligible DEF Dispatch
<1>2. /\ Books(r) /\ ctl.inflight = None /\ t \in Task
      /\ t \notin ctl.completed /\ t \notin ctl.unknown
  BY <1>1, DispatchBooks DEF IInv
<1>3. /\ ctl' = Reconcile(r) /\ drive' = "dispatched"
      /\ UNCHANGED <<plan, called, output>>
  BY DEF Dispatch, Transition, TaskDispatched, Moves
<1>4. /\ r.inflight = t /\ r.completed = ctl.completed /\ r.settled = ctl.settled
      /\ r.unknown = ctl.unknown
  BY DEF IInv, Books, States
<1> HIDE DEF r, t
<1>5. t # None
  BY <1>2, NoneIsNoTask
<1>6. called \subseteq ctl.completed \cup ctl.unknown
  BY <1>2 DEF IInv, Underway, InFlight
<1>7. Grounded(r, output)
  BY <1>4, GroundedSame DEF IInv
<1>8. t \notin called
  BY <1>2, <1>6
<1>9. called \subseteq Underway(r) \cup r.unknown
  BY <1>4, <1>6 DEF Underway
<1> QED
  BY <1>2, <1>3, <1>4, <1>5, <1>7, <1>8, <1>9, NewReconciled

\* The attempt is recorded before the call is made.
LEMMA AttemptStep ==
  ASSUME IInv, StartAttempt
  PROVE  IInv'
<1>1. /\ UNCHANGED <<plan, ctl, output>> /\ called' = called \cup InFlight(ctl)
      /\ drive = "dispatched" /\ drive' = "working"
  BY DEF StartAttempt, Moves
<1>2. Books(ctl)' /\ Grounded(ctl, output)'
  BY <1>1 DEF IInv, Books, Grounded, Underway, InFlight, Committed, CostOf
<1>3. DriveKnows'
  BY <1>1 DEF IInv, DriveKnows
<1>4. (called \subseteq Underway(ctl) \cup ctl.unknown)'
  BY <1>1 DEF IInv, Underway, InFlight
<1> QED
  BY <1>1, <1>2, <1>3, <1>4 DEF IInv

\* What a worker returned is written down; it is not settled yet.
LEMMA WorkerStep ==
  ASSUME IInv, NEW actual \in Spent, WorkerReturns(actual)
  PROVE  IInv'
<1> DEFINE t == ctl.inflight
<1>1. /\ UNCHANGED <<plan, ctl, called>> /\ output' = [output EXCEPT ![t] = actual]
      /\ drive = "working" /\ drive' = "returned" /\ Fits(actual, plan.cost[t])
  BY DEF WorkerReturns, Moves
<1>2. /\ ctl \in States /\ t \in Task /\ t \notin ctl.completed /\ t # None
      /\ actual \in Usages /\ actual # None
  BY <1>1, ControllerAssumption, ServiceAssumption DEF IInv, DriveKnows, Books, States
<1>3. Grounded(ctl, output')
  BY <1>1, <1>2, GroundedWrite DEF IInv
<1>4. Books(ctl)' /\ Grounded(ctl, output)'
  BY <1>1, <1>3 DEF IInv, Books, Grounded, Underway, InFlight, Committed, CostOf
<1>5. output \in [Task -> Usages \cup {None}]
  BY DEF IInv, Grounded
<1>6. DriveKnows'
  <2>1. output'[t] = actual /\ \A x \in Task \ {t} : output'[x] = output[x]
    BY <1>1, <1>2, <1>5
  <2>2. \A x \in Task : output'[x] # None => Fits(output'[x], plan.cost[x])
    BY <1>1, <2>1 DEF IInv, DriveKnows
  <2> QED
    BY <1>1, <1>2, <2>1, <2>2 DEF DriveKnows
<1>7. (called \subseteq Underway(ctl) \cup ctl.unknown)'
  BY <1>1 DEF IInv, Underway, InFlight
<1> QED
  BY <1>1, <1>4, <1>6, <1>7 DEF IInv

\* A recorded output is settled, by the drive that got it or by a recovery.
LEMMA SettlementStep ==
  ASSUME IInv, ctl.inflight # None, output[ctl.inflight] # None, NEW at \in Nat,
         ctl' = UsageSettled(ctl, ctl.inflight, output[ctl.inflight], at),
         UNCHANGED <<plan, called, output>>,
         drive' \notin {"dispatched", "working", "returned"}
  PROVE  IInv'
<1> DEFINE t == ctl.inflight
           r == [ctl EXCEPT !.now = at, !.inflight = None, !.completed = @ \cup {t},
                            !.settled = Plus(@, output[t])]
<1>1. /\ ctl \in States /\ t \in Task /\ t \notin ctl.completed /\ None \notin Task
      /\ output \in [Task -> Usages \cup {None}]
  BY NoneIsNoTask DEF IInv, Books, States, Grounded
<1>2. output[t] \in Usages /\ Fits(output[t], plan.cost[t])
  BY <1>1 DEF IInv, DriveKnows
<1>3. Books(r)
  BY <1>2, SettleBooks DEF IInv
<1>4. ctl' = Reconcile(r)
  BY DEF UsageSettled
<1>5. /\ r.inflight = None /\ r.completed = ctl.completed \cup {t}
      /\ r.settled = Plus(ctl.settled, output[t]) /\ r.unknown = ctl.unknown
  BY <1>1 DEF States
<1> HIDE DEF r, t
<1>6. Grounded(r, output)
  BY <1>1, <1>5, GroundedSettle DEF IInv, t
<1>7. called \subseteq Underway(r) \cup r.unknown
  BY <1>5 DEF IInv, Underway, InFlight, t
<1> QED
  BY <1>3, <1>4, <1>5, <1>6, <1>7, NewReconciled

\* A call is given up, by the drive whose worker failed or by a recovery.
LEMMA UnknownStep ==
  ASSUME IInv, ctl.inflight # None, NEW at \in Nat,
         ctl' = UnknownInflight(ctl, ctl.inflight, at),
         UNCHANGED <<plan, called, output>>,
         drive' \notin {"dispatched", "working", "returned"}
  PROVE  IInv'
<1> DEFINE t == ctl.inflight
           r == [ctl EXCEPT !.now = at, !.inflight = None, !.unknown = @ \cup {t},
                  !.unknownUsage = Plus(@, plan.cost[t]),
                  !.shed = IF t \in Protected THEN @ ELSE @ \cup {t},
                  !.status = IF t \in Protected THEN "refused" ELSE @]
<1>1. Books(r)
  BY UnknownBooks DEF IInv
<1>2. ctl' = Reconcile(r)
  BY DEF UnknownInflight
<1>3. /\ r.inflight = None /\ r.completed = ctl.completed /\ r.settled = ctl.settled
      /\ r.unknown = ctl.unknown \cup {t}
  BY DEF IInv, Books, States
<1> HIDE DEF r, t
<1>4. Grounded(r, output)
  BY <1>3, GroundedSame DEF IInv
<1>5. called \subseteq Underway(r) \cup r.unknown
  BY <1>3 DEF IInv, Underway, InFlight, t
<1> QED
  BY <1>1, <1>2, <1>3, <1>4, <1>5, NewReconciled

\* A cancellation charges what is in flight in full.
LEMMA CancelStep ==
  ASSUME IInv, Cancel
  PROVE  IInv'
<1>1. /\ ctl' = Cancellation(ctl) /\ UNCHANGED <<plan, called, output, drive>>
      /\ drive = "loop"
  BY DEF Cancel, Transition, volatile
<1>2. Books(ctl')
  BY <1>1, CancelBooks DEF IInv
<1>3. /\ ctl'.inflight = None /\ ctl'.completed = ctl.completed /\ ctl'.settled = ctl.settled
      /\ ctl'.unknown = ctl.unknown \cup InFlight(ctl)
  BY <1>1 DEF Cancellation, IInv, Books, States
<1>4. Grounded(ctl', output)
  BY <1>3, GroundedSame DEF IInv
<1>5. called \subseteq Underway(ctl') \cup ctl'.unknown
  BY <1>3 DEF IInv, Underway
<1> QED
  BY <1>1, <1>2, <1>3, <1>4, <1>5, NewBooks

\* The drive settles what it got.
LEMMA SettleStep ==
  ASSUME IInv, Settle
  PROVE  IInv'
<1>1. /\ ctl' = UsageSettled(ctl, ctl.inflight, output[ctl.inflight], ctl.now + Elapsed(ctl.inflight))
      /\ UNCHANGED <<plan, called, output>> /\ drive = "returned" /\ drive' = "loop"
  BY DEF Settle, Transition, Moves
<1>2. ctl.inflight # None /\ output[ctl.inflight] # None
  BY <1>1 DEF IInv, DriveKnows
<1>3. ctl.now \in Nat /\ ctl.inflight \in Task
  BY <1>2 DEF IInv, Books, States
<1>4. ctl.now + Elapsed(ctl.inflight) \in Nat
  BY <1>3, PlanShape DEF IInv, Elapsed
<1> QED
  BY <1>1, <1>2, <1>4, SettlementStep

\* A worker that failed is charged in full.
LEMMA FailureStep ==
  ASSUME IInv, WorkerFails
  PROVE  IInv'
<1>1. PICK late \in {0, Elapsed(ctl.inflight)} :
        ctl' = UnknownInflight(ctl, ctl.inflight, ctl.now + late)
  BY DEF WorkerFails, Transition
<1>2. UNCHANGED <<plan, called, output>> /\ drive = "working" /\ drive' = "none"
  BY DEF WorkerFails, EndDrive
<1>3. ctl.inflight # None /\ ctl.now \in Nat /\ ctl.inflight \in Task
  BY <1>2 DEF IInv, DriveKnows, Books, States
<1>4. ctl.now + late \in Nat
  BY <1>3, PlanShape DEF IInv, Elapsed
<1> QED
  BY <1>1, <1>2, <1>3, <1>4, UnknownStep

\* What a control event may change of a state before it is reconciled.
Controlled(s, r) ==
  /\ r \in States
  /\ r.settled = s.settled /\ r.unknownUsage = s.unknownUsage
  /\ r.completed = s.completed /\ r.shed = s.shed /\ r.unknown = s.unknown
  /\ r.inflight = s.inflight /\ r.status = s.status
  /\ Fits(r.caps, Envelope) /\ r.now >= s.now
  /\ \A p \in Providers : r.resets[p] = None \/ r.resets[p] = s.resets[p] \/ r.resets[p] >= 1

\* The control events are such changes.
LEMMA ControlForm ==
  ASSUME IInv, Control429 \/ ControlReset \/ ControlCapacity \/ ControlCut
  PROVE  \E r \in States : Controlled(ctl, r) /\ Control(Reconcile(r))
<1>1. /\ ctl \in States /\ Fits(ctl.caps, Envelope)
      /\ ctl.caps \in Usages /\ ctl.now \in Nat
      /\ ctl.resets \in [Providers -> Nat \cup {None}] /\ ctl.closed \in SUBSET Providers
  BY DEF IInv, Books, States
<1>2. ProvidersOfRun \in SUBSET Providers /\ \A at \in Later : at \in Nat /\ at >= ctl.now
  <2>1. plan.provider \in [Task -> Providers] /\ Admitted \in SUBSET Task
    BY PlanShape DEF IInv, Admitted
  <2> QED
    BY <1>1, <2>1, ControllerAssumption DEF Later, ProvidersOfRun
<1>3. CASE Control429
  <2>1. PICK p \in ProvidersOfRun, at \in Later : \E reset \in at + 1..RunDeadline :
          Control(Provider429(ctl, p, at, reset))
    BY <1>3 DEF Control429
  <2>2. PICK reset \in at + 1..RunDeadline : Control(Provider429(ctl, p, at, reset))
    BY <2>1
  <2> DEFINE until == IF ctl.resets[p] = None THEN reset ELSE Max({ctl.resets[p], reset})
             r == [ctl EXCEPT !.now = at, !.resets[p] = until]
  <2>3. reset \in Nat /\ reset >= 1 /\ at \in Nat /\ at >= ctl.now /\ p \in Providers
    BY <1>2, ControllerAssumption
  <2>4. until \in Nat /\ until >= 1
    <3>1. CASE ctl.resets[p] = None
      BY <2>3, <3>1
    <3>2. CASE ctl.resets[p] # None
      <4>1. ctl.resets[p] \in Nat
        BY <1>1, <2>3, <3>2
      <4>2. Max({ctl.resets[p], reset}) \in Nat /\ Max({ctl.resets[p], reset}) >= reset
        BY <2>3, <4>1, LaterOfTwo
      <4> QED
        BY <2>3, <3>2, <4>2
    <3> QED
      BY <3>1, <3>2
  <2>5. Provider429(ctl, p, at, reset) = Reconcile(r)
    BY <1>1 DEF Provider429, States
  <2> HIDE DEF until
  <2>6. Controlled(ctl, r)
    BY <1>1, <2>3, <2>4 DEF States, Controlled
  <2> QED
    BY <2>2, <2>5, <2>6 DEF Controlled
<1>4. CASE ControlReset
  <2>1. PICK p \in ProvidersOfRun, at \in Later : Control(ProviderReset(ctl, p, at))
    BY <1>4 DEF ControlReset
  <2> DEFINE r == [ctl EXCEPT !.now = at, !.resets[p] = None]
  <2>2. at \in Nat /\ at >= ctl.now /\ p \in Providers
    BY <1>2
  <2>3. ProviderReset(ctl, p, at) = Reconcile(r)
    BY DEF ProviderReset
  <2>4. Controlled(ctl, r)
    BY <1>1, <2>2 DEF States, Controlled
  <2> QED
    BY <2>1, <2>3, <2>4 DEF Controlled
<1>5. CASE ControlCapacity
  <2>1. PICK p \in ProvidersOfRun, at \in Later, open \in BOOLEAN :
          Control(ProviderCapacity(ctl, p, at, open))
    BY <1>5 DEF ControlCapacity
  <2> DEFINE closed == IF open THEN ctl.closed \ {p} ELSE ctl.closed \cup {p}
             r == [ctl EXCEPT !.now = at, !.closed = closed]
  <2>2. at \in Nat /\ at >= ctl.now /\ closed \in SUBSET Providers
    BY <1>1, <1>2
  <2>3. ProviderCapacity(ctl, p, at, open) = Reconcile(r)
    BY <1>1 DEF ProviderCapacity, States
  <2> HIDE DEF closed
  <2>4. Controlled(ctl, r)
    BY <1>1, <2>2 DEF States, Controlled
  <2> QED
    BY <2>1, <2>3, <2>4 DEF Controlled
<1>6. CASE ControlCut
  <2>1. PICK caps \in Cuts, at \in Later :
          Fits(caps, ctl.caps) /\ Control(BudgetCut(ctl, caps, at))
    BY <1>6 DEF ControlCut
  <2> DEFINE r == [ctl EXCEPT !.now = at, !.caps = caps]
  <2>2. at \in Nat /\ at >= ctl.now /\ caps \in Usages /\ Fits(caps, Envelope)
    BY <1>1, <1>2, <2>1, FitsTransitive, ControllerAssumption, ServiceAssumption
  <2>3. BudgetCut(ctl, caps, at) = Reconcile(r)
    BY DEF BudgetCut
  <2>4. Controlled(ctl, r)
    BY <1>1, <2>2 DEF States, Controlled
  <2> QED
    BY <2>1, <2>3, <2>4 DEF Controlled
<1> QED
  BY <1>3, <1>4, <1>5, <1>6

\* A control event touches nothing the books are about.
LEMMA ControlStep ==
  ASSUME IInv, NEW next, Control(next), NEW r \in States, next = Reconcile(r),
         r.settled = ctl.settled, r.unknownUsage = ctl.unknownUsage,
         r.completed = ctl.completed, r.shed = ctl.shed, r.unknown = ctl.unknown,
         r.inflight = ctl.inflight, r.status = ctl.status, Fits(r.caps, Envelope)
  PROVE  IInv'
<1>1. /\ ctl' = Reconcile(r) /\ UNCHANGED <<plan, called, output, drive>> /\ LockFree
  BY DEF Control, Transition
<1>2. Books(r) /\ Grounded(r, output)
  BY ControlBooks, GroundedSame DEF IInv
<1>3. called \subseteq Underway(r) \cup r.unknown
  BY DEF IInv, Underway, InFlight
<1> QED
  BY <1>1, <1>2, <1>3, NewReconciled DEF LockFree

\* No control event disturbs the books.
LEMMA ControlsStep ==
  ASSUME IInv, Control429 \/ ControlReset \/ ControlCapacity \/ ControlCut
  PROVE  IInv'
<1>1. PICK r \in States : Controlled(ctl, r) /\ Control(Reconcile(r))
  BY ControlForm
<1> QED
  BY <1>1, ControlStep DEF Controlled

\* A recovery settles or gives up what was in flight.
LEMMA RecoverStep ==
  ASSUME IInv, NEW at \in Later, Recover(at)
  PROVE  IInv'
<1>1. UNCHANGED <<plan, called, output>> /\ drive' = "validating"
  BY DEF Recover
<1>2. CASE UNCHANGED ctl
  BY <1>1, <1>2, QuietStep
<1>3. CASE ctl.inflight # None /\ Transition(Recovery(at))
  <2>1. at \in Nat
    BY ControllerAssumption DEF Later, IInv, Books, States
  <2>2. CASE output[ctl.inflight] # None
    BY <1>1, <1>3, <2>1, <2>2, SettlementStep DEF Transition, Recovery
  <2>3. CASE output[ctl.inflight] = None
    BY <1>1, <1>3, <2>1, <2>3, UnknownStep DEF Transition, Recovery
  <2> QED
    BY <2>2, <2>3
<1> QED
  BY <1>2, <1>3 DEF Recover

\* The first records of a run are in order.
LEMMA InitBooks ==
  ASSUME Init
  PROVE  IInv
<1> DEFINE s == [caps |-> Envelope, settled |-> Zero, unknownUsage |-> Zero,
                 completed |-> {}, shed |-> plan.skipped, unknown |-> {}, inflight |-> None,
                 resets |-> [p \in Providers |-> None], closed |-> {},
                 now |-> 0, status |-> "running"]
<1>1. plan \in Plans /\ ctl = Reconcile(Reconcile(s))
  BY DEF Init, RuntimeStarted, InitialState
<1>2. Envelope \in Usages /\ Zero \in Usages /\ plan.skipped \in SUBSET Task
  BY <1>1, PlanShape, ControllerAssumption DEF Zero, Usages
<1>3. s \in States
  BY <1>2 DEF States, Statuses
<1>4. InFlight(s) = {} /\ Underway(s) = {}
  BY DEF InFlight, Underway
<1>5. /\ s.caps = Envelope /\ s.settled = Zero /\ s.unknownUsage = Zero
      /\ s.completed = {} /\ s.unknown = {} /\ s.inflight = None
  OBVIOUS
<1> HIDE DEF s
<1>6. Committed(s) = Zero
  <2>1. Plus(Zero, Zero) = Zero
    BY <1>2, PlusType
  <2> QED
    BY <1>1, <1>4, <1>5, <2>1, CostEmpty DEF Committed
<1>7. Fits(Zero, Envelope) /\ Fits(Envelope, Envelope)
  BY <1>2 DEF Fits, Zero, Usages
<1>8. Books(s)
  BY <1>1, <1>3, <1>4, <1>5, <1>6, <1>7, CostEmpty DEF Books
<1>9. Books(Reconcile(s)) /\ Reconcile(s).completed = {} /\ Reconcile(s).settled = Zero
  BY <1>1, <1>5, <1>8, ReconcileBooks
<1>10. Books(ctl) /\ ctl.completed = {} /\ ctl.settled = Zero
  BY <1>1, <1>9, ReconcileBooks
<1>11. Grounded(ctl, output)
  <2>1. \A u \in Units : SumFunctionOnSet([t \in Task |-> output[t][u]], {}) = 0
    BY SumEmpty
  <2>2. Zero = [u \in Units |-> SumFunctionOnSet([t \in Task |-> output[t][u]], {})]
    BY <2>1 DEF Zero
  <2>3. output \in [Task -> Usages \cup {None}]
    BY DEF Init
  <2> QED
    BY <1>10, <2>2, <2>3 DEF Grounded
<1>12. called = {} /\ DriveKnows
  BY DEF Init, DriveKnows
<1> QED
  BY <1>1, <1>10, <1>11, <1>12 DEF IInv

-----------------------------------------------------------------------------
(* The books of every run. *)

\* Every step of the service keeps the invariant.
LEMMA Step ==
  ASSUME IInv, [Next]_vars
  PROVE  IInv'
<1>1. CASE UNCHANGED vars
  BY <1>1 DEF vars, durable, volatile, IInv, Books, Grounded, Underway, InFlight, Committed,
     CostOf, DriveKnows
<1>2. CASE \/ PersistRunStart \/ ValidateOutputs \/ ValidationFails \/ PassGate
           \/ Park \/ Wake \/ Finish
  BY <1>2, QuietStep DEF PersistRunStart, ValidateOutputs, ValidationFails, PassGate, Park,
     Wake, Finish, Moves, EndDrive, durable
<1>3. CASE Resume \/ Crash
  BY <1>3, QuietStep DEF Resume, Crash, durable
<1>4. CASE RequestCancel
  BY <1>4 DEF RequestCancel, durable, IInv, Books, Grounded, Underway, InFlight, Committed,
     CostOf, DriveKnows
<1>5. CASE WorkerFails \/ \E actual \in Spent : WorkerReturns(actual)
  BY <1>5, FailureStep, WorkerStep
<1>6. CASE Control429 \/ ControlReset \/ ControlCapacity \/ ControlCut
  BY <1>6, ControlsStep
<1>7. CASE \E at \in Later : Recover(at)
  BY <1>7, RecoverStep
<1>8. CASE Cancel \/ Dispatch \/ StartAttempt \/ Settle
  BY <1>8, CancelStep, DispatchStep, AttemptStep, SettleStep
<1> QED
  BY <1>1, <1>2, <1>3, <1>4, <1>5, <1>6, <1>7, <1>8 DEF Next, Coordinator, Worker, Operator

\* Every reachable state satisfies the inductive invariant.
THEOREM Invariance == Spec => []IInv
<1>1. Init => IInv
  BY InitBooks
<1>2. IInv /\ [Next]_vars => IInv'
  BY Step
<1> QED
  BY <1>1, <1>2, PTL DEF Spec

\* However often an adaptive run dies and is recovered, cut, throttled or
\* cancelled: each call is made once and paid once, by its output or, if its
\* fate is unknown, in full, and all of it within the envelope.
THEOREM CallsArePaid == Spec => []EveryCallIsPaid
<1>1. IInv => EveryCallIsPaid
  BY DEF IInv, EveryCallIsPaid, Books, Grounded, DriveKnows
<1> QED
  BY <1>1, Invariance, PTL

-----------------------------------------------------------------------------
(* Plans *)

\* The closure of a set is the least set with it that is closed.
LEMMA ClosureOf ==
  ASSUME plan \in Plans, NEW S \in SUBSET Task
  PROVE  /\ Closure[plan][S] \in SUBSET Task /\ S \subseteq Closure[plan][S]
         /\ \A x \in Closure[plan][S] : plan.deps[x] \subseteq Closure[plan][S]
         /\ \A C \in SUBSET Task :
              S \subseteq C /\ (\A x \in C : plan.deps[x] \subseteq C) => Closure[plan][S] \subseteq C
<1>1. Closure[plan][S] = {t \in Task : \A C \in SUBSET Task :
        S \subseteq C /\ (\A x \in C : plan.deps[x] \subseteq C) => t \in C}
  BY DEF Closure
<1>2. \A x \in Task : plan.deps[x] \subseteq Task
  BY PlanShape
<1> QED
  BY <1>1, <1>2

\* No task that is protected needs one that is not.
LEMMA ProtectedClosed ==
  ASSUME plan \in Plans
  PROVE  Protected \in SUBSET Task /\ \A x \in Protected : plan.deps[x] \subseteq Protected
<1>1. Task \ plan.optional \in SUBSET Task
  OBVIOUS
<1> QED
  BY <1>1, ClosureOf DEF Protected

\* The task in flight is through at some time.
LEMMA HorizonType ==
  ASSUME plan \in Plans, NEW s \in States
  PROVE  /\ Horizon(s) \in Nat /\ s.now \in Nat
         /\ s.inflight = None => Horizon(s) = s.now
         /\ s.inflight # None => /\ Horizon(s) = s.now + plan.p95[s.inflight]
                                 /\ plan.p95[s.inflight] \in Nat
<1>1. s.now \in Nat /\ s.inflight \in Task \cup {None} /\ None \notin Task
  BY NoneIsNoTask DEF States
<1>2. CASE s.inflight = None
  <2>1. InFlight(s) = {}
    BY <1>2 DEF InFlight
  <2> QED
    BY <1>1, <1>2, <2>1, P95One DEF Horizon
<1>3. CASE s.inflight # None
  <2>1. InFlight(s) = {s.inflight} /\ s.inflight \in Task
    BY <1>1, <1>3 DEF InFlight
  <2>2. P95Of({s.inflight}) = plan.p95[s.inflight] /\ plan.p95[s.inflight] \in Nat
    BY <2>1, P95One
  <2> QED
    BY <1>1, <1>3, <2>1, <2>2 DEF Horizon
<1> QED
  BY <1>2, <1>3

\* The tasks that are still to be started, as far as nothing is shed.
Rest(s) == Task \ (Underway(s) \cup s.shed)

\* What a state is like whatever event comes next: nothing that is under way
\* is shed, and what it needs is done.
Sane(s) ==
  /\ s \in States
  /\ plan.skipped \subseteq s.shed
  /\ s.shed \cap Underway(s) = {}
  /\ s.inflight \notin s.completed
  /\ \A x \in Underway(s) : plan.deps[x] \subseteq s.completed

\* What a reconciled state promises if the run goes on: the mandatory work and
\* every optional task that is not shed fit the deadlines and the budget
\* together, and in dispatch order no such task waits for a later one.
Planned(s) ==
  /\ Protected \cap s.shed = {}
  /\ s.now <= RunDeadline \/ Protected \subseteq s.completed
  /\ \A t \in InFlight(s) : Horizon(s) <= plan.due[t]
  /\ SerialFits(Underway(s), Rest(s), Horizon(s))
  /\ Fits(Plus(Plus(s.settled, s.unknownUsage), CostOf(Task \ (s.completed \cup s.shed))), s.caps)
  /\ \A x \in Candidates(s) :
       plan.deps[x] \subseteq Underway(s) \cup Protected \cup (Candidates(s) \cap 1..x)

\* What remains of a sane state in which nothing mandatory is shed.
LEMMA RestSplits ==
  ASSUME plan \in Plans, NEW s, Sane(s), Protected \cap s.shed = {}
  PROVE  /\ Rest(s) \in SUBSET Task /\ Candidates(s) \in SUBSET Task
         /\ Underway(s) \in SUBSET Task
         /\ Rest(s) = (Protected \ Underway(s)) \cup Candidates(s)
         /\ (Protected \ Underway(s)) \cap Candidates(s) = {}
         /\ Task \ (s.completed \cup s.shed) = InFlight(s) \cup Rest(s)
         /\ InFlight(s) \cap Rest(s) = {} /\ InFlight(s) \in SUBSET Task
<1>1. /\ s.completed \in SUBSET Task /\ InFlight(s) \in SUBSET Task /\ s.shed \in SUBSET Task
      /\ Protected \in SUBSET Task /\ InFlight(s) \cap s.completed = {}
      /\ InFlight(s) \cap s.shed = {}
  BY ProtectedClosed DEF Sane, States, InFlight, Underway
<1>2. Candidates(s) = Task \ (Protected \cup Underway(s) \cup s.shed)
  BY DEF Candidates, Admitted, Sane
<1> QED
  BY <1>1, <1>2 DEF Rest, Underway

\* The budget of a plan, split up as _reconcile does.
LEMMA BudgetSplits ==
  ASSUME plan \in Plans, NEW s, Sane(s), Protected \cap s.shed = {}
  PROVE  /\ Committed(s) \in Usages /\ Mandatory(s) \in Usages
         /\ Plus(Committed(s), Mandatory(s)) \in Usages /\ s.caps \in Usages
         /\ CostOf(Candidates(s)) \in Usages
         /\ Plus(Plus(s.settled, s.unknownUsage), CostOf(Task \ (s.completed \cup s.shed)))
              = Plus(Plus(Committed(s), Mandatory(s)), CostOf(Candidates(s)))
<1> DEFINE spent == Plus(s.settled, s.unknownUsage)
           fl == CostOf(InFlight(s))
           ma == CostOf(Protected \ Underway(s))
           ca == CostOf(Candidates(s))
           all == InFlight(s) \cup Rest(s)
<1>1. spent \in Usages /\ s.caps \in Usages
  BY PlusType DEF Sane, States
<1>2. /\ InFlight(s) \in SUBSET Task /\ Rest(s) \in SUBSET Task
      /\ Protected \ Underway(s) \in SUBSET Task /\ Candidates(s) \in SUBSET Task
      /\ all \in SUBSET Task /\ all = Task \ (s.completed \cup s.shed)
      /\ InFlight(s) \in SUBSET all /\ all \ InFlight(s) = Rest(s)
      /\ Protected \ Underway(s) \in SUBSET Rest(s)
      /\ Rest(s) \ (Protected \ Underway(s)) = Candidates(s)
  BY RestSplits, ProtectedClosed
<1> HIDE DEF all
<1>3. fl \in Usages /\ ma \in Usages /\ ca \in Usages
  BY <1>2, CostType
<1>4. CostOf(all) = Plus(fl, CostOf(Rest(s)))
  BY <1>2, CostSplit
<1>5. CostOf(Rest(s)) = Plus(ma, ca)
  BY <1>2, CostSplit
<1> HIDE DEF spent, fl, ma, ca
<1>6. Plus(spent, fl) \in Usages /\ Plus(Plus(spent, fl), ma) \in Usages /\ Plus(ma, ca) \in Usages
  BY <1>1, <1>3, PlusType
<1>7. Plus(spent, Plus(fl, Plus(ma, ca))) = Plus(Plus(Plus(spent, fl), ma), ca)
  BY <1>1, <1>3, <1>6, PlusOrder
<1>8. Committed(s) = Plus(spent, fl) /\ Mandatory(s) = ma
  BY DEF Committed, Mandatory, spent, fl, ma
<1> QED
  BY <1>1, <1>2, <1>3, <1>4, <1>5, <1>6, <1>7, <1>8 DEF spent, ca

\* The greedy choice can be made, one task after the other.
LEMMA GreedyExists ==
  ASSUME NEW s, Candidates(s) \in SUBSET Task
  PROVE  \E S \in SUBSET Candidates(s) : Greedy(s, S)
<1> DEFINE C == Candidates(s)
           fit(S) == Fitting(s, S)
           choice(n, S) == \A t \in C \cap 1..n : t \in S <=> fit((S \cap 1..t - 1) \cup {t})
           Bad == {n \in 0..N : ~ \E S \in SUBSET (C \cap 1..n) : choice(n, S)}
<1>1. SUFFICES Bad = {}
  <2>1. N \in 0..N /\ C \cap 1..N = C
    BY ControllerAssumption DEF Task
  <2>2. \E S \in SUBSET (C \cap 1..N) : choice(N, S)
    BY <1>1, <2>1
  <2>3. \E S \in SUBSET C : choice(N, S)
    BY <2>1, <2>2
  <2> QED
    BY <2>1, <2>3 DEF Greedy
<1> HIDE DEF C, fit
<1>2. SUFFICES ASSUME Bad # {} PROVE FALSE
  OBVIOUS
<1>3. PICK m \in Bad : \A n \in Bad : m <= n
  <2>1. Bad \in SUBSET Nat
    BY ControllerAssumption
  <2> HIDE DEF Bad
  <2> QED
    BY <1>2, <2>1, LeastNumber
<1>4. m \in 0..N /\ ~ \E S \in SUBSET (C \cap 1..m) : choice(m, S)
  OBVIOUS
<1>5. m # 0
  <2> SUFFICES ASSUME m = 0 PROVE FALSE
    OBVIOUS
  <2>1. C \cap 1..m = {} /\ {} \in SUBSET (C \cap 1..m)
    OBVIOUS
  <2>2. choice(m, {})
    BY <2>1
  <2> QED
    BY <1>4, <2>1, <2>2
<1>6. /\ m - 1 \in 0..N /\ ~ (m <= m - 1) /\ m \in Nat /\ 1..m = (1..m - 1) \cup {m}
      /\ m \notin 1..m - 1
  BY <1>4, <1>5, ControllerAssumption
<1>7. PICK S \in SUBSET (C \cap 1..m - 1) : choice(m - 1, S)
  <2>1. m - 1 \notin Bad
    BY <1>3, <1>6
  <2> QED
    BY <1>6, <2>1
<1> DEFINE T == IF m \in C /\ fit(S \cup {m}) THEN S \cup {m} ELSE S
<1> HIDE DEF Bad
<1>8. T \in SUBSET (C \cap 1..m) /\ (m \in C => (m \in T <=> fit(S \cup {m})))
  BY <1>6, <1>7
<1>9. \A t \in 1..m - 1 : (t \in T <=> t \in S) /\ T \cap 1..t - 1 = S \cap 1..t - 1
  <2> SUFFICES ASSUME NEW t \in 1..m - 1
               PROVE  (t \in T <=> t \in S) /\ T \cap 1..t - 1 = S \cap 1..t - 1
    OBVIOUS
  <2>1. t # m /\ m \notin 1..t - 1
    BY <1>6
  <2>2. T \subseteq S \cup {m} /\ S \subseteq T
    OBVIOUS
  <2> HIDE DEF T
  <2> QED
    BY <2>1, <2>2
<1>10. T \cap 1..m - 1 = S
  <2>1. T \subseteq S \cup {m} /\ S \subseteq T /\ S \subseteq 1..m - 1
    BY <1>7
  <2> HIDE DEF T
  <2> QED
    BY <1>6, <2>1
<1> HIDE DEF T
<1>11. ASSUME NEW t \in C \cap 1..m PROVE t \in T <=> fit((T \cap 1..t - 1) \cup {t})
  <2>1. CASE t = m
    BY <1>8, <1>10, <2>1
  <2>2. CASE t # m
    <3>1. t \in C \cap 1..m - 1
      BY <1>6, <2>2
    <3>2. t \in S <=> fit((S \cap 1..t - 1) \cup {t})
      BY <1>7, <3>1
    <3> QED
      BY <1>9, <3>1, <3>2
  <2> QED
    BY <2>1, <2>2
<1>12. choice(m, T)
  BY <1>11
<1> QED
  BY <1>4, <1>8, <1>12

\* What is kept is of a greedy choice what needs nothing that is dropped.
LEMMA KeptOf ==
  ASSUME NEW s, Candidates(s) \in SUBSET Task
  PROVE  \E S \in SUBSET Candidates(s) :
           /\ Greedy(s, S)
           /\ Kept(s) = {t \in S : Closure[plan][{t}] \cap (s.shed \cup (Candidates(s) \ S)) = {}}
<1> DEFINE S == CHOOSE S \in SUBSET Candidates(s) : Greedy(s, S)
<1>1. S \in SUBSET Candidates(s) /\ Greedy(s, S)
  BY GreedyExists
<1>2. Kept(s) = {t \in S : Closure[plan][{t}] \cap (s.shed \cup (Candidates(s) \ S)) = {}}
  BY DEF Kept
<1> QED
  BY <1>1, <1>2

\* In dispatch order: a set of tasks is one of its own with those before it,
\* and all of it if that one is its last.
LEMMA LastOfTasks ==
  ASSUME NEW S \in SUBSET Task, S # {}
  PROVE  \E x \in S : S = (S \cap 1..x - 1) \cup {x}
<1> DEFINE Above == {n \in 0..N : S \subseteq 1..n}
<1>1. N \in Above /\ Above \in SUBSET Nat
  BY ControllerAssumption DEF Task
<1>2. PICK m \in Above : \A n \in Above : m <= n
  <2> HIDE DEF Above
  <2> QED
    BY <1>1, LeastNumber
<1>3. m \in Nat /\ m <= N /\ S \subseteq 1..m
  BY <1>2, ControllerAssumption
<1>4. m \in S
  <2> SUFFICES ASSUME m \notin S PROVE FALSE
    OBVIOUS
  <2>1. m # 0
    <3>1. 1..0 = {}
      OBVIOUS
    <3> HIDE DEF Above
    <3> QED
      BY <1>3, <3>1
  <2>2. m - 1 \in 0..N /\ S \subseteq 1..m - 1 /\ ~ (m <= m - 1)
    <3>1. m - 1 \in 0..N /\ ~ (m <= m - 1)
      BY <1>3, <2>1, ControllerAssumption
    <3>2. \A x \in 1..m : x # m => x \in 1..m - 1
      BY <1>3
    <3> QED
      BY <1>3, <3>1, <3>2
  <2> QED
    BY <1>2, <2>2
<1>5. S = (S \cap 1..m - 1) \cup {m}
  <2>1. \A x \in 1..m : x # m => x \in 1..m - 1
    BY <1>3
  <2> QED
    BY <1>3, <1>4, <2>1
<1> QED
  BY <1>4, <1>5

\* Reconciling a state whose plan stands changes nothing but that the run may
\* be complete: the greedy choice is all of what is wanted.
LEMMA PlanStands ==
  ASSUME plan \in Plans, NEW s, Sane(s), Planned(s), s.status = "running"
  PROVE  Reconcile(s) = [s EXCEPT !.status =
              IF /\ InFlight(s) = {} /\ Task \subseteq s.completed \cup s.shed
                 /\ Protected \subseteq s.completed
              THEN "completed" ELSE "running"]
<1> DEFINE C == Candidates(s)
           U == Underway(s)
           P == Protected \ Underway(s)
           due == Plus(Committed(s), Mandatory(s))
<1>1. /\ Rest(s) \in SUBSET Task /\ C \in SUBSET Task /\ U \in SUBSET Task
      /\ Rest(s) = P \cup C /\ P \cap C = {} /\ P \in SUBSET Task
      /\ C \cap U = {} /\ InFlight(s) \in SUBSET Task
  BY RestSplits, ProtectedClosed DEF Planned, Candidates
<1>2. /\ due \in Usages /\ s.caps \in Usages /\ CostOf(C) \in Usages
      /\ Fits(Plus(due, CostOf(C)), s.caps)
  BY BudgetSplits DEF Planned
<1>3. Horizon(s) \in Nat
  BY HorizonType DEF Sane
<1>4. /\ \A x \in U : plan.deps[x] \subseteq U
      /\ \A x \in P : plan.deps[x] \subseteq P \cup U
      /\ \A x \in C : plan.deps[x] \subseteq U \cup P \cup (C \cap 1..x)
  BY ProtectedClosed DEF Sane, Planned, Underway
<1>5. ~Hopeless(s)
  <2>1. s.now \in Nat /\ RunDeadline \in Nat /\ \A t \in InFlight(s) : plan.due[t] \in Nat
    BY <1>1, PlanShape, ControllerAssumption DEF Sane, States, Time
  <2>2. /\ Protected \cap s.shed = {}
        /\ s.now <= RunDeadline \/ Protected \subseteq s.completed
        /\ \A t \in InFlight(s) : Horizon(s) <= plan.due[t]
    BY DEF Planned
  <2>3. ~ (s.now > RunDeadline /\ ~ (Protected \subseteq s.completed))
    BY <2>1, <2>2
  <2>4. ~ \E t \in InFlight(s) : Horizon(s) > plan.due[t]
    BY <1>3, <2>1, <2>2
  <2> QED
    BY <2>2, <2>3, <2>4 DEF Hopeless
<1>6. SerialFits(U, P \cup C, Horizon(s))
  BY <1>1 DEF Planned
<1> HIDE DEF C, U, P, due
<1>7. ASSUME NEW B \in SUBSET C, \A x \in B : plan.deps[x] \subseteq U \cup P \cup B
      PROVE  SerialFits(U, P \cup B, Horizon(s)) /\ Fits(CostOf(B), Minus(s.caps, due))
  <2>1. SerialFits(U, P \cup B, Horizon(s))
    <3> DEFINE R == P \cup B
               S == P \cup C
    <3>1. S \in SUBSET Task /\ R \in SUBSET S
      BY <1>1
    <3>2. \A x \in R \ U : plan.deps[x] \cap (S \ U) \subseteq R
      BY <1>4, <1>7
    <3> HIDE DEF R, S
    <3>3. SerialFits(U, R, Horizon(s))
      BY <1>3, <1>6, <3>1, <3>2, SerialFewer DEF S
    <3> QED
      BY <3>3 DEF R
  <2>2. CostOf(B) \in Usages /\ Fits(CostOf(B), CostOf(C))
    BY <1>1, CostType, CostMonotone
  <2>3. ASSUME NEW u \in Units PROVE CostOf(B)[u] <= s.caps[u] - due[u]
    <3>1. /\ CostOf(B)[u] \in Nat /\ CostOf(C)[u] \in Nat /\ due[u] \in Nat /\ s.caps[u] \in Nat
      BY <1>2, <2>2 DEF Usages
    <3>2. CostOf(B)[u] <= CostOf(C)[u] /\ due[u] + CostOf(C)[u] <= s.caps[u]
      BY <1>2, <2>2 DEF Fits, Plus
    <3> QED
      BY <3>1, <3>2
  <2> QED
    BY <2>1, <2>3 DEF Fits, Minus
<1>8. ~Unschedulable(s)
  <2>1. SerialFits(U, P \cup {}, Horizon(s))
    BY <1>7
  <2>2. P \cup {} = P
    OBVIOUS
  <2> QED
    BY <2>1, <2>2 DEF Unschedulable, U, P
<1>9. ~Unaffordable(s)
  <2>1. \A u \in Units : due[u] <= s.caps[u]
    <3> SUFFICES ASSUME NEW u \in Units PROVE due[u] <= s.caps[u]
      OBVIOUS
    <3>1. CostOf(C)[u] \in Nat /\ due[u] \in Nat /\ s.caps[u] \in Nat
      BY <1>2 DEF Usages
    <3>2. due[u] + CostOf(C)[u] <= s.caps[u]
      BY <1>2 DEF Fits, Plus
    <3> QED
      BY <3>1, <3>2
  <2> QED
    BY <2>1 DEF Unaffordable, Fits, due
<1>10. ASSUME NEW x \in C PROVE Fitting(s, (C \cap 1..x - 1) \cup {x})
  <2> DEFINE B == (C \cap 1..x - 1) \cup {x}
  <2>1. x \in Nat /\ x >= 1
    BY <1>1, ControllerAssumption DEF Task
  <2>2. \A y \in 1..x : y \in 1..x - 1 \/ y = x
    BY <2>1
  <2>3. \A y \in 1..x - 1 : 1..y \subseteq 1..x - 1
    BY <2>1
  <2>4. B \in SUBSET C
    OBVIOUS
  <2>5. \A y \in B : plan.deps[y] \subseteq U \cup P \cup B
    BY <1>4, <2>2, <2>3
  <2> HIDE DEF B
  <2>6. SerialFits(U, P \cup B, Horizon(s)) /\ Fits(CostOf(B), Minus(s.caps, due))
    BY <1>7, <2>4, <2>5
  <2> QED
    BY <2>6 DEF Fitting, U, P, due, B
<1>11. ASSUME NEW S \in SUBSET C, Greedy(s, S) PROVE S = C
  <2> SUFFICES ASSUME C \ S # {} PROVE FALSE
    OBVIOUS
  <2>1. C \ S \in SUBSET Nat
    BY <1>1, ControllerAssumption DEF Task
  <2>2. PICK x \in C \ S : \A y \in C \ S : x <= y
    BY <2>1, LeastNumber
  <2>3. x \in Nat
    BY <2>1
  <2>4. S \cap 1..x - 1 = C \cap 1..x - 1
    <3>1. \A y \in 1..x - 1 : ~ (x <= y)
      BY <2>3
    <3> QED
      BY <2>2, <3>1
  <2>5. Fitting(s, (S \cap 1..x - 1) \cup {x})
    BY <1>10, <2>4
  <2> QED
    BY <1>11, <2>5 DEF Greedy, C
<1>12. Kept(s) = C
  <2>1. PICK S \in SUBSET C :
          /\ Greedy(s, S)
          /\ Kept(s) = {t \in S : Closure[plan][{t}] \cap (s.shed \cup (C \ S)) = {}}
    BY <1>1, KeptOf DEF C
  <2>2. S = C
    BY <1>11, <2>1
  <2>3. Kept(s) = {t \in C : Closure[plan][{t}] \cap s.shed = {}}
    BY <2>1, <2>2
  <2>4. ASSUME NEW t \in C PROVE Closure[plan][{t}] \cap s.shed = {}
    <3> DEFINE L == U \cup P \cup C
    <3>1. L \in SUBSET Task /\ {t} \subseteq L /\ {t} \in SUBSET Task
      BY <1>1
    <3>2. \A x \in L : plan.deps[x] \subseteq L
      BY <1>4
    <3>3. L \cap s.shed = {}
      BY DEF U, P, C, Sane, Planned, Candidates
    <3> HIDE DEF L
    <3>4. Closure[plan][{t}] \subseteq L
      BY <3>1, <3>2, ClosureOf
    <3> QED
      BY <3>3, <3>4
  <2> QED
    BY <2>3, <2>4
<1>13. s.shed \cup (Candidates(s) \ Kept(s)) = s.shed
  BY <1>12 DEF C
<1> DEFINE status == IF /\ InFlight(s) = {} /\ Task \subseteq s.completed \cup s.shed
                        /\ Protected \subseteq s.completed
                     THEN "completed" ELSE s.status
<1>14. Reconcile(s) = [s EXCEPT !.shed = s.shed, !.status = status]
  BY <1>5, <1>8, <1>9, <1>13 DEF Reconcile
<1>15. [s EXCEPT !.shed = s.shed, !.status = status] = [s EXCEPT !.status = status]
  BY DEF Sane, States
<1> QED
  BY <1>14, <1>15

\* A run that goes on when it is reconciled was not refused.
LEMMA RunsOn ==
  ASSUME NEW s \in States, Reconcile(s).status = "running"
  PROVE  /\ ~Hopeless(s) /\ ~Unschedulable(s) /\ ~Unaffordable(s) /\ s.status = "running"
         /\ Reconcile(s) = [s EXCEPT !.shed = s.shed \cup (Candidates(s) \ Kept(s))]
         /\ ~ (/\ InFlight(s) = {} /\ Protected \subseteq s.completed
               /\ Task \subseteq s.completed \cup (s.shed \cup (Candidates(s) \ Kept(s))))
<1> DEFINE shed == s.shed \cup (Candidates(s) \ Kept(s))
           ends == /\ InFlight(s) = {} /\ Task \subseteq s.completed \cup shed
                   /\ Protected \subseteq s.completed
<1>1. s.status # "cancelled"
  BY DEF Reconcile, States
<1>2. ~Hopeless(s)
  BY <1>1 DEF Reconcile, States
<1>3. ~Unschedulable(s)
  BY <1>1, <1>2 DEF Reconcile, States
<1>4. ~Unaffordable(s)
  BY <1>1, <1>2, <1>3 DEF Reconcile, States
<1>5. Reconcile(s) = [s EXCEPT !.shed = shed, !.status = IF ends THEN "completed" ELSE s.status]
  BY <1>1, <1>2, <1>3, <1>4 DEF Reconcile
<1> HIDE DEF shed, ends
<1>6. ~ends /\ s.status = "running"
  BY <1>5 DEF States
<1>7. Reconcile(s) = [s EXCEPT !.shed = shed]
  BY <1>5, <1>6 DEF States
<1> QED
  BY <1>2, <1>3, <1>4, <1>6, <1>7 DEF shed, ends

\* Whatever happened, a run that goes on has a plan that stands, and work to do.
LEMMA NewPlan ==
  ASSUME plan \in Plans, NEW s, Sane(s), Reconcile(s).status = "running"
  PROVE  LET r == Reconcile(s)
         IN Sane(r) /\ Planned(r) /\ (r.inflight = None => Rest(r) # {})
<1> DEFINE C == Candidates(s)
           U == Underway(s)
           P == Protected \ Underway(s)
           K == Kept(s)
           r == [s EXCEPT !.shed = s.shed \cup (C \ K)]
<1>1. /\ s \in States /\ ~Hopeless(s) /\ ~Unschedulable(s) /\ ~Unaffordable(s)
      /\ Reconcile(s) = r
      /\ ~ (/\ InFlight(s) = {} /\ Protected \subseteq s.completed
            /\ Task \subseteq s.completed \cup (s.shed \cup (C \ K)))
  BY RunsOn DEF Sane
<1>2. Protected \cap s.shed = {}
  BY <1>1 DEF Hopeless
<1>3. /\ C \in SUBSET Task /\ U \in SUBSET Task /\ P \in SUBSET Task /\ P \cap C = {}
      /\ C \cap U = {} /\ C \cap Protected = {} /\ InFlight(s) \in SUBSET Task
      /\ C = Task \ (Protected \cup U \cup s.shed) /\ Protected \in SUBSET Task
      /\ s.shed \in SUBSET Task
  BY <1>2, RestSplits, ProtectedClosed DEF Candidates, Admitted, Sane, States
<1>4. PICK S \in SUBSET C :
        /\ Greedy(s, S)
        /\ K = {t \in S : Closure[plan][{t}] \cap (s.shed \cup (C \ S)) = {}}
  BY <1>3, KeptOf
<1>5. ASSUME NEW x \in K, NEW y \in plan.deps[x] \cap S PROVE y \in K
  <2>1. x \in Task /\ y \in Task /\ {x} \in SUBSET Task /\ {y} \in SUBSET Task
    BY <1>3, <1>4
  <2>2. Closure[plan][{y}] \subseteq Closure[plan][{x}]
    <3> DEFINE D == Closure[plan][{x}]
    <3>1. D \in SUBSET Task /\ x \in D /\ \A z \in D : plan.deps[z] \subseteq D
      BY <2>1, ClosureOf
    <3> HIDE DEF D
    <3>2. {y} \subseteq D
      BY <3>1
    <3>3. Closure[plan][{y}] \subseteq D
      BY <2>1, <3>1, <3>2, ClosureOf
    <3> QED
      BY <3>3 DEF D
  <2> QED
    BY <1>4, <2>2
<1>6. /\ r \in States /\ r.completed = s.completed /\ r.inflight = s.inflight /\ r.now = s.now
      /\ r.settled = s.settled /\ r.unknownUsage = s.unknownUsage /\ r.caps = s.caps
      /\ r.status = s.status /\ r.shed = s.shed \cup (C \ K)
  BY <1>1, <1>3 DEF States
<1> HIDE DEF C, U, P, K, r
<1>7. /\ InFlight(r) = InFlight(s) /\ Underway(r) = U /\ Horizon(r) = Horizon(s)
      /\ K \in SUBSET S /\ K \in SUBSET C
  BY <1>4, <1>6 DEF InFlight, Underway, Horizon, U
<1>8. Sane(r)
  BY <1>3, <1>6, <1>7 DEF Sane, U
<1>9. Protected \cap r.shed = {}
  BY <1>2, <1>3, <1>6
<1>10. Candidates(r) = K /\ Rest(r) = P \cup K
  <2>1. Candidates(r) = Task \ (Protected \cup U \cup r.shed)
    BY <1>7, <1>8 DEF Candidates, Admitted, Sane
  <2>2. Candidates(r) = K
    BY <1>3, <1>6, <1>7, <2>1
  <2> QED
    BY <1>7, <1>8, <1>9, <2>2, RestSplits DEF P, U
<1>11. Horizon(s) \in Nat /\ s.now \in Nat
  BY <1>1, HorizonType
<1>12. SerialFits(U, P \cup S, Horizon(s)) /\ Fits(Plus(Plus(Committed(s), Mandatory(s)), CostOf(S)), s.caps)
  <2> DEFINE due == Plus(Committed(s), Mandatory(s))
  <2>1. due \in Usages /\ s.caps \in Usages
    BY <1>2, BudgetSplits
  <2>2. CASE S = {}
    <3>1. SerialFits(U, P, Horizon(s)) /\ Fits(due, s.caps)
      BY <1>1 DEF Unschedulable, Unaffordable, U, P
    <3> HIDE DEF due
    <3>2. P \cup S = P /\ CostOf(S) = Zero /\ Plus(due, Zero) = due
      BY <2>1, <2>2, CostEmpty, PlusType
    <3> QED
      BY <3>1, <3>2 DEF due
  <2>3. CASE S # {}
    <3>1. S \in SUBSET Task
      BY <1>3
    <3>2. PICK x \in S : S = (S \cap 1..x - 1) \cup {x}
      BY <2>3, <3>1, LastOfTasks
    <3>3. Fitting(s, (S \cap 1..x - 1) \cup {x})
      BY <1>4, <3>2 DEF Greedy, C
    <3>4. Fitting(s, S)
      BY <3>2, <3>3
    <3>5. SerialFits(U, P \cup S, Horizon(s)) /\ Fits(CostOf(S), Minus(s.caps, due))
      BY <3>4 DEF Fitting, U, P
    <3>6. CostOf(S) \in Usages
      BY <3>1, CostType
    <3> HIDE DEF due
    <3>7. \A u \in Units : due[u] + CostOf(S)[u] <= s.caps[u]
      <4> SUFFICES ASSUME NEW u \in Units PROVE due[u] + CostOf(S)[u] <= s.caps[u]
        OBVIOUS
      <4>1. CostOf(S)[u] \in Nat /\ due[u] \in Nat /\ s.caps[u] \in Nat
        BY <2>1, <3>6 DEF Usages
      <4>2. CostOf(S)[u] <= s.caps[u] - due[u]
        BY <3>5 DEF Fits, Minus
      <4> QED
        BY <4>1, <4>2
    <3> QED
      BY <3>5, <3>7 DEF Fits, Plus, due
  <2> QED
    BY <2>2, <2>3
<1>13. SerialFits(Underway(r), Rest(r), Horizon(r))
  <2> DEFINE all == P \cup S
             part == P \cup K
  <2>1. all \in SUBSET Task /\ part \in SUBSET all
    BY <1>3, <1>7
  <2>2. \A x \in part \ U : plan.deps[x] \cap (all \ U) \subseteq part
    <3> SUFFICES ASSUME NEW x \in part \ U, NEW y \in plan.deps[x], y \in all, y \notin U
                 PROVE  y \in part
      OBVIOUS
    <3>1. CASE x \in P
      <4>1. y \in Protected
        BY <3>1, ProtectedClosed DEF P
      <4> QED
        BY <4>1 DEF P, U
    <3>2. CASE x \in K
      BY <1>5, <3>2
    <3> QED
      BY <3>1, <3>2
  <2> HIDE DEF all, part
  <2>3. SerialFits(U, part, Horizon(s))
    BY <1>11, <1>12, <2>1, <2>2, SerialFewer DEF all
  <2> QED
    BY <1>7, <1>10, <2>3 DEF part
<1>14. Fits(Plus(Plus(r.settled, r.unknownUsage), CostOf(Task \ (r.completed \cup r.shed))), r.caps)
  <2> DEFINE due == Plus(Committed(s), Mandatory(s))
  <2>1. due \in Usages /\ s.caps \in Usages
    BY <1>2, BudgetSplits
  <2>2. Committed(r) = Committed(s) /\ Mandatory(r) = Mandatory(s)
    BY <1>6, <1>7 DEF Committed, Mandatory, U
  <2>3. Plus(Plus(r.settled, r.unknownUsage), CostOf(Task \ (r.completed \cup r.shed)))
          = Plus(due, CostOf(K))
    BY <1>8, <1>9, <1>10, <2>2, BudgetSplits
  <2> HIDE DEF due
  <2>4. CostOf(K) \in Usages /\ CostOf(S) \in Usages /\ Fits(CostOf(K), CostOf(S))
    <3>1. S \in SUBSET Task /\ K \in SUBSET Task
      BY <1>3, <1>7
    <3> QED
      BY <1>7, <3>1, CostType, CostMonotone
  <2>5. /\ Fits(Plus(due, CostOf(K)), Plus(due, CostOf(S)))
        /\ Plus(due, CostOf(K)) \in Usages /\ Plus(due, CostOf(S)) \in Usages
    BY <2>1, <2>4, PlusMonotone, PlusType
  <2>6. Fits(Plus(due, CostOf(S)), s.caps)
    BY <1>12 DEF due
  <2>7. Fits(Plus(due, CostOf(K)), s.caps)
    BY <2>1, <2>5, <2>6, FitsTransitive
  <2> QED
    BY <1>6, <2>3, <2>7
<1>15. ASSUME NEW x \in K PROVE plan.deps[x] \subseteq U \cup Protected \cup (K \cap 1..x)
  <2> DEFINE B == (S \cap 1..x - 1) \cup {x}
             all == P \cup B
  <2>1. Fitting(s, B)
    BY <1>4, <1>7 DEF Greedy, C
  <2>2. SerialFits(U, all, Horizon(s))
    BY <2>1 DEF Fitting, U, P
  <2>3. all \in SUBSET Task /\ x \in all \ U
    BY <1>3, <1>7
  <2>4. plan.deps[x] \subseteq U \cup all
    <3> HIDE DEF all
    <3> QED
      BY <2>2, <2>3, SerialGrounded
  <2>5. plan.deps[x] \cap S \subseteq K
    BY <1>5
  <2>6. x \in Nat /\ 1..x - 1 \subseteq 1..x /\ x \in 1..x
    BY <2>3, ControllerAssumption DEF Task
  <2>7. B \subseteq S /\ B \subseteq 1..x
    BY <1>7, <2>6
  <2> HIDE DEF B
  <2> QED
    BY <2>4, <2>5, <2>7 DEF P
<1>16. r.now <= RunDeadline \/ Protected \subseteq r.completed
  <2>1. ~ (s.now > RunDeadline /\ ~ (Protected \subseteq s.completed))
    BY <1>1 DEF Hopeless
  <2> QED
    BY <1>6, <1>11, <2>1, ControllerAssumption
<1>17. \A t \in InFlight(r) : Horizon(r) <= plan.due[t]
  <2> SUFFICES ASSUME NEW t \in InFlight(s) PROVE Horizon(s) <= plan.due[t]
    BY <1>7
  <2>1. ~ (Horizon(s) > plan.due[t])
    BY <1>1 DEF Hopeless
  <2>2. plan.due[t] \in Nat
    BY <1>3, PlanShape, ControllerAssumption DEF Time
  <2> QED
    BY <1>11, <2>1, <2>2
<1>18. Planned(r)
  BY <1>7, <1>9, <1>10, <1>13, <1>14, <1>15, <1>16, <1>17 DEF Planned
<1>19. r.inflight = None => Rest(r) # {}
  <2> SUFFICES ASSUME r.inflight = None, Rest(r) = {} PROVE FALSE
    OBVIOUS
  <2>1. InFlight(s) = {} /\ U = s.completed
    BY <1>6, <1>7 DEF InFlight, U, Underway
  <2>2. Task \subseteq s.completed \cup (s.shed \cup (C \ K))
    BY <1>6, <1>7, <2>1 DEF Rest
  <2>3. Protected \subseteq s.completed
    BY <1>3, <1>6, <1>9, <2>2
  <2> QED
    BY <1>1, <2>1, <2>2, <2>3 DEF C, K
<1> QED
  BY <1>1, <1>8, <1>18, <1>19 DEF r, C, K

-----------------------------------------------------------------------------
(* Events and plans *)

\* A dispatch leaves the plan as it stands: that the rest still fits was
\* checked before it.
LEMMA DispatchStands ==
  ASSUME plan \in Plans, NEW s, Sane(s), Planned(s), NEW t \in Eligible(s, s.now)
  PROVE  LET r == [s EXCEPT !.inflight = t]
         IN Sane(r) /\ Planned(r) /\ Reconcile(r) = r /\ r.inflight = t /\ t \in Task
<1> DEFINE r == [s EXCEPT !.inflight = t]
           rest == Admitted \ (s.completed \cup s.shed \cup {t})
           later == s.now + plan.p95[t]
<1>1. /\ s \in States /\ s.status = "running" /\ s.inflight = None /\ t \in Task /\ t # None
      /\ t \notin s.completed /\ t \notin s.shed /\ Dispatchable(s, t, s.now)
      /\ plan.skipped \subseteq s.shed
  BY NoneIsNoTask DEF Eligible, Admitted, Sane
<1>2. /\ r \in States /\ r.completed = s.completed /\ r.inflight = t /\ r.now = s.now
      /\ r.settled = s.settled /\ r.unknownUsage = s.unknownUsage /\ r.caps = s.caps
      /\ r.status = s.status /\ r.shed = s.shed
  BY <1>1 DEF States
<1>3. /\ plan.deps[t] \subseteq s.completed /\ later <= plan.due[t]
      /\ Fits(Plus(Plus(s.settled, s.unknownUsage), CostOf({t} \cup (Protected \ s.completed))), s.caps)
      /\ SerialFits(s.completed \cup {t}, rest, later)
  BY <1>1 DEF Dispatchable
<1>4. /\ InFlight(s) = {} /\ Underway(s) = s.completed /\ InFlight(r) = {t}
      /\ Underway(r) = s.completed \cup {t}
  BY <1>1, <1>2 DEF InFlight, Underway
<1>5. Horizon(r) = later /\ later \in Nat
  <2>1. Horizon(r) = r.now + plan.p95[t] /\ Horizon(r) \in Nat
    BY <1>1, <1>2, HorizonType
  <2> QED
    BY <1>2, <2>1
<1> HIDE DEF r, later
<1>6. Sane(r)
  BY <1>1, <1>2, <1>3, <1>4 DEF Sane
<1>7. Rest(r) = rest
  BY <1>1, <1>2, <1>4 DEF Rest, Admitted
<1>8. Candidates(r) = Candidates(s) \ {t}
  BY <1>2, <1>4 DEF Candidates
<1>9. SerialFits(Underway(r), Rest(r), Horizon(r))
  BY <1>3, <1>4, <1>5, <1>7
<1>10. \A x \in Candidates(r) :
         plan.deps[x] \subseteq Underway(r) \cup Protected \cup (Candidates(r) \cap 1..x)
  BY <1>4, <1>8 DEF Planned
<1>11. \A x \in InFlight(r) : Horizon(r) <= plan.due[x]
  BY <1>3, <1>4, <1>5
<1>12. Planned(r)
  BY <1>2, <1>9, <1>10, <1>11 DEF Planned
<1>13. Reconcile(r) = [r EXCEPT !.status = "running"]
  BY <1>1, <1>2, <1>4, <1>6, <1>12, PlanStands
<1>14. [r EXCEPT !.status = "running"] = r
  BY <1>1, <1>2 DEF States
<1> QED
  BY <1>1, <1>2, <1>6, <1>12, <1>13, <1>14 DEF r

\* A settlement leaves the plan as it stands: the call took no longer and cost
\* no more than it was allowed for.
LEMMA SettleStands ==
  ASSUME plan \in Plans, NEW s, Sane(s), Planned(s), s.status = "running", s.inflight # None,
         NEW actual \in Usages, Fits(actual, plan.cost[s.inflight]),
         NEW at \in Nat, at <= Horizon(s)
  PROVE  LET t == s.inflight
             r == [s EXCEPT !.now = at, !.inflight = None, !.completed = @ \cup {t},
                            !.settled = Plus(@, actual)]
         IN /\ Sane(r) /\ Planned(r)
            /\ Reconcile(r).shed = s.shed /\ Reconcile(r).status \in {"running", "completed"}
<1> DEFINE t == s.inflight
           r == [s EXCEPT !.now = at, !.inflight = None, !.completed = @ \cup {t},
                          !.settled = Plus(@, actual)]
<1>1. /\ s \in States /\ t \in Task /\ None \notin Task /\ t # None
      /\ s.completed \in SUBSET Task /\ s.shed \in SUBSET Task
      /\ s.settled \in Usages /\ s.unknownUsage \in Usages /\ s.caps \in Usages
      /\ t \notin s.completed /\ Protected \cap s.shed = {}
  BY NoneIsNoTask DEF Sane, Planned, States
<1>2. Plus(s.settled, actual) \in Usages
  BY <1>1, PlusType
<1>3. /\ r \in States /\ r.completed = s.completed \cup {t} /\ r.inflight = None /\ r.now = at
      /\ r.settled = Plus(s.settled, actual) /\ r.unknownUsage = s.unknownUsage
      /\ r.caps = s.caps /\ r.status = s.status /\ r.shed = s.shed
  BY <1>1, <1>2 DEF States
<1> HIDE DEF r, t
<1>4. /\ InFlight(s) = {t} /\ InFlight(r) = {} /\ Underway(s) = s.completed \cup {t}
      /\ Underway(r) = Underway(s)
  BY <1>1, <1>3 DEF InFlight, Underway, t
<1>5. /\ Horizon(r) = at /\ Horizon(s) \in Nat /\ Horizon(s) <= plan.due[t]
      /\ plan.due[t] \in Nat /\ plan.due[t] <= RunDeadline
  <2>1. plan.due[t] \in Time
    BY <1>1, PlanShape
  <2> QED
    BY <1>1, <1>3, <1>4, <2>1, HorizonType, ControllerAssumption DEF Planned, Time
<1>6. Sane(r)
  <2>1. t \notin s.shed /\ \A x \in s.completed \cup {t} : plan.deps[x] \subseteq s.completed
    BY <1>4 DEF Sane
  <2> QED
    BY <1>1, <1>3, <1>4, <2>1 DEF Sane
<1>7. Rest(r) = Rest(s) /\ Candidates(r) = Candidates(s)
  BY <1>3, <1>4 DEF Rest, Candidates
<1>8. SerialFits(Underway(r), Rest(r), Horizon(r))
  <2>1. Rest(s) \in SUBSET Task
    BY DEF Rest
  <2>2. SerialFits(Underway(s), Rest(s), Horizon(s))
    BY DEF Planned
  <2>3. SerialFits(Underway(s), Rest(s), at)
    BY <1>5, <2>1, <2>2, SerialEarlier
  <2> QED
    BY <1>4, <1>5, <1>7, <2>3
<1>9. Fits(Plus(Plus(r.settled, r.unknownUsage), CostOf(Task \ (r.completed \cup r.shed))), r.caps)
  <2> DEFINE spent == Plus(s.settled, s.unknownUsage)
             left == CostOf(Rest(s))
             cost == plan.cost[t]
  <2>1. spent \in Usages /\ cost \in Usages /\ left \in Usages
    <3>1. Rest(s) \in SUBSET Task
      BY DEF Rest
    <3> QED
      BY <1>1, <3>1, PlusType, PlanShape, CostType
  <2>2. CostOf(Task \ (s.completed \cup s.shed)) = Plus(cost, left)
    <3> DEFINE all == Task \ (s.completed \cup s.shed)
    <3>1. all \in SUBSET Task /\ {t} \in SUBSET all /\ all \ {t} = Rest(s)
      BY <1>1, <1>4 DEF Rest, Sane
    <3> HIDE DEF all
    <3>2. CostOf(all) = Plus(CostOf({t}), CostOf(Rest(s)))
      BY <3>1, CostSplit
    <3> QED
      BY <1>1, <3>2, CostOne DEF all
  <2>3. CostOf(Task \ (r.completed \cup r.shed)) = left
    <3>1. Task \ (r.completed \cup r.shed) = Rest(s)
      BY <1>3, <1>4 DEF Rest
    <3> QED
      BY <3>1
  <2>4. Fits(Plus(spent, Plus(cost, left)), s.caps)
    BY <2>2 DEF Planned
  <2> HIDE DEF left
  <2>5. ASSUME NEW u \in Units
        PROVE  Plus(Plus(r.settled, r.unknownUsage), left)[u] <= s.caps[u]
    <3>1. /\ s.settled[u] \in Nat /\ s.unknownUsage[u] \in Nat /\ actual[u] \in Nat
          /\ left[u] \in Nat /\ cost[u] \in Nat /\ s.caps[u] \in Nat
      BY <1>1, <2>1 DEF Usages
    <3>2. /\ actual[u] <= cost[u]
          /\ (s.settled[u] + s.unknownUsage[u]) + (cost[u] + left[u]) <= s.caps[u]
      BY <2>4 DEF Fits, Plus, t
    <3> HIDE DEF cost
    <3>3. ((s.settled[u] + actual[u]) + s.unknownUsage[u]) + left[u] <= s.caps[u]
      BY <3>1, <3>2
    <3> QED
      BY <1>3, <3>3 DEF Plus
  <2> QED
    BY <1>3, <2>3, <2>5 DEF Fits
<1>10. r.now <= RunDeadline
  BY <1>3, <1>5, ControllerAssumption
<1>11. \A x \in Candidates(r) :
         plan.deps[x] \subseteq Underway(r) \cup Protected \cup (Candidates(r) \cap 1..x)
  BY <1>4, <1>7 DEF Planned
<1>12. Planned(r)
  BY <1>1, <1>3, <1>4, <1>8, <1>9, <1>10, <1>11 DEF Planned
<1>13. Reconcile(r).shed = s.shed /\ Reconcile(r).status \in {"running", "completed"}
  <2> DEFINE status == IF /\ InFlight(r) = {} /\ Task \subseteq r.completed \cup r.shed
                          /\ Protected \subseteq r.completed
                       THEN "completed" ELSE "running"
  <2>1. r.status = "running"
    BY <1>3
  <2>2. Reconcile(r) = [r EXCEPT !.status = status]
    BY <1>6, <1>12, <2>1, PlanStands
  <2>3. status \in {"running", "completed"}
    OBVIOUS
  <2> HIDE DEF status
  <2> QED
    BY <1>3, <2>2, <2>3 DEF States
<1> QED
  BY <1>6, <1>12, <1>13 DEF r, t

\* A call that is given up leaves a sane state.
LEMMA UnknownSane ==
  ASSUME plan \in Plans, NEW s, Sane(s), s.inflight # None, NEW at \in Nat,
         NEW r \in States, r.inflight = None, r.completed = s.completed,
         r.shed = IF s.inflight \in Protected THEN s.shed ELSE s.shed \cup {s.inflight}
  PROVE  Sane(r)
<1>1. InFlight(r) = {} /\ Underway(r) = s.completed /\ s.completed \subseteq Underway(s)
  BY DEF InFlight, Underway
<1>2. r.shed \subseteq s.shed \cup {s.inflight} /\ s.shed \subseteq r.shed
  OBVIOUS
<1>3. None \notin s.completed
  BY NoneIsNoTask DEF Sane, States
<1> QED
  BY <1>1, <1>2, <1>3 DEF Sane

\* A run that goes on, and no task in flight: one of its tasks could be
\* dispatched if it were not for the provider.
LEMMA OnlyBlocked ==
  ASSUME plan \in Plans, NEW s, Sane(s), Planned(s), s.status = "running", s.inflight = None,
         Rest(s) # {}, NextDispatch(s) = None
  PROVE  \E t \in Admitted \ (s.completed \cup s.shed) :
           plan.deps[t] \subseteq s.completed /\ Blocked(s, plan.provider[t])
<1>1. /\ InFlight(s) = {} /\ Underway(s) = s.completed /\ Horizon(s) = s.now /\ s.now \in Nat
      /\ s.completed \in SUBSET Task /\ plan.skipped \subseteq s.shed
  BY HorizonType DEF InFlight, Underway, Sane, States
<1>2. /\ Rest(s) \in SUBSET Task /\ Rest(s) \ s.completed = Rest(s)
      /\ Rest(s) = Admitted \ (s.completed \cup s.shed)
      /\ Rest(s) = Task \ (s.completed \cup s.shed)
  BY <1>1 DEF Rest, Admitted
<1>3. SerialFits(s.completed, Rest(s), s.now)
  BY <1>1 DEF Planned
<1>4. PICK t \in Rest(s) : Starts(s.completed, Rest(s), s.now, t)
  <2>1. Rest(s) \ s.completed # {}
    BY <1>2
  <2>2. \E t \in Rest(s) \ s.completed : Starts(s.completed, Rest(s), s.now, t)
    BY <1>1, <1>2, <1>3, <2>1, SerialFirst
  <2> QED
    BY <2>2
<1>5. Rest(s) \ {t} = Admitted \ (s.completed \cup s.shed \cup {t})
  BY <1>2
<1>6. Fits(Plus(Plus(s.settled, s.unknownUsage), CostOf({t} \cup (Protected \ s.completed))), s.caps)
  <2> DEFINE work == {t} \cup (Protected \ s.completed)
             spent == Plus(s.settled, s.unknownUsage)
  <2>1. work \in SUBSET Rest(s) /\ work \in SUBSET Task
    BY <1>2, ProtectedClosed DEF Planned
  <2>2. spent \in Usages /\ s.caps \in Usages
    BY PlusType DEF Sane, States
  <2>3. Fits(Plus(spent, CostOf(Rest(s))), s.caps)
    BY <1>2 DEF Planned
  <2> HIDE DEF work, spent
  <2>4. CostOf(work) \in Usages /\ CostOf(Rest(s)) \in Usages /\ Fits(CostOf(work), CostOf(Rest(s)))
    BY <1>2, <2>1, CostType, CostMonotone
  <2>5. /\ Fits(Plus(spent, CostOf(work)), Plus(spent, CostOf(Rest(s))))
        /\ Plus(spent, CostOf(work)) \in Usages /\ Plus(spent, CostOf(Rest(s))) \in Usages
    BY <2>2, <2>4, PlusMonotone, PlusType
  <2>6. Fits(Plus(spent, CostOf(work)), s.caps)
    BY <2>2, <2>3, <2>5, FitsTransitive
  <2> QED
    BY <2>6 DEF work, spent
<1>7. Eligible(s, s.now) = {}
  <2> SUFFICES ASSUME Eligible(s, s.now) # {} PROVE FALSE
    OBVIOUS
  <2>1. Eligible(s, s.now) \in SUBSET Task
    BY DEF Eligible, Admitted
  <2>2. Min(Eligible(s, s.now)) \in Task
    BY <2>1, FirstOfTasks
  <2> QED
    BY <2>2, NoneIsNoTask DEF NextDispatch
<1>8. ~Dispatchable(s, t, s.now)
  BY <1>2, <1>7 DEF Eligible
<1>9. Blocked(s, plan.provider[t])
  BY <1>2, <1>4, <1>5, <1>6, <1>8 DEF Dispatchable, Starts
<1> QED
  BY <1>2, <1>4, <1>9 DEF Starts

-----------------------------------------------------------------------------
(* The service keeps to the plan *)

\* A state that is recorded: if the run goes on its plan stands and there is
\* work to do, and if it is complete the mandatory work is done.
PlanKept(s) ==
  /\ s.status = "running" => Sane(s) /\ Planned(s) /\ (s.inflight = None => Rest(s) # {})
  /\ s.status = "completed" => Protected \subseteq s.completed /\ s.unknown \subseteq s.shed
  /\ s.completed \cap s.shed = {}
  /\ \A p \in Providers : s.resets[p] # None => s.resets[p] >= 1

\* What the place of the drive says of the recorded state.
DriveFits ==
  /\ ~LockFree => ctl.status = "running"
  /\ drive # "none" /\ LockFree => ctl.inflight = None
  /\ drive = "parked" /\ ctl.status = "running" /\ ~changed => NextDispatch(ctl) = None
  /\ drive \in {"dispatched", "working"} => output[ctl.inflight] = None
  /\ Durable \subseteq ctl.completed \cup InFlight(ctl)

Verdicts == {"completed", "awaiting_effects", "failed", "cancelled"}

\* A run that is said to be complete is, and that is the end of it.
LastWord ==
  /\ verdicts \in Seq(Verdicts)
  /\ \A i \in DOMAIN verdicts : verdicts[i] \in {"completed", "awaiting_effects"} =>
       i = Len(verdicts) /\ ctl.status = "completed" /\ drive = "none"

OnPlan == PlanKept(ctl) /\ DriveFits /\ LastWord

\* Reconciling changes what is shed and the status; a run is completed by it
\* only if the mandatory work is done.
LEMMA ReconcileKeeps ==
  ASSUME plan \in Plans, NEW s \in States
  PROVE  LET r == Reconcile(s)
         IN /\ r \in States /\ r.completed = s.completed /\ r.inflight = s.inflight
            /\ r.unknown = s.unknown /\ r.resets = s.resets /\ s.shed \subseteq r.shed
            /\ r.caps = s.caps /\ r.settled = s.settled /\ r.unknownUsage = s.unknownUsage
            /\ r.closed = s.closed /\ r.now = s.now
            /\ r.status = "running" => s.status = "running"
            /\ r.status = "completed" => s.status = "completed" \/ Protected \subseteq s.completed
            /\ s.status # "cancelled" => r.status # "cancelled"
<1>1. PICK shed \in SUBSET Task, status \in Statuses :
        /\ Reconcile(s) = [s EXCEPT !.shed = shed, !.status = status]
        /\ s.shed \subseteq shed
        /\ status = "running" => s.status = "running"
  BY ReconcileSheds
<1> DEFINE r == Reconcile(s)
<1>2. /\ r \in States /\ r.completed = s.completed /\ r.inflight = s.inflight
      /\ r.unknown = s.unknown /\ r.resets = s.resets /\ s.shed \subseteq r.shed
      /\ r.caps = s.caps /\ r.settled = s.settled /\ r.unknownUsage = s.unknownUsage
      /\ r.closed = s.closed /\ r.now = s.now
      /\ r.status = "running" => s.status = "running"
  <2> HIDE DEF r
  <2>1. r = [s EXCEPT !.shed = shed, !.status = status]
    BY <1>1 DEF r
  <2> QED
    BY <1>1, <2>1 DEF States
<1> DEFINE ends == /\ InFlight(s) = {} /\ Protected \subseteq s.completed
                   /\ Task \subseteq s.completed \cup (s.shed \cup (Candidates(s) \ Kept(s)))
<1>3. r.status \in {s.status, "refused", "completed"} /\ (r.status = "completed" => s.status = "completed" \/ ends)
  <2>1. CASE s.status = "cancelled"
    BY <2>1 DEF Reconcile
  <2>2. CASE s.status # "cancelled" /\ (Hopeless(s) \/ Unschedulable(s) \/ Unaffordable(s))
    <3>1. r.status = "refused"
      BY <2>2 DEF Reconcile, States
    <3> QED
      BY <3>1
  <2>3. CASE s.status # "cancelled" /\ ~Hopeless(s) /\ ~Unschedulable(s) /\ ~Unaffordable(s)
    <3> DEFINE more == s.shed \cup (Candidates(s) \ Kept(s))
               next == IF /\ InFlight(s) = {} /\ Task \subseteq s.completed \cup more
                          /\ Protected \subseteq s.completed
                       THEN "completed" ELSE s.status
    <3>1. r = [s EXCEPT !.shed = more, !.status = next]
      BY <2>3 DEF Reconcile
    <3>2. next \in {s.status, "completed"} /\ (next = "completed" => s.status = "completed" \/ ends)
      OBVIOUS
    <3> HIDE DEF next, more, r
    <3>3. r.status = next
      BY <3>1 DEF States
    <3> HIDE DEF ends
    <3> QED
      BY <3>2, <3>3
  <2> QED
    BY <2>1, <2>2, <2>3
<1> HIDE DEF r
<1>4. s.status # "cancelled" => r.status # "cancelled"
  BY <1>3
<1> QED
  BY <1>2, <1>3, <1>4 DEF r

\* Nothing that is done is shed.
LEMMA ReconcileApart ==
  ASSUME NEW s \in States, s.completed \cap s.shed = {}
  PROVE  s.completed \cap Reconcile(s).shed = {}
<1> DEFINE r == Reconcile(s)
<1>1. /\ s.completed \cap Candidates(s) = {}
      /\ s.completed \cap (Admitted \ (Protected \cup s.completed)) = {}
      /\ s.completed \cap (Task \ (Protected \cup Underway(s))) = {}
  BY DEF Candidates, Underway
<1>2. \/ r.shed = s.shed
      \/ r.shed = s.shed \cup (Admitted \ (Protected \cup s.completed))
      \/ r.shed = s.shed \cup (Task \ (Protected \cup Underway(s)))
      \/ r.shed = s.shed \cup (Candidates(s) \ Kept(s))
  <2>1. CASE s.status = "cancelled" \/ Hopeless(s)
    <3>1. r = s \/ r = [s EXCEPT !.status = "refused"]
      BY <2>1 DEF Reconcile
    <3> HIDE DEF r
    <3> QED
      BY <3>1 DEF States
  <2>2. CASE ~ (s.status = "cancelled" \/ Hopeless(s)) /\ Unschedulable(s)
    <3> DEFINE more == s.shed \cup (Admitted \ (Protected \cup s.completed))
    <3>1. r = [s EXCEPT !.status = "refused", !.shed = more]
      BY <2>2 DEF Reconcile, States
    <3> HIDE DEF r, more
    <3>2. r.shed = more
      BY <3>1 DEF States
    <3> QED
      BY <3>2 DEF more
  <2>3. CASE ~ (s.status = "cancelled" \/ Hopeless(s) \/ Unschedulable(s)) /\ Unaffordable(s)
    <3> DEFINE more == s.shed \cup (Task \ (Protected \cup Underway(s)))
    <3>1. r = [s EXCEPT !.status = "refused", !.shed = more]
      BY <2>3 DEF Reconcile, States
    <3> HIDE DEF r, more
    <3>2. r.shed = more
      BY <3>1 DEF States
    <3> QED
      BY <3>2 DEF more
  <2>4. CASE ~ (s.status = "cancelled" \/ Hopeless(s) \/ Unschedulable(s) \/ Unaffordable(s))
    <3> DEFINE more == s.shed \cup (Candidates(s) \ Kept(s))
               next == IF /\ InFlight(s) = {} /\ Task \subseteq s.completed \cup more
                          /\ Protected \subseteq s.completed
                       THEN "completed" ELSE s.status
    <3>1. r = [s EXCEPT !.shed = more, !.status = next]
      BY <2>4 DEF Reconcile
    <3> HIDE DEF r, more, next
    <3>2. r.shed = more
      BY <3>1 DEF States
    <3> QED
      BY <3>2 DEF more
  <2> QED
    BY <2>1, <2>2, <2>3, <2>4
<1> HIDE DEF r
<1>3. s.completed \cap r.shed = {}
  BY <1>1, <1>2
<1> QED
  BY <1>3 DEF r

\* Whatever event led to a state, reconciling it gives one that is in order.
LEMMA ReconciledPlan ==
  ASSUME plan \in Plans, NEW s \in States, s.status = "running" => Sane(s),
         s.status \in {"refused", "completed"} /\ Protected \subseteq s.completed => s.unknown \subseteq s.shed,
         s.status = "running" => s.unknown \subseteq s.shed,
         s.status = "completed" => Protected \subseteq s.completed,
         s.status # "cancelled", s.completed \cap s.shed = {},
         \A p \in Providers : s.resets[p] # None => s.resets[p] >= 1
  PROVE  PlanKept(Reconcile(s))
<1> DEFINE r == Reconcile(s)
<1>1. /\ r.completed = s.completed /\ r.unknown = s.unknown /\ r.resets = s.resets
      /\ s.shed \subseteq r.shed
      /\ r.status = "running" => s.status = "running"
      /\ r.status = "completed" => s.status = "completed" \/ Protected \subseteq s.completed
  BY ReconcileKeeps
<1>2. r.status = "running" => Sane(r) /\ Planned(r) /\ (r.inflight = None => Rest(r) # {})
  BY <1>1, NewPlan
<1>5. r.completed \cap r.shed = {}
  BY <1>1, ReconcileApart
<1> HIDE DEF r
<1>3. s.status \in {"running", "refused", "completed"}
  BY DEF States, Statuses
<1>4. r.status = "completed" => Protected \subseteq r.completed /\ r.unknown \subseteq r.shed
  BY <1>1, <1>3
<1> QED
  BY <1>1, <1>2, <1>4, <1>5 DEF PlanKept, r

\* The workflow of a run does not change, so that what holds of the next state
\* by itself holds after the step.
LEMMA PlanFixed ==
  ASSUME plan' = plan, PlanKept(ctl')
  PROVE  PlanKept(ctl)'
<1>1. /\ Protected' = Protected /\ Admitted' = Admitted /\ InFlight(ctl)' = InFlight(ctl')
      /\ \A S : CostOf(S)' = CostOf(S)
  BY DEF Protected, Admitted, InFlight, CostOf
<1>2. Underway(ctl)' = Underway(ctl') /\ Rest(ctl)' = Rest(ctl') /\ Horizon(ctl)' = Horizon(ctl')
  BY <1>1 DEF Underway, Rest, Horizon, P95Of, InFlight
<1>3. Candidates(ctl)' = Candidates(ctl')
  BY <1>1, <1>2 DEF Candidates
<1>4. Sane(ctl)' <=> Sane(ctl')
  BY <1>2 DEF Sane
<1>5. SerialFits(Underway(ctl), Rest(ctl), Horizon(ctl))'
        <=> SerialFits(Underway(ctl'), Rest(ctl'), Horizon(ctl'))
  BY <1>2 DEF SerialFits
<1>6. CostOf(Task \ (ctl.completed \cup ctl.shed))' = CostOf(Task \ (ctl'.completed \cup ctl'.shed))
  BY DEF CostOf
<1>7. Planned(ctl)' <=> Planned(ctl')
  BY <1>1, <1>2, <1>3, <1>5, <1>6 DEF Planned
<1> QED
  BY <1>1, <1>2, <1>4, <1>7 DEF PlanKept

\* A control event finds the run going on and leaves it with a plan.
LEMMA ControlKeeps ==
  ASSUME IInv, OnPlan, NEW r \in States, Controlled(ctl, r), Control(Reconcile(r))
  PROVE  OnPlan'
<1>1. /\ ctl.status = "running" /\ LockFree /\ ctl' = Reconcile(r) /\ changed'
      /\ UNCHANGED <<plan, output, verdicts, drive>>
  BY DEF Control, Transition
<1>2. plan \in Plans /\ ctl.unknown \subseteq ctl.shed /\ Sane(ctl)
  BY <1>1 DEF IInv, Books, OnPlan, PlanKept
<1>3. /\ InFlight(r) = InFlight(ctl) /\ Underway(r) = Underway(ctl) /\ Sane(r)
  BY <1>2 DEF Controlled, InFlight, Underway, Sane
<1>4. PlanKept(ctl')
  <2>1. \A p \in Providers : r.resets[p] # None => r.resets[p] >= 1
    BY DEF Controlled, OnPlan, PlanKept
  <2>2. PlanKept(Reconcile(r))
    BY <1>1, <1>2, <1>3, <2>1, ReconciledPlan DEF Controlled, OnPlan, PlanKept
  <2> QED
    BY <1>1, <2>2
<1>5. PlanKept(ctl)'
  BY <1>1, <1>4, PlanFixed
<1>6. ctl'.inflight = ctl.inflight /\ ctl'.completed = ctl.completed
  BY <1>1, <1>2, ReconcileKeeps DEF Controlled
<1>7. DriveFits'
  BY <1>1, <1>6 DEF OnPlan, DriveFits, LockFree, Durable, InFlight
<1>8. LastWord'
  BY <1>1 DEF OnPlan, LastWord
<1> QED
  BY <1>5, <1>7, <1>8 DEF OnPlan

\* While the run goes on nothing final is said of it.
LEMMA NoLastWordYet ==
  ASSUME OnPlan, ctl.status = "running"
  PROVE  /\ verdicts \in Seq(Verdicts)
         /\ \A i \in DOMAIN verdicts : verdicts[i] \notin {"completed", "awaiting_effects"}
BY DEF OnPlan, LastWord

\* A verdict of a run that is not complete.
LEMMA OtherVerdict ==
  ASSUME NEW v \in {"failed", "cancelled"}, verdicts \in Seq(Verdicts), Conclude(v),
         \A i \in DOMAIN verdicts : verdicts[i] \notin {"completed", "awaiting_effects"}
  PROVE  /\ verdicts' \in Seq(Verdicts)
         /\ \A i \in DOMAIN verdicts' : verdicts'[i] \notin {"completed", "awaiting_effects"}
<1>1. CASE verdicts' = verdicts
  BY <1>1
<1>2. CASE verdicts' = Append(verdicts, v)
  <2>1. v \in Verdicts
    BY DEF Verdicts
  <2>2. verdicts' \in Seq(Verdicts)
    BY <1>2, <2>1
  <2>3. \A i \in DOMAIN verdicts' : verdicts'[i] = v \/ (i \in DOMAIN verdicts /\ verdicts'[i] = verdicts[i])
    BY <1>2, <2>1
  <2> QED
    BY <2>2, <2>3
<1> QED
  BY <1>1, <1>2 DEF Conclude

\* A settlement leaves a sane state.
LEMMA SettleSane ==
  ASSUME plan \in Plans, NEW s, Sane(s), s.inflight # None,
         NEW r \in States, r.inflight = None, r.completed = s.completed \cup {s.inflight},
         r.shed = s.shed
  PROVE  Sane(r)
<1>1. InFlight(s) = {s.inflight} /\ InFlight(r) = {} /\ Underway(r) = Underway(s)
  BY DEF InFlight, Underway
<1>2. None \notin Task /\ r.completed \in SUBSET Task
  BY NoneIsNoTask DEF States
<1>3. \A x \in Underway(r) : plan.deps[x] \subseteq r.completed
  BY <1>1 DEF Sane
<1> QED
  BY <1>1, <1>2, <1>3 DEF Sane

\* The recorded output of the task in flight is settled.
LEMMA SettlementKeeps ==
  ASSUME IInv, OnPlan, ctl.status = "running", ctl.inflight # None, output[ctl.inflight] # None,
         NEW at \in Nat, ctl' = UsageSettled(ctl, ctl.inflight, output[ctl.inflight], at),
         UNCHANGED <<plan, output, verdicts>>,
         drive' \notin {"dispatched", "working", "returned", "parked"}
  PROVE  OnPlan'
<1> DEFINE t == ctl.inflight
           r == [ctl EXCEPT !.now = at, !.inflight = None, !.completed = @ \cup {t},
                            !.settled = Plus(@, output[t])]
<1>1. /\ ctl \in States /\ Sane(ctl) /\ plan \in Plans /\ t \in Task /\ t # None
      /\ ctl.unknown \subseteq ctl.shed /\ ctl.completed \in SUBSET Task
      /\ output \in [Task -> Usages \cup {None}] /\ ctl.settled \in Usages
  BY DEF IInv, Books, OnPlan, PlanKept, States, Grounded
<1>2. output[t] \in Usages /\ Plus(ctl.settled, output[t]) \in Usages
  BY <1>1, PlusType
<1>3. /\ r \in States /\ r.inflight = None /\ r.completed = ctl.completed \cup {t}
      /\ r.shed = ctl.shed /\ r.unknown = ctl.unknown /\ r.resets = ctl.resets
      /\ r.status = ctl.status
  BY <1>1, <1>2 DEF States
<1>4. ctl' = Reconcile(r)
  BY DEF UsageSettled
<1> HIDE DEF r, t
<1>5. Sane(r)
  BY <1>1, <1>3, SettleSane DEF t
<1>6. PlanKept(Reconcile(r))
  <2>1. r.completed \cap r.shed = {}
    BY <1>3 DEF OnPlan, PlanKept, Sane, Underway, InFlight, t
  <2> QED
    BY <1>1, <1>3, <1>5, <2>1, ReconciledPlan DEF OnPlan, PlanKept
<1>7. PlanKept(ctl)'
  BY <1>4, <1>6, PlanFixed
<1>8. ctl'.inflight = None /\ ctl'.completed = ctl.completed \cup {t}
  BY <1>1, <1>3, <1>4, ReconcileKeeps
<1>9. DriveFits'
  <2>1. Durable' = Durable /\ Durable \subseteq ctl.completed \cup {t}
    BY <1>1 DEF OnPlan, DriveFits, Durable, InFlight, t
  <2> QED
    BY <1>8, <2>1 DEF DriveFits, LockFree
<1>10. LastWord'
  BY NoLastWordYet DEF LastWord
<1> QED
  BY <1>7, <1>9, <1>10 DEF OnPlan

\* The call in flight, of which nothing is recorded, is given up.
LEMMA UnknownKeeps ==
  ASSUME IInv, OnPlan, ctl.status = "running", ctl.inflight # None, output[ctl.inflight] = None,
         NEW at \in Nat, ctl' = UnknownInflight(ctl, ctl.inflight, at),
         UNCHANGED <<plan, output>>, LastWord',
         drive' \notin {"dispatched", "working", "returned", "parked"}
  PROVE  OnPlan'
<1> DEFINE t == ctl.inflight
           shed == IF t \in Protected THEN ctl.shed ELSE ctl.shed \cup {t}
           status == IF t \in Protected THEN "refused" ELSE ctl.status
           r == [ctl EXCEPT !.now = at, !.inflight = None, !.unknown = @ \cup {t},
                  !.unknownUsage = Plus(@, plan.cost[t]), !.shed = shed, !.status = status]
<1>1. /\ ctl \in States /\ Sane(ctl) /\ plan \in Plans /\ t \in Task /\ t # None
      /\ ctl.unknown \subseteq ctl.shed /\ ctl.unknown \in SUBSET Task /\ ctl.shed \in SUBSET Task
      /\ t \notin ctl.completed /\ ctl.unknownUsage \in Usages
  BY DEF IInv, Books, OnPlan, PlanKept, States, Grounded
<1>2. plan.cost[t] \in Usages /\ Plus(ctl.unknownUsage, plan.cost[t]) \in Usages
  BY <1>1, PlanShape, PlusType
<1>3. /\ shed \in SUBSET Task /\ status \in {"running", "refused"}
      /\ status = "running" => ctl.unknown \cup {t} \subseteq shed
      /\ status = "refused" => t \in Protected
  BY <1>1
<1>4. ctl' = Reconcile(r)
  BY DEF UnknownInflight
<1>5. shed = IF t \in Protected THEN ctl.shed ELSE ctl.shed \cup {t}
  OBVIOUS
<1> HIDE DEF shed, status
<1>6. /\ r \in States /\ r.inflight = None /\ r.completed = ctl.completed /\ r.shed = shed
      /\ r.unknown = ctl.unknown \cup {t} /\ r.resets = ctl.resets /\ r.status = status
  BY <1>1, <1>2, <1>3 DEF States, Statuses
<1> HIDE DEF r, t
<1>7. Sane(r)
  BY <1>1, <1>5, <1>6, UnknownSane DEF t
<1>8. PlanKept(Reconcile(r))
  <2>1. r.completed \cap r.shed = {}
    BY <1>1, <1>5, <1>6 DEF OnPlan, PlanKept
  <2> QED
    BY <1>1, <1>3, <1>6, <1>7, <2>1, ReconciledPlan DEF OnPlan, PlanKept
<1>9. PlanKept(ctl)'
  BY <1>4, <1>8, PlanFixed
<1>10. ctl'.inflight = None /\ ctl'.completed = ctl.completed
  BY <1>1, <1>4, <1>6, ReconcileKeeps
<1>11. DriveFits'
  <2>1. Durable' = Durable /\ Durable \subseteq ctl.completed
    BY <1>1 DEF OnPlan, DriveFits, Durable, InFlight, t
  <2> QED
    BY <1>10, <2>1 DEF DriveFits, LockFree
<1> QED
  BY <1>9, <1>11 DEF OnPlan

\* A dispatch is of a task that has no output, and keeps to the plan.
LEMMA DispatchKeeps ==
  ASSUME IInv, OnPlan, Dispatch
  PROVE  OnPlan' /\ ctl'.status = "running" /\ ctl'.shed = ctl.shed
<1> DEFINE t == NextDispatch(ctl)
           r == [ctl EXCEPT !.inflight = t]
<1>1. /\ ctl.status = "running" /\ t # None /\ ctl' = Reconcile(r)
      /\ UNCHANGED <<plan, output, verdicts>> /\ drive' = "dispatched"
  BY DEF Dispatch, Transition, TaskDispatched, Moves
<1>2. /\ plan \in Plans /\ Sane(ctl) /\ Planned(ctl) /\ ctl \in States
  BY <1>1 DEF IInv, Books, OnPlan, PlanKept
<1>3. t \in Eligible(ctl, ctl.now)
  BY <1>1, NextIsEligible
<1>4. t \notin ctl.completed /\ ctl.inflight = None
  BY <1>3 DEF Eligible
<1> HIDE DEF t
<1>5. Sane(r) /\ Planned(r) /\ Reconcile(r) = r /\ r.inflight = t /\ t \in Task
  BY <1>2, <1>3, DispatchStands
<1>6. /\ r.completed = ctl.completed /\ r.shed = ctl.shed /\ r.unknown = ctl.unknown
      /\ r.resets = ctl.resets /\ r.status = "running"
  BY <1>1, <1>2 DEF States
<1> HIDE DEF r
<1>7. PlanKept(r)
  BY <1>1, <1>5, <1>6 DEF PlanKept, OnPlan
<1>8. PlanKept(ctl)'
  BY <1>1, <1>5, <1>7, PlanFixed
<1>9. Durable \subseteq ctl.completed
  BY <1>4 DEF OnPlan, DriveFits, InFlight
<1>10. DriveFits'
  <2>1. Durable' = Durable /\ output[t] = None
    BY <1>1, <1>4, <1>5, <1>9 DEF Durable
  <2> QED
    BY <1>1, <1>5, <1>6, <1>9, <2>1 DEF DriveFits, LockFree
<1>11. LastWord'
  BY <1>1, NoLastWordYet DEF LastWord
<1> QED
  BY <1>1, <1>5, <1>6, <1>8, <1>10, <1>11 DEF OnPlan

\* The drive settles what it got; the plan stands.
LEMMA SettleKeeps ==
  ASSUME IInv, OnPlan, Settle
  PROVE  OnPlan' /\ ctl'.status # "refused" /\ ctl'.shed = ctl.shed
<1> DEFINE t == ctl.inflight
           at == ctl.now + Elapsed(t)
<1>1. /\ ctl' = UsageSettled(ctl, t, output[t], at)
      /\ UNCHANGED <<plan, output, verdicts>> /\ drive = "returned" /\ drive' = "loop"
  BY DEF Settle, Transition, Moves
<1>2. /\ ctl.status = "running" /\ t # None /\ output[t] # None /\ plan \in Plans
      /\ \A x \in Task : output[x] # None => Fits(output[x], plan.cost[x])
  BY <1>1 DEF IInv, DriveKnows, OnPlan, DriveFits, LockFree
<1>3. /\ t \in Task /\ ctl \in States /\ Sane(ctl) /\ Planned(ctl)
      /\ output[t] \in Usages /\ Fits(output[t], plan.cost[t])
  BY <1>2 DEF IInv, Books, States, Grounded, OnPlan, PlanKept
<1>4. at \in Nat /\ at <= Horizon(ctl)
  <2>1. /\ Elapsed(t) \in Nat /\ Elapsed(t) <= plan.p95[t] /\ plan.p95[t] \in Nat
    <3>1. plan.p50[t] \in Nat /\ plan.p95[t] \in Nat /\ plan.p50[t] <= plan.p95[t]
      BY <1>2, <1>3, PlanShape
    <3> QED
      BY <3>1 DEF Elapsed
  <2>2. ctl.now \in Nat /\ Horizon(ctl) = ctl.now + plan.p95[t]
    BY <1>2, <1>3, HorizonType
  <2> HIDE DEF t
  <2> QED
    BY <2>1, <2>2
<1> DEFINE r == [ctl EXCEPT !.now = at, !.inflight = None, !.completed = @ \cup {t},
                            !.settled = Plus(@, output[t])]
<1> HIDE DEF at
<1>5. Reconcile(r).shed = ctl.shed /\ Reconcile(r).status \in {"running", "completed"}
  BY <1>2, <1>3, <1>4, SettleStands
<1>6. ctl' = Reconcile(r)
  BY <1>1 DEF UsageSettled
<1>7. OnPlan'
  BY <1>1, <1>2, <1>4, SettlementKeeps
<1> HIDE DEF r
<1> QED
  BY <1>5, <1>6, <1>7

\* A worker that failed gives up its task, and the run is not said to be complete.
LEMMA FailureKeeps ==
  ASSUME IInv, OnPlan, WorkerFails
  PROVE  OnPlan'
<1>1. PICK late \in {0, Elapsed(ctl.inflight)} :
        ctl' = UnknownInflight(ctl, ctl.inflight, ctl.now + late)
  BY DEF WorkerFails, Transition
<1>2. /\ UNCHANGED <<plan, output>> /\ drive = "working" /\ drive' = "none"
      /\ UNCHANGED verdicts \/ Conclude("failed")
  BY DEF WorkerFails, EndDrive
<1>3. /\ ctl.status = "running" /\ ctl.inflight # None /\ output[ctl.inflight] = None
      /\ ctl.now \in Nat /\ ctl.inflight \in Task
  BY <1>2 DEF IInv, DriveKnows, Books, States, OnPlan, DriveFits, LockFree
<1>4. ctl.now + late \in Nat
  BY <1>3, PlanShape DEF IInv, Elapsed
<1>5. LastWord'
  <2>1. CASE UNCHANGED verdicts
    BY <1>3, <2>1, NoLastWordYet DEF LastWord
  <2>2. CASE Conclude("failed")
    BY <1>3, <2>2, NoLastWordYet, OtherVerdict DEF LastWord
  <2> QED
    BY <1>2, <2>1, <2>2
<1> QED
  BY <1>1, <1>2, <1>3, <1>4, <1>5, UnknownKeeps

\* An output is recorded for the task in flight only.
LEMMA WorkerKeeps ==
  ASSUME IInv, OnPlan, NEW actual \in Spent, WorkerReturns(actual)
  PROVE  OnPlan'
<1>1. /\ UNCHANGED <<plan, ctl, verdicts>> /\ drive = "working" /\ drive' = "returned"
      /\ output' = [output EXCEPT ![ctl.inflight] = actual]
  BY DEF WorkerReturns, Moves
<1>2. /\ ctl.status = "running" /\ ctl.inflight # None /\ output \in [Task -> Usages \cup {None}]
  BY <1>1 DEF IInv, DriveKnows, Grounded, OnPlan, DriveFits, LockFree
<1>3. Durable' \subseteq Durable \cup {ctl.inflight}
  BY <1>1, <1>2 DEF Durable
<1>4. DriveFits'
  BY <1>1, <1>2, <1>3 DEF OnPlan, DriveFits, InFlight, LockFree
<1>5. PlanKept(ctl)'
  BY <1>1, PlanFixed DEF OnPlan
<1>6. LastWord'
  BY <1>1, <1>2, NoLastWordYet DEF LastWord
<1> QED
  BY <1>4, <1>5, <1>6 DEF OnPlan

\* A cancellation ends the run, and nothing is in flight then.
LEMMA CancelKeeps ==
  ASSUME IInv, OnPlan, Cancel
  PROVE  OnPlan'
<1>1. /\ ctl' = Cancellation(ctl) /\ UNCHANGED <<plan, output, verdicts, drive>>
      /\ drive = "loop" /\ ctl.status = "running" /\ ctl \in States
  BY DEF Cancel, Transition, volatile, IInv, Books
<1>2. ctl.inflight = None
  BY <1>1 DEF OnPlan, DriveFits, LockFree
<1>3. /\ ctl'.inflight = None /\ ctl'.completed = ctl.completed /\ ctl'.status = "cancelled"
      /\ ctl'.resets = ctl.resets /\ ctl'.shed = ctl.shed
  BY <1>1, <1>2 DEF Cancellation, States, InFlight
<1>4. PlanKept(ctl')
  BY <1>3 DEF PlanKept, OnPlan
<1>5. PlanKept(ctl)'
  BY <1>1, <1>4, PlanFixed
<1>6. DriveFits'
  BY <1>1, <1>2, <1>3 DEF DriveFits, LockFree, OnPlan, InFlight, Durable
<1>7. LastWord'
  BY <1>1, NoLastWordYet DEF LastWord
<1> QED
  BY <1>5, <1>6, <1>7 DEF OnPlan

\* A step of the service that only moves the drive.
LEMMA QuietKeeps ==
  ASSUME OnPlan, UNCHANGED <<plan, ctl, output>>,
         drive' = "none" \/ (drive # "none" /\ LockFree /\ LockFree')
           \/ (drive = "dispatched" /\ drive' = "working") \/ drive' = drive,
         drive' = "parked" => \/ drive = "parked" /\ changed' = changed
                              \/ drive = "parked" /\ changed'
                              \/ NextDispatch(ctl) = None
  PROVE  PlanKept(ctl)' /\ DriveFits'
<1>1. PlanKept(ctl)'
  BY PlanFixed DEF OnPlan
<1>2. Durable' = Durable /\ InFlight(ctl)' = InFlight(ctl)
  BY DEF Durable, InFlight
<1>3. (NextDispatch(ctl))' = NextDispatch(ctl)
  <2>1. Eligible(ctl, ctl.now)' = Eligible(ctl, ctl.now)
    <3>1. \A t : Dispatchable(ctl, t, ctl.now)' <=> Dispatchable(ctl, t, ctl.now)
      BY DEF Dispatchable, SerialFits, Admitted, Protected, CostOf, Blocked
    <3> QED
      BY <3>1 DEF Eligible, Admitted
  <2> QED
    BY <2>1 DEF NextDispatch
<1>4. DriveFits'
  BY <1>2, <1>3 DEF OnPlan, DriveFits, LockFree
<1> QED
  BY <1>1, <1>4

\* The drive ends with its verdict: completed only if the run is.
LEMMA FinishKeeps ==
  ASSUME OnPlan, Finish
  PROVE  OnPlan'
<1>1. /\ UNCHANGED <<plan, ctl, output>> /\ drive = "loop" /\ drive' = "none"
      /\ \/ Conclude("cancelled") \/ Conclude("failed")
         \/ ctl.status = "completed" /\ (Conclude("completed") \/ Conclude("awaiting_effects"))
  BY DEF Finish, EndDrive
<1>2. PlanKept(ctl)' /\ DriveFits'
  BY <1>1, QuietKeeps
<1>3. /\ verdicts \in Seq(Verdicts)
      /\ \A i \in DOMAIN verdicts : verdicts[i] \notin {"completed", "awaiting_effects"}
  BY <1>1 DEF OnPlan, LastWord
<1>4. CASE Conclude("cancelled") \/ Conclude("failed")
  <2>1. LastWord'
    BY <1>3, <1>4, OtherVerdict DEF LastWord
  <2> QED
    BY <1>2, <2>1 DEF OnPlan
<1>5. CASE ctl.status = "completed" /\ (Conclude("completed") \/ Conclude("awaiting_effects"))
  <2>1. PICK v \in {"completed", "awaiting_effects"} : Conclude(v)
    BY <1>5
  <2>2. verdicts' = Append(verdicts, v)
    BY <1>3, <2>1 DEF Conclude
  <2>3. v \in Verdicts
    BY DEF Verdicts
  <2>4. verdicts' \in Seq(Verdicts)
    BY <1>3, <2>2, <2>3
  <2>5. /\ Len(verdicts') = Len(verdicts) + 1 /\ Len(verdicts) \in Nat
        /\ DOMAIN verdicts = 1..Len(verdicts) /\ DOMAIN verdicts' = 1..Len(verdicts')
    BY <1>3, <2>2, <2>4
  <2>6. ASSUME NEW i \in DOMAIN verdicts', i # Len(verdicts')
        PROVE  verdicts'[i] \notin {"completed", "awaiting_effects"}
    <3>1. i \in DOMAIN verdicts
      BY <2>5, <2>6
    <3>2. verdicts'[i] = verdicts[i]
      BY <1>3, <2>2, <2>3, <3>1
    <3> QED
      BY <1>3, <3>1, <3>2
  <2>7. LastWord'
    BY <1>1, <1>5, <2>4, <2>6 DEF LastWord
  <2> QED
    BY <1>2, <2>7 DEF OnPlan
<1> QED
  BY <1>1, <1>4, <1>5

\* A recovery finds the run going on and leaves it with a plan.
LEMMA RecoverKeeps ==
  ASSUME IInv, OnPlan, NEW at \in Later, Recover(at)
  PROVE  OnPlan'
<1>1. /\ UNCHANGED <<plan, output, verdicts>> /\ drive = "none" /\ drive' = "validating"
      /\ ctl.status = "running"
  BY DEF Recover
<1>2. CASE ctl.inflight = None /\ UNCHANGED ctl
  <2>1. PlanKept(ctl)'
    BY <1>2, <1>1, PlanFixed DEF OnPlan
  <2>2. DriveFits'
    BY <1>1, <1>2 DEF OnPlan, DriveFits, LockFree, Durable, InFlight
  <2>3. LastWord'
    BY <1>1, NoLastWordYet DEF LastWord
  <2> QED
    BY <2>1, <2>2, <2>3 DEF OnPlan
<1>3. CASE ctl.inflight # None /\ Transition(Recovery(at))
  <2>1. at \in Nat
    BY ControllerAssumption DEF Later, IInv, Books, States
  <2>2. CASE output[ctl.inflight] # None
    BY <1>1, <1>3, <2>1, <2>2, SettlementKeeps DEF Transition, Recovery
  <2>3. CASE output[ctl.inflight] = None
    <3>1. LastWord'
      BY <1>1, NoLastWordYet DEF LastWord
    <3> QED
      BY <1>1, <1>3, <2>1, <2>3, <3>1, UnknownKeeps DEF Transition, Recovery
  <2> QED
    BY <2>2, <2>3
<1> QED
  BY <1>2, <1>3 DEF Recover

\* The first records of a run have a plan.
LEMMA InitPlan ==
  ASSUME Init
  PROVE  OnPlan
<1> DEFINE s == [caps |-> Envelope, settled |-> Zero, unknownUsage |-> Zero,
                 completed |-> {}, shed |-> plan.skipped, unknown |-> {}, inflight |-> None,
                 resets |-> [p \in Providers |-> None], closed |-> {},
                 now |-> 0, status |-> "running"]
<1>1. plan \in Plans /\ ctl = Reconcile(Reconcile(s)) /\ drive = "starting" /\ verdicts = <<>>
      /\ output = [t \in Task |-> None]
  BY DEF Init, RuntimeStarted, InitialState
<1>2. Envelope \in Usages /\ Zero \in Usages /\ plan.skipped \in SUBSET Task
  BY <1>1, PlanShape, ControllerAssumption DEF Zero, Usages
<1>3. s \in States
  BY <1>2 DEF States, Statuses
<1>4. /\ s.completed = {} /\ s.inflight = None /\ s.shed = plan.skipped /\ s.unknown = {}
      /\ s.status = "running" /\ \A p \in Providers : s.resets[p] = None
  OBVIOUS
<1> HIDE DEF s
<1>5. Sane(s)
  <2>1. Underway(s) = {}
    BY <1>4 DEF Underway, InFlight
  <2> QED
    BY <1>3, <1>4, <2>1 DEF Sane
<1> DEFINE r == Reconcile(s)
<1>6. PlanKept(r)
  BY <1>1, <1>3, <1>4, <1>5, ReconciledPlan
<1>7. /\ r \in States /\ r.completed = {} /\ r.inflight = None /\ r.unknown = {}
      /\ r.status # "cancelled" /\ r.resets = s.resets
  BY <1>1, <1>3, <1>4, ReconcileKeeps
<1> HIDE DEF r
<1>8. PlanKept(Reconcile(r))
  BY <1>1, <1>4, <1>6, <1>7, ReconciledPlan DEF PlanKept
<1>9. ctl = Reconcile(r) /\ ctl.inflight = None /\ ctl.completed = {}
  BY <1>1, <1>7, ReconcileKeeps DEF r
<1>10. DriveFits
  BY <1>1, <1>9 DEF DriveFits, LockFree, Durable
<1>11. LastWord
  BY <1>1 DEF LastWord
<1> QED
  BY <1>8, <1>9, <1>10, <1>11 DEF OnPlan

\* Every step of the service keeps to the plan.
LEMMA PlanStep ==
  ASSUME IInv, OnPlan, [Next]_vars
  PROVE  OnPlan'
<1>1. ASSUME UNCHANGED <<plan, ctl, output, verdicts>>,
             drive' = "none" \/ (drive # "none" /\ LockFree /\ LockFree')
               \/ (drive = "dispatched" /\ drive' = "working") \/ drive' = drive,
             drive' = "parked" => \/ drive = "parked" /\ changed' = changed
                                  \/ drive = "parked" /\ changed'
                                  \/ NextDispatch(ctl) = None
      PROVE  OnPlan'
  <2>1. PlanKept(ctl)' /\ DriveFits'
    BY <1>1, QuietKeeps
  <2>2. LastWord'
    BY <1>1, <2>1 DEF OnPlan, LastWord, DriveFits, LockFree
  <2> QED
    BY <2>1, <2>2 DEF OnPlan
<1>2. CASE UNCHANGED vars
  BY <1>1, <1>2 DEF vars, durable, volatile
<1>3. CASE PersistRunStart \/ ValidateOutputs \/ ValidationFails \/ PassGate \/ Park \/ Wake
  BY <1>1, <1>3 DEF PersistRunStart, ValidateOutputs, ValidationFails, PassGate, Park, Wake, Moves,
     EndDrive, durable, LockFree
<1>4. CASE Resume \/ RequestCancel \/ Crash \/ StartAttempt
  BY <1>1, <1>4 DEF Resume, RequestCancel, Crash, StartAttempt, Moves, durable, LockFree
<1>5. CASE Finish
  BY <1>5, FinishKeeps
<1>6. CASE WorkerFails \/ \E actual \in Spent : WorkerReturns(actual)
  BY <1>6, FailureKeeps, WorkerKeeps
<1>7. CASE Control429 \/ ControlReset \/ ControlCapacity \/ ControlCut
  BY <1>7, ControlForm, ControlKeeps
<1>8. CASE \E at \in Later : Recover(at)
  BY <1>8, RecoverKeeps
<1>9. CASE Cancel \/ Dispatch \/ Settle
  BY <1>9, CancelKeeps, DispatchKeeps, SettleKeeps
<1> QED
  BY <1>2, <1>3, <1>4, <1>5, <1>6, <1>7, <1>8, <1>9 DEF Next, Coordinator, Worker, Operator

\* Every reachable state keeps to the plan: a run that goes on has work that fits
\* its deadlines and its budget, a run that is complete has done the mandatory
\* work, and the drive is where the recorded state lets it be.
THEOREM PlanInvariance == Spec => []OnPlan
<1>1. Init => OnPlan
  BY InitPlan
<1>2. IInv /\ OnPlan /\ [Next]_vars => OnPlan'
  BY PlanStep
<1> QED
  BY <1>1, <1>2, Invariance, PTL DEF Spec

\* The run sleeps only if a provider holds it up.
LEMMA OnPlanParked ==
  ASSUME IInv, OnPlan
  PROVE  ParkedForCause
<1> SUFFICES ASSUME drive = "parked", ctl.status = "running", ~changed
             PROVE  /\ NextDispatch(ctl) = None
                    /\ \E t \in Admitted \ (ctl.completed \cup ctl.shed) :
                         plan.deps[t] \subseteq ctl.completed /\ Blocked(ctl, plan.provider[t])
  BY DEF ParkedForCause
<1>1. ctl.inflight = None /\ NextDispatch(ctl) = None
  BY DEF OnPlan, DriveFits, LockFree
<1>2. plan \in Plans /\ Sane(ctl) /\ Planned(ctl) /\ Rest(ctl) # {}
  BY <1>1 DEF IInv, OnPlan, PlanKept
<1> QED
  BY <1>1, <1>2, OnlyBlocked

\* The run sleeps only if no task can be dispatched because a provider holds one
\* up, and it is said to be complete only if the mandatory outputs are recorded.
THEOREM StopsAreForCause == Spec => []StopsForCause
<1>1. IInv /\ OnPlan => StopsForCause
  <2> SUFFICES ASSUME IInv, OnPlan PROVE StopsForCause
    OBVIOUS
  <2>1. ctl.completed \subseteq Durable
    BY DEF IInv, Grounded, Durable, Books, States
  <2>2. CompletedMeansMandatoryDone
    BY <2>1 DEF CompletedMeansMandatoryDone, OnPlan, LastWord, PlanKept
  <2> QED
    BY <2>2, OnPlanParked DEF StopsForCause
<1> QED
  BY <1>1, Invariance, PlanInvariance, PTL

\* No dispatch and no settlement ever refuses the run or sheds a task.
THEOREM PlanIsKept == Spec => OwnProgressIsSafe
<1>1. IInv /\ OnPlan /\ [Next]_vars => [ProgressIsSafe]_vars
  BY DispatchKeeps, SettleKeeps DEF ProgressIsSafe
<1> QED
  BY <1>1, Invariance, PlanInvariance, PTL DEF Spec, OwnProgressIsSafe

-----------------------------------------------------------------------------
(* The history can be replayed *)

\* What each event does, by its kind.
LEMMA AfterEach ==
  ASSUME NEW s, NEW p, NEW at, NEW x
  PROVE  /\ After(s, Rejected(p, at, x)) = Provider429(s, p, at, x)
         /\ After(s, WindowOver(p, at)) = ProviderReset(s, p, at)
         /\ After(s, Capacity(p, at, x)) = ProviderCapacity(s, p, at, x)
         /\ After(s, Cut(x, at)) = BudgetCut(s, x, at)
         /\ After(s, Dispatched(p, at)) = TaskDispatched([s EXCEPT !.now = at], p)
         /\ After(s, Settled(p, at, x)) = UsageSettled(s, p, x, at)
         /\ After(s, Unresolved(p, at)) = UnknownInflight(s, p, at)
         /\ After(s, CalledOff(at)) = Cancellation([s EXCEPT !.now = at])
<1>1. After(s, Rejected(p, at, x)) = Provider429(s, p, at, x)
  BY DEF After, Rejected
<1>2. After(s, WindowOver(p, at)) = ProviderReset(s, p, at)
  BY DEF After, WindowOver
<1>3. After(s, Capacity(p, at, x)) = ProviderCapacity(s, p, at, x)
  BY DEF After, Capacity
<1>4. After(s, Cut(x, at)) = BudgetCut(s, x, at)
  BY DEF After, Cut
<1>5. After(s, Dispatched(p, at)) = TaskDispatched([s EXCEPT !.now = at], p)
  BY DEF After, Dispatched
<1>6. After(s, Settled(p, at, x)) = UsageSettled(s, p, x, at)
  BY DEF After, Settled
<1>7. After(s, Unresolved(p, at)) = UnknownInflight(s, p, at)
  BY DEF After, Unresolved
<1>8. After(s, CalledOff(at)) = Cancellation([s EXCEPT !.now = at])
  BY DEF After, CalledOff
<1> QED
  BY <1>1, <1>2, <1>3, <1>4, <1>5, <1>6, <1>7, <1>8

\* What is asked of each event, by its kind.
LEMMA AcceptsEach ==
  ASSUME NEW s, s.status = "running", NEW p, NEW at, at >= s.now, at >= 0, NEW x
  PROVE  /\ p \in ProvidersOfRun /\ x > at /\ x >= 1 =>
              EventParses(Rejected(p, at, x)) /\ Accepts(s, Rejected(p, at, x))
         /\ p \in ProvidersOfRun /\ s.resets[p] # None /\ at >= s.resets[p] =>
              EventParses(WindowOver(p, at)) /\ Accepts(s, WindowOver(p, at))
         /\ p \in ProvidersOfRun =>
              EventParses(Capacity(p, at, x)) /\ Accepts(s, Capacity(p, at, x))
         /\ x \in Usages /\ Fits(x, s.caps) => EventParses(Cut(x, at)) /\ Accepts(s, Cut(x, at))
         /\ p = Choice(s, at) /\ plan.cost[p] \in Usages =>
              EventParses(Dispatched(p, at)) /\ Accepts(s, Dispatched(p, at))
         /\ p = s.inflight /\ x \in Usages /\ Fits(x, plan.cost[p]) =>
              EventParses(Settled(p, at, x)) /\ Accepts(s, Settled(p, at, x))
         /\ p = s.inflight /\ plan.cost[p] \in Usages =>
              EventParses(Unresolved(p, at)) /\ Accepts(s, Unresolved(p, at))
         /\ EventParses(CalledOff(at)) /\ Accepts(s, CalledOff(at))
<1> USE DEF EventParses, Accepts, ProviderKinds, UsageKinds
<1>1. p \in ProvidersOfRun /\ x > at /\ x >= 1 =>
        EventParses(Rejected(p, at, x)) /\ Accepts(s, Rejected(p, at, x))
  BY DEF Rejected
<1>2. p \in ProvidersOfRun /\ s.resets[p] # None /\ at >= s.resets[p] =>
        EventParses(WindowOver(p, at)) /\ Accepts(s, WindowOver(p, at))
  BY DEF WindowOver
<1>3. p \in ProvidersOfRun => EventParses(Capacity(p, at, x)) /\ Accepts(s, Capacity(p, at, x))
  BY DEF Capacity
<1>4. x \in Usages /\ Fits(x, s.caps) => EventParses(Cut(x, at)) /\ Accepts(s, Cut(x, at))
  BY DEF Cut
<1>5. p = Choice(s, at) /\ plan.cost[p] \in Usages =>
        EventParses(Dispatched(p, at)) /\ Accepts(s, Dispatched(p, at))
  BY DEF Dispatched
<1>6. p = s.inflight /\ x \in Usages /\ Fits(x, plan.cost[p]) =>
        EventParses(Settled(p, at, x)) /\ Accepts(s, Settled(p, at, x))
  BY DEF Settled
<1>7. p = s.inflight /\ plan.cost[p] \in Usages =>
        EventParses(Unresolved(p, at)) /\ Accepts(s, Unresolved(p, at))
  BY DEF Unresolved
<1>8. EventParses(CalledOff(at)) /\ Accepts(s, CalledOff(at))
  BY DEF CalledOff
<1> QED
  BY <1>1, <1>2, <1>3, <1>4, <1>5, <1>6, <1>7, <1>8

\* A recorded state can be read back.
LEMMA StateReads ==
  ASSUME IInv', OnPlan'
  PROVE  StateParses(ctl') /\ OutputsAgree'
<1>1. StateParses(ctl')
  BY DEF IInv, Books, OnPlan, PlanKept, States, StateParses
<1>2. OutputsAgree'
  BY DEF IInv, Books, States, Grounded, OnPlan, DriveFits, Durable, OutputsAgree
<1> QED
  BY <1>1, <1>2

\* A cancellation is recorded as one.
LEMMA CancelReplays ==
  ASSUME IInv, Cancel, StateParses(ctl')
  PROVE  Replays(ctl, Recorded, ctl')
<1>1. ctl.status = "running" /\ ctl' = Cancellation(ctl) /\ ctl \in States
  BY DEF Cancel, Transition, IInv, Books
<1>2. ctl'.now = ctl.now /\ ctl.now \in Nat /\ [ctl EXCEPT !.now = ctl.now] = ctl
      /\ ctl'.status = "cancelled"
  BY <1>1 DEF Cancellation, States
<1>3. Recorded = CalledOff(ctl.now)
  BY <1>2 DEF Recorded
<1>4. /\ EventParses(CalledOff(ctl.now)) /\ Accepts(ctl, CalledOff(ctl.now))
      /\ After(ctl, CalledOff(ctl.now)) = ctl'
  BY <1>1, <1>2, AcceptsEach, AfterEach
<1> QED
  BY <1>3, <1>4 DEF Replays

\* A dispatch is recorded as that of the task replay chooses.
LEMMA DispatchReplays ==
  ASSUME IInv, OnPlan, Dispatch, StateParses(ctl')
  PROVE  Replays(ctl, Recorded, ctl')
<1> DEFINE t == NextDispatch(ctl)
           r == [ctl EXCEPT !.inflight = t]
<1>1. ctl.status = "running" /\ t # None /\ ctl' = TaskDispatched(ctl, t) /\ ctl \in States
      /\ plan \in Plans
  BY DEF Dispatch, Transition, IInv, Books
<1>2. t \in Task /\ ctl.inflight = None
  BY <1>1, NextIsEligible DEF Eligible, Admitted
<1>3. t = Choice(ctl, ctl.now)
  BY DEF Choice, NextDispatch
<1> HIDE DEF t
<1>4. r \in States /\ r.inflight = t /\ r.now = ctl.now /\ r.status = "running"
  BY <1>1, <1>2 DEF States
<1>5. ctl' = Reconcile(r)
  BY <1>1 DEF TaskDispatched
<1>6. ctl'.inflight = t /\ ctl'.now = ctl.now /\ ctl'.status # "cancelled"
  BY <1>1, <1>4, <1>5, ReconcileKeeps
<1>7. Recorded = Dispatched(t, ctl.now)
  BY <1>1, <1>2, <1>6 DEF Recorded
<1>8. ctl.now \in Nat /\ [ctl EXCEPT !.now = ctl.now] = ctl /\ plan.cost[t] \in Usages
  BY <1>1, <1>2, PlanShape DEF States
<1>9. EventParses(Dispatched(t, ctl.now)) /\ Accepts(ctl, Dispatched(t, ctl.now))
  BY <1>1, <1>3, <1>8, AcceptsEach
<1>10. After(ctl, Dispatched(t, ctl.now)) = ctl'
  BY <1>1, <1>8, AfterEach
<1> QED
  BY <1>7, <1>9, <1>10 DEF Replays

\* A settlement is recorded with the usage that was added.
LEMMA SettlementReplays ==
  ASSUME IInv, ctl.status = "running", ctl.inflight # None, output[ctl.inflight] # None,
         NEW at \in Nat, at >= ctl.now,
         ctl' = UsageSettled(ctl, ctl.inflight, output[ctl.inflight], at), StateParses(ctl'),
         UNCHANGED plan
  PROVE  Replays(ctl, Recorded, ctl')
<1> DEFINE t == ctl.inflight
           o == output[t]
           r == [ctl EXCEPT !.now = at, !.inflight = None, !.completed = @ \cup {t},
                            !.settled = Plus(@, o)]
<1>1. /\ ctl \in States /\ plan \in Plans /\ t \in Task /\ ctl.settled \in Usages
      /\ o \in Usages /\ Fits(o, plan.cost[t]) /\ ctl.completed \in SUBSET Task
  BY DEF IInv, Books, States, Grounded, DriveKnows
<1>2. Plus(ctl.settled, o) \in Usages
  BY <1>1, PlusType
<1>3. ctl' = Reconcile(r)
  BY DEF UsageSettled
<1> HIDE DEF o
<1>4. /\ r \in States /\ r.now = at /\ r.inflight = None /\ r.completed = ctl.completed \cup {t}
      /\ r.settled = Plus(ctl.settled, o) /\ r.status = "running"
  BY <1>1, <1>2 DEF States
<1> HIDE DEF r, t
<1>5. /\ ctl'.now = at /\ ctl'.inflight = None /\ t \in ctl'.completed
      /\ ctl'.settled = Plus(ctl.settled, o) /\ ctl'.status # "cancelled"
  BY <1>1, <1>3, <1>4, ReconcileKeeps
<1>6. Minus(Plus(ctl.settled, o), ctl.settled) = o
  <2>1. \A u \in Units : ctl.settled[u] \in Nat /\ o[u] \in Nat
    BY <1>1 DEF Usages
  <2>2. \A u \in Units : (ctl.settled[u] + o[u]) - ctl.settled[u] = o[u]
    BY <2>1
  <2>3. Minus(Plus(ctl.settled, o), ctl.settled) = [u \in Units |-> o[u]]
    BY <2>2 DEF Minus, Plus
  <2>4. o = [u \in Units |-> o[u]]
    BY <1>1 DEF Usages
  <2> QED
    BY <2>3, <2>4
<1>7. Recorded = Settled(t, at, o)
  <2>1. ctl'.inflight # ctl.inflight /\ t = ctl.inflight /\ t # None
    BY <1>5 DEF t
  <2> QED
    BY <1>5, <1>6, <2>1 DEF Recorded
<1>8. EventParses(Settled(t, at, o)) /\ Accepts(ctl, Settled(t, at, o))
  BY <1>1, AcceptsEach DEF t
<1>9. After(ctl, Settled(t, at, o)) = ctl'
  <2>1. ctl' = UsageSettled(ctl, t, o, at)
    BY DEF t, o
  <2>2. After(ctl, Settled(t, at, o)) = UsageSettled(ctl, t, o, at)
    BY DEF After, Settled
  <2> QED
    BY <2>1, <2>2
<1> QED
  BY <1>7, <1>8, <1>9 DEF Replays

\* A call that is given up is recorded as one of unknown fate.
LEMMA UnknownReplays ==
  ASSUME IInv, ctl.status = "running", ctl.inflight # None,
         NEW at \in Nat, at >= ctl.now,
         ctl' = UnknownInflight(ctl, ctl.inflight, at), StateParses(ctl'), UNCHANGED plan
  PROVE  Replays(ctl, Recorded, ctl')
<1> DEFINE t == ctl.inflight
           shed == IF t \in Protected THEN ctl.shed ELSE ctl.shed \cup {t}
           status == IF t \in Protected THEN "refused" ELSE ctl.status
           r == [ctl EXCEPT !.now = at, !.inflight = None, !.unknown = @ \cup {t},
                  !.unknownUsage = Plus(@, plan.cost[t]), !.shed = shed, !.status = status]
<1>1. /\ ctl \in States /\ plan \in Plans /\ t \in Task /\ ctl.unknownUsage \in Usages
      /\ t \notin ctl.completed /\ ctl.shed \in SUBSET Task /\ ctl.unknown \in SUBSET Task
  BY DEF IInv, Books, States
<1>2. plan.cost[t] \in Usages /\ Plus(ctl.unknownUsage, plan.cost[t]) \in Usages
  BY <1>1, PlanShape, PlusType
<1>3. shed \in SUBSET Task /\ status \in {"running", "refused"}
  BY <1>1
<1>4. ctl' = Reconcile(r)
  BY DEF UnknownInflight
<1> HIDE DEF shed, status
<1>5. /\ r \in States /\ r.now = at /\ r.inflight = None /\ r.completed = ctl.completed
      /\ r.status = status
  BY <1>1, <1>2, <1>3 DEF States, Statuses
<1> HIDE DEF r, t
<1>6. /\ ctl'.now = at /\ ctl'.inflight = None /\ t \notin ctl'.completed
      /\ ctl'.status # "cancelled"
  BY <1>1, <1>3, <1>4, <1>5, ReconcileKeeps
<1>7. Recorded = Unresolved(t, at)
  <2>1. ctl'.inflight # ctl.inflight /\ t = ctl.inflight /\ t # None
    BY <1>6 DEF t
  <2> QED
    BY <1>6, <2>1 DEF Recorded
<1>8. EventParses(Unresolved(t, at)) /\ Accepts(ctl, Unresolved(t, at))
  BY <1>2, AcceptsEach DEF t
<1>9. After(ctl, Unresolved(t, at)) = ctl'
  BY AfterEach DEF t
<1> QED
  BY <1>7, <1>8, <1>9 DEF Replays

\* A run that goes on has a provider.
LEMMA SomeProvider ==
  ASSUME IInv, OnPlan, ctl.status = "running"
  PROVE  ProvidersOfRun # {} /\ ProvidersOfRun \in SUBSET Providers
<1>1. /\ plan \in Plans /\ ctl \in States /\ Sane(ctl)
      /\ ctl.inflight = None => Rest(ctl) # {}
  BY DEF IInv, Books, OnPlan, PlanKept
<1>2. \E t \in Task : t \notin ctl.shed
  <2>1. CASE ctl.inflight = None
    BY <1>1, <2>1 DEF Rest
  <2>2. CASE ctl.inflight # None
    BY <1>1, <2>2 DEF Sane, Underway, InFlight, States
  <2> QED
    BY <2>1, <2>2
<1>3. Admitted # {} /\ Admitted \in SUBSET Task
  BY <1>1, <1>2 DEF Sane, Admitted
<1>4. plan.provider \in [Task -> Providers]
  BY <1>1, PlanShape
<1> QED
  BY <1>3, <1>4 DEF ProvidersOfRun

\* What the record of a control event is made from.
LEMMA ControlRecorded ==
  ASSUME IInv, ctl.status = "running", NEW r \in States, Controlled(ctl, r), ctl' = Reconcile(r)
  PROVE  LET moved == {p \in Providers : r.resets[p] # ctl.resets[p]}
             turned == {p \in Providers : (p \in r.closed) # (p \in ctl.closed)}
             p == CHOOSE q \in ProvidersOfRun : moved \cup turned # {} => q \in moved \cup turned
         IN Recorded = IF r.caps # ctl.caps THEN Cut(r.caps, r.now)
                       ELSE IF moved = {} THEN Capacity(p, r.now, p \notin r.closed)
                       ELSE IF r.resets[p] = None THEN WindowOver(p, r.now)
                            ELSE Rejected(p, r.now, r.resets[p])
<1>1. /\ ctl'.caps = r.caps /\ ctl'.resets = r.resets /\ ctl'.closed = r.closed
      /\ ctl'.now = r.now /\ ctl'.inflight = ctl.inflight /\ ctl'.status # "cancelled"
  BY ReconcileKeeps DEF Controlled, IInv
<1> QED
  BY <1>1 DEF Recorded

\* An event that changes nothing but the time is replayed like a notice of the
\* capacity some provider has anyway.
LEMMA TimeReplays ==
  ASSUME IInv, OnPlan, ctl.status = "running", StateParses(ctl'),
         NEW at \in Nat, at >= ctl.now, ctl' = Reconcile([ctl EXCEPT !.now = at])
  PROVE  Replays(ctl, Recorded, ctl')
<1> DEFINE r == [ctl EXCEPT !.now = at]
           p == CHOOSE q \in ProvidersOfRun : TRUE
           open == p \notin ctl.closed
<1>1. ctl \in States /\ Fits(ctl.caps, Envelope)
  BY DEF IInv, Books
<1>2. p \in ProvidersOfRun
  BY SomeProvider
<1>3. /\ r \in States /\ r.caps = ctl.caps /\ r.resets = ctl.resets /\ r.closed = ctl.closed
      /\ r.now = at /\ Controlled(ctl, r)
  BY <1>1 DEF States, Controlled
<1>4. ctl' = Reconcile(r)
  OBVIOUS
<1>5. ProviderCapacity(ctl, p, at, open) = ctl'
  <2>1. (IF open THEN ctl.closed \ {p} ELSE ctl.closed \cup {p}) = ctl.closed
    OBVIOUS
  <2> HIDE DEF open, p
  <2>2. [ctl EXCEPT !.now = at, !.closed = IF open THEN ctl.closed \ {p} ELSE ctl.closed \cup {p}] = r
    BY <1>1, <2>1 DEF States
  <2>3. ProviderCapacity(ctl, p, at, open) =
          Reconcile([ctl EXCEPT !.now = at,
                       !.closed = IF open THEN ctl.closed \ {p} ELSE ctl.closed \cup {p}])
    BY <1>1 DEF ProviderCapacity, States
  <2> QED
    BY <1>4, <2>2, <2>3
<1> HIDE DEF r
<1>6. Recorded = Capacity(p, at, open)
  <2> DEFINE moved == {q \in Providers : r.resets[q] # ctl.resets[q]}
             turned == {q \in Providers : (q \in r.closed) # (q \in ctl.closed)}
             w == CHOOSE q \in ProvidersOfRun : moved \cup turned # {} => q \in moved \cup turned
  <2>1. moved = {} /\ turned = {}
    BY <1>3
  <2>2. w = p
    BY <2>1
  <2>3. Recorded = IF r.caps # ctl.caps THEN Cut(r.caps, r.now)
                   ELSE IF moved = {} THEN Capacity(w, r.now, w \notin r.closed)
                   ELSE IF r.resets[w] = None THEN WindowOver(w, r.now)
                        ELSE Rejected(w, r.now, r.resets[w])
    BY <1>3, <1>4, ControlRecorded
  <2> HIDE DEF moved, w, p
  <2>4. Recorded = Capacity(p, at, p \notin ctl.closed)
    BY <1>3, <2>1, <2>2, <2>3
  <2> QED
    BY <2>4
<1> HIDE DEF p, open
<1>7. EventParses(Capacity(p, at, open)) /\ Accepts(ctl, Capacity(p, at, open))
  BY <1>2, AcceptsEach
<1>8. After(ctl, Capacity(p, at, open)) = ctl'
  BY <1>5 DEF After, Capacity
<1> QED
  BY <1>6, <1>7, <1>8 DEF Replays

\* A notice of capacity is one.
LEMMA CapacityReplays ==
  ASSUME IInv, OnPlan, ctl.status = "running", StateParses(ctl'),
         NEW p \in ProvidersOfRun, NEW at \in Nat, at >= ctl.now, NEW open \in BOOLEAN,
         ctl' = ProviderCapacity(ctl, p, at, open)
  PROVE  Replays(ctl, Recorded, ctl')
<1> DEFINE closed == IF open THEN ctl.closed \ {p} ELSE ctl.closed \cup {p}
           r == [ctl EXCEPT !.now = at, !.closed = closed]
<1>1. ctl \in States /\ Fits(ctl.caps, Envelope) /\ ctl.closed \in SUBSET Providers
      /\ p \in Providers
  BY SomeProvider DEF IInv, Books, States
<1>2. ctl' = Reconcile(r) /\ closed \in SUBSET Providers
  BY <1>1 DEF ProviderCapacity, States
<1>3. CASE closed = ctl.closed
  <2> HIDE DEF closed
  <2>1. r = [ctl EXCEPT !.now = at]
    BY <1>1, <1>3 DEF States
  <2> QED
    BY <1>2, <2>1, TimeReplays
<1>4. CASE closed # ctl.closed
  <2>1. (p \in closed) # (p \in ctl.closed) /\ (p \notin closed) = open
        /\ \A q \in Providers : q # p => (q \in closed) = (q \in ctl.closed)
    BY <1>4
  <2> HIDE DEF closed
  <2>2. /\ r \in States /\ r.caps = ctl.caps /\ r.resets = ctl.resets /\ r.closed = closed
        /\ r.now = at /\ Controlled(ctl, r)
    BY <1>1, <1>2 DEF States, Controlled
  <2> HIDE DEF r
  <2> DEFINE moved == {q \in Providers : r.resets[q] # ctl.resets[q]}
             turned == {q \in Providers : (q \in r.closed) # (q \in ctl.closed)}
             w == CHOOSE q \in ProvidersOfRun : moved \cup turned # {} => q \in moved \cup turned
  <2>3. moved = {} /\ turned = {p}
    BY <1>1, <2>1, <2>2
  <2> HIDE DEF moved, turned
  <2>4. w = p
    BY <2>3
  <2>5. Recorded = IF r.caps # ctl.caps THEN Cut(r.caps, r.now)
                   ELSE IF moved = {} THEN Capacity(w, r.now, w \notin r.closed)
                   ELSE IF r.resets[w] = None THEN WindowOver(w, r.now)
                        ELSE Rejected(w, r.now, r.resets[w])
    BY <1>2, <2>2, ControlRecorded DEF moved, turned
  <2> HIDE DEF w
  <2>6. Recorded = Capacity(p, at, open)
    BY <2>1, <2>2, <2>3, <2>4, <2>5
  <2>7. EventParses(Capacity(p, at, open)) /\ Accepts(ctl, Capacity(p, at, open))
    BY AcceptsEach
  <2>8. After(ctl, Capacity(p, at, open)) = ctl'
    BY DEF After, Capacity
  <2> QED
    BY <2>6, <2>7, <2>8 DEF Replays
<1> QED
  BY <1>3, <1>4

\* So is a cut of the budget.
LEMMA CutReplays ==
  ASSUME IInv, OnPlan, ctl.status = "running", StateParses(ctl'),
         NEW caps \in Usages, Fits(caps, ctl.caps), NEW at \in Nat, at >= ctl.now,
         ctl' = BudgetCut(ctl, caps, at)
  PROVE  Replays(ctl, Recorded, ctl')
<1> DEFINE r == [ctl EXCEPT !.now = at, !.caps = caps]
<1>1. ctl \in States /\ Fits(ctl.caps, Envelope) /\ ctl.caps \in Usages
  BY DEF IInv, Books, States
<1>2. ctl' = Reconcile(r)
  BY DEF BudgetCut
<1>3. CASE caps = ctl.caps
  <2>1. r = [ctl EXCEPT !.now = at]
    BY <1>1, <1>3 DEF States
  <2> QED
    BY <1>2, <2>1, TimeReplays
<1>4. CASE caps # ctl.caps
  <2>1. Fits(caps, Envelope)
    BY <1>1, FitsTransitive, ControllerAssumption
  <2>2. r \in States /\ r.caps = caps /\ r.now = at /\ Controlled(ctl, r)
    BY <1>1, <2>1 DEF States, Controlled
  <2> HIDE DEF r
  <2>3. Recorded = Cut(caps, at)
    BY <1>2, <1>4, <2>2, ControlRecorded
  <2>4. EventParses(Cut(caps, at)) /\ Accepts(ctl, Cut(caps, at))
    BY AcceptsEach
  <2>5. After(ctl, Cut(caps, at)) = ctl'
    BY AfterEach
  <2> QED
    BY <2>3, <2>4, <2>5 DEF Replays
<1> QED
  BY <1>3, <1>4

\* A reset or a rejection moves the window of one provider.
LEMMA WindowRecorded ==
  ASSUME IInv, ctl.status = "running", NEW p \in ProvidersOfRun, p \in Providers,
         NEW at \in Nat, at >= ctl.now,
         NEW until \in Nat \cup {None}, until = None \/ until >= 1, until # ctl.resets[p],
         ctl' = Reconcile([ctl EXCEPT !.now = at, !.resets[p] = until])
  PROVE  Recorded = IF until = None THEN WindowOver(p, at) ELSE Rejected(p, at, until)
<1> DEFINE r == [ctl EXCEPT !.now = at, !.resets[p] = until]
<1>1. /\ ctl \in States /\ Fits(ctl.caps, Envelope)
      /\ ctl.resets \in [Providers -> Nat \cup {None}]
  BY DEF IInv, Books, States
<1>2. ctl' = Reconcile(r)
  OBVIOUS
<1>3. /\ r \in States /\ r.caps = ctl.caps /\ r.closed = ctl.closed /\ r.now = at
      /\ r.resets = [ctl.resets EXCEPT ![p] = until]
  BY <1>1 DEF States
<1>4. Controlled(ctl, r)
  BY <1>1, <1>3 DEF States, Controlled
<1> HIDE DEF r
<1> DEFINE moved == {q \in Providers : r.resets[q] # ctl.resets[q]}
           turned == {q \in Providers : (q \in r.closed) # (q \in ctl.closed)}
           w == CHOOSE q \in ProvidersOfRun : moved \cup turned # {} => q \in moved \cup turned
<1>5. r.resets[p] = until /\ \A q \in Providers : q # p => r.resets[q] = ctl.resets[q]
  BY <1>1, <1>3
<1>6. moved = {p} /\ turned = {}
  BY <1>3, <1>5
<1> HIDE DEF moved, turned
<1>7. w = p
  BY <1>6
<1>8. Recorded = IF r.caps # ctl.caps THEN Cut(r.caps, r.now)
                 ELSE IF moved = {} THEN Capacity(w, r.now, w \notin r.closed)
                 ELSE IF r.resets[w] = None THEN WindowOver(w, r.now)
                      ELSE Rejected(w, r.now, r.resets[w])
  BY <1>2, <1>3, <1>4, ControlRecorded DEF moved, turned
<1> HIDE DEF w
<1> QED
  BY <1>3, <1>5, <1>6, <1>7, <1>8

\* The end of a window is recorded as one.
LEMMA ResetReplays ==
  ASSUME IInv, OnPlan, ctl.status = "running", StateParses(ctl'),
         NEW p \in ProvidersOfRun, NEW at \in Nat, at >= ctl.now,
         ctl.resets[p] # None, at >= ctl.resets[p], ctl' = ProviderReset(ctl, p, at)
  PROVE  Replays(ctl, Recorded, ctl')
<1>1. p \in Providers /\ ctl' = Reconcile([ctl EXCEPT !.now = at, !.resets[p] = None])
  BY SomeProvider DEF ProviderReset
<1>2. Recorded = WindowOver(p, at)
  BY <1>1, WindowRecorded
<1>3. EventParses(WindowOver(p, at)) /\ Accepts(ctl, WindowOver(p, at))
  BY AcceptsEach
<1>4. After(ctl, WindowOver(p, at)) = ctl'
  BY AfterEach
<1> QED
  BY <1>2, <1>3, <1>4 DEF Replays

\* Of two rejections the later reset counts; that it is recorded instead of an
\* earlier one makes no difference.
LEMMA RejectionReplays ==
  ASSUME IInv, OnPlan, ctl.status = "running", StateParses(ctl'),
         NEW p \in ProvidersOfRun, NEW at \in Nat, at >= ctl.now,
         NEW reset \in Nat, reset > at, ctl' = Provider429(ctl, p, at, reset)
  PROVE  Replays(ctl, Recorded, ctl')
<1> DEFINE old == ctl.resets[p]
           until == IF old = None THEN reset ELSE Max({old, reset})
<1>1. ctl \in States /\ p \in Providers /\ old \in Nat \cup {None} /\ None \notin Nat
  BY SomeProvider, ControllerAssumption DEF IInv, Books, States
<1>2. ctl' = Reconcile([ctl EXCEPT !.now = at, !.resets[p] = until])
  BY <1>1 DEF Provider429, States
<1>3. until \in Nat /\ until >= reset /\ (old = None \/ until >= old)
  <2>1. CASE old = None
    BY <2>1
  <2>2. CASE old # None
    <3>1. old \in Nat
      BY <1>1, <2>2
    <3> HIDE DEF old
    <3>2. Max({old, reset}) \in Nat /\ Max({old, reset}) >= reset /\ Max({old, reset}) >= old
      BY <3>1, LaterOfTwo
    <3> QED
      BY <2>2, <3>2
  <2> QED
    BY <2>1, <2>2
<1>4. (IF old = None THEN until ELSE Max({old, until})) = until
  <2>1. CASE old = None
    BY <2>1
  <2>2. CASE old # None
    <3>1. old \in Nat
      BY <1>1, <2>2
    <3> HIDE DEF old, until
    <3>2. Max({old, until}) = until
      <4>1. \E m \in {old, until} : \A z \in {old, until} : m >= z
        BY <1>3, <3>1
      <4>2. Max({old, until}) \in {old, until} /\ Max({old, until}) >= until
        BY <4>1 DEF Max
      <4> QED
        BY <1>3, <2>2, <3>1, <4>2
    <3> QED
      BY <2>2, <3>2
  <2> QED
    BY <2>1, <2>2
<1> HIDE DEF until
<1>5. Provider429(ctl, p, at, until) = ctl'
  BY <1>1, <1>2, <1>4 DEF Provider429, States
<1>6. CASE until = old
  <2>1. [ctl EXCEPT !.now = at, !.resets[p] = until] = [ctl EXCEPT !.now = at]
    BY <1>1, <1>6 DEF States
  <2> QED
    BY <1>2, <2>1, TimeReplays
<1>7. CASE until # old
  <2>1. until # None /\ until >= 1 /\ until > at
    BY <1>1, <1>3
  <2>2. Recorded = Rejected(p, at, until)
    BY <1>1, <1>2, <1>3, <1>7, <2>1, WindowRecorded
  <2>3. EventParses(Rejected(p, at, until)) /\ Accepts(ctl, Rejected(p, at, until))
    BY <2>1, AcceptsEach
  <2>4. After(ctl, Rejected(p, at, until)) = ctl'
    BY <1>5 DEF After, Rejected
  <2> QED
    BY <2>2, <2>3, <2>4 DEF Replays
<1> QED
  BY <1>6, <1>7

\* Every control event is recorded so that it can be replayed.
LEMMA ControlReplays ==
  ASSUME IInv, OnPlan, Control429 \/ ControlReset \/ ControlCapacity \/ ControlCut,
         StateParses(ctl')
  PROVE  Replays(ctl, Recorded, ctl')
<1>1. ctl.status = "running"
  BY DEF Control429, ControlReset, ControlCapacity, ControlCut, Control
<1>2. \A at \in Later : at \in Nat /\ at >= ctl.now
  BY ControllerAssumption DEF Later, IInv, Books, States
<1>3. CASE Control429
  <2>1. PICK p \in ProvidersOfRun, at \in Later : \E reset \in at + 1..RunDeadline :
          Control(Provider429(ctl, p, at, reset))
    BY <1>3 DEF Control429
  <2>2. PICK reset \in at + 1..RunDeadline : Control(Provider429(ctl, p, at, reset))
    BY <2>1
  <2>3. reset \in Nat /\ reset > at
    BY <1>2, ControllerAssumption
  <2> QED
    BY <1>1, <1>2, <2>2, <2>3, RejectionReplays DEF Control, Transition
<1>4. CASE ControlReset
  <2>1. PICK p \in ProvidersOfRun, at \in Later :
          ctl.resets[p] # None /\ at >= ctl.resets[p] /\ Control(ProviderReset(ctl, p, at))
    BY <1>4 DEF ControlReset
  <2> QED
    BY <1>1, <1>2, <2>1, ResetReplays DEF Control, Transition
<1>5. CASE ControlCapacity
  <2>1. PICK p \in ProvidersOfRun, at \in Later, open \in BOOLEAN :
          Control(ProviderCapacity(ctl, p, at, open))
    BY <1>5 DEF ControlCapacity
  <2> QED
    BY <1>1, <1>2, <2>1, CapacityReplays DEF Control, Transition
<1>6. CASE ControlCut
  <2>1. PICK caps \in Cuts, at \in Later :
          Fits(caps, ctl.caps) /\ Control(BudgetCut(ctl, caps, at))
    BY <1>6 DEF ControlCut
  <2>2. caps \in Usages
    BY ServiceAssumption
  <2> QED
    BY <1>1, <1>2, <2>1, <2>2, CutReplays DEF Control, Transition
<1> QED
  BY <1>3, <1>4, <1>5, <1>6

\* Every step of the service is recorded so that it can be replayed.
LEMMA StepReads ==
  ASSUME IInv, OnPlan, [Next]_vars
  PROVE  StepReplays
<1>1. IInv' /\ OnPlan'
  BY Step, PlanStep
<1>2. StateParses(ctl') /\ OutputsAgree'
  BY <1>1, StateReads
<1> SUFFICES ASSUME ctl' # ctl PROVE Replays(ctl, Recorded, ctl')
  BY <1>2 DEF StepReplays
<1>3. ~(UNCHANGED vars)
  BY DEF vars, durable
<1>4. /\ ~PersistRunStart /\ ~ValidateOutputs /\ ~ValidationFails /\ ~PassGate /\ ~Park
      /\ ~Wake /\ ~Resume /\ ~RequestCancel /\ ~Crash /\ ~StartAttempt /\ ~Finish
      /\ \A actual \in Spent : ~WorkerReturns(actual)
  BY DEF PersistRunStart, ValidateOutputs, ValidationFails, PassGate, Park, Wake, Resume,
     RequestCancel, Crash, StartAttempt, Finish, WorkerReturns, durable
<1>5. CASE Cancel
  BY <1>2, <1>5, CancelReplays
<1>6. CASE Dispatch
  BY <1>2, <1>6, DispatchReplays
<1>7. CASE Settle
  <2>1. /\ ctl' = UsageSettled(ctl, ctl.inflight, output[ctl.inflight],
                               ctl.now + Elapsed(ctl.inflight))
        /\ drive = "returned" /\ UNCHANGED plan
    BY <1>7 DEF Settle, Transition
  <2>2. /\ ctl.status = "running" /\ ctl.inflight # None /\ output[ctl.inflight] # None
        /\ plan \in Plans /\ ctl.inflight \in Task /\ ctl.now \in Nat
    BY <2>1 DEF IInv, DriveKnows, Books, States, OnPlan, DriveFits, LockFree
  <2>3. Elapsed(ctl.inflight) \in Nat
    BY <2>2, PlanShape DEF Elapsed
  <2>4. ctl.now + Elapsed(ctl.inflight) \in Nat /\ ctl.now + Elapsed(ctl.inflight) >= ctl.now
    BY <2>2, <2>3
  <2> QED
    BY <1>2, <2>1, <2>2, <2>4, SettlementReplays
<1>8. CASE WorkerFails
  <2>1. PICK late \in {0, Elapsed(ctl.inflight)} :
          ctl' = UnknownInflight(ctl, ctl.inflight, ctl.now + late)
    BY <1>8 DEF WorkerFails, Transition
  <2>2. drive = "working" /\ UNCHANGED plan
    BY <1>8 DEF WorkerFails
  <2>3. /\ ctl.status = "running" /\ ctl.inflight # None
        /\ plan \in Plans /\ ctl.inflight \in Task /\ ctl.now \in Nat
    BY <2>2 DEF IInv, DriveKnows, Books, States, OnPlan, DriveFits, LockFree
  <2>4. late \in Nat
    BY <2>3, PlanShape DEF Elapsed
  <2>5. ctl.now + late \in Nat /\ ctl.now + late >= ctl.now
    BY <2>3, <2>4
  <2> QED
    BY <1>2, <2>1, <2>2, <2>3, <2>5, UnknownReplays
<1>9. CASE Control429 \/ ControlReset \/ ControlCapacity \/ ControlCut
  BY <1>2, <1>9, ControlReplays
<1>10. CASE \E at \in Later : Recover(at)
  <2>1. PICK at \in Later : Recover(at)
    BY <1>10
  <2>2. /\ ctl.status = "running" /\ ctl.inflight # None /\ ctl' = Recovery(at) /\ UNCHANGED plan
    BY <2>1 DEF Recover, Transition
  <2>3. at \in Nat /\ at >= ctl.now
    BY ControllerAssumption DEF Later, IInv, Books, States
  <2>4. CASE output[ctl.inflight] # None
    BY <1>2, <2>2, <2>3, <2>4, SettlementReplays DEF Recovery
  <2>5. CASE output[ctl.inflight] = None
    BY <1>2, <2>2, <2>3, <2>5, UnknownReplays DEF Recovery
  <2> QED
    BY <2>4, <2>5
<1> QED
  BY <1>3, <1>4, <1>5, <1>6, <1>7, <1>8, <1>9, <1>10 DEF Next, Coordinator, Worker, Operator

\* Wherever the process dies, what it recorded replays: every transition is
\* one the reducer accepts after the one before it and derives again.
THEOREM HistoryIsReplayable == Spec => HistoryReplays
<1>1. IInv /\ OnPlan /\ [Next]_vars => [StepReplays]_vars
  BY StepReads
<1> QED
  BY <1>1, Invariance, PlanInvariance, PTL DEF Spec, HistoryReplays
=============================================================================
