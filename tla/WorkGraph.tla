------------------------------ MODULE WorkGraph ------------------------------
(***************************************************************************)
(* Task graphs and run envelopes (contracts.py, graph.py), the input of    *)
(* scheduling, verification and replanning.                                *)
(*                                                                         *)
(* A graph is a record of functions over its task ids, which are numbers   *)
(* in the order of their names.  A profile's id orders (provider, name).   *)
(* The success probability 1 - p of a profile is 2^-risk: products of      *)
(* probabilities are sums of risks, and the floor is a cap on the sum      *)
(* (p = 1, the infinite risk, is left out).                                *)
(***************************************************************************)
EXTENDS Integers, Sequences, FiniteSets, SequencesExt

\* The additive resources of a profile.
Units == {"tokens", "cost", "context"}

Zero == [u \in Units |-> 0]
Plus(v, w) == [u \in Units |-> v[u] + w[u]]
Minus(v, w) == [u \in Units |-> v[u] - w[u]]
Within(v, cap) == \A u \in Units : v[u] <= cap[u]

Largest(S) == IF S = {} THEN 0 ELSE Max(S)
Least(a, b) == IF a < b THEN a ELSE b
CeilDiv(a, b) == (a + b - 1) \div b

SumOver(S, f) == SumFunctionOnSet(f, S)

\* The finite set S in the order of its pairs <<earlier, later>>.
Listed(S, before) ==
  [i \in 1..Cardinality(S) |->
     CHOOSE x \in S : Cardinality({y \in S : <<y, x>> \in before}) = i - 1]

Increasing(S) == {p \in S \X S : p[1] < p[2]}

\* The elements of the sequence s at the places in I.
Picked(s, I) == LET order == Listed(I, Increasing(I)) IN [i \in DOMAIN order |-> s[order[i]]]

\* Tuples of the same length compare like Python's.
LexLess(k, l) ==
  \E i \in DOMAIN k : k[i] < l[i] /\ \A j \in 1..(i - 1) : k[j] = l[j]

-----------------------------------------------------------------------------
\* The records: what the constructors of the contracts leave possible.

ProfileShape(p) ==
  /\ {"id", "provider", "p95", "quality", "risk", "use"} \subseteq DOMAIN p
  /\ p.id \in Int /\ p.p95 \in Int /\ p.quality \in Int /\ p.risk \in Int
  /\ p.use \in [Units -> Int]

GraphShape(g) ==
  /\ IsFiniteSet(g.tasks) /\ g.tasks \subseteq Nat \ {0} /\ g.optional \subseteq g.tasks
  /\ \A t \in g.tasks :
       /\ IsFiniteSet(g.profiles[t]) /\ \A p \in g.profiles[t] : ProfileShape(p)
       /\ g.due[t] \in Nat /\ g.value[t] \in Int /\ g.minq[t] \in Int

EnvelopeShape(e) ==
  /\ {"deadline", "parallelism", "caps", "limits", "risk"} \subseteq DOMAIN e
  /\ e.deadline \in Int /\ e.parallelism \in Int /\ e.risk \in Nat
  /\ e.caps \in [Units -> Int]
  /\ \A p \in DOMAIN e.limits : e.limits[p] \in Int

Writes(kind) == kind \in {"idempotent_write", "reversible_write", "irreversible_write"}

-----------------------------------------------------------------------------
\* Validation.

Qualified(g, t) == {p \in g.profiles[t] : p.quality >= g.minq[t]}

ValidProfile(p) ==
  p.p95 >= 0 /\ p.quality >= 0 /\ p.risk >= 0 /\ \A u \in Units : p.use[u] >= 0

ValidEffect(effect) == effect.kind # "pure" => effect.resource # "none"

\* No task without an effect names a resource.
PureTasksAreFree(g) == \A t \in g.tasks : g.effect[t].kind = "pure" => g.effect[t].resource = "none"

ValidTask(g, t) ==
  /\ t \notin g.deps[t]
  /\ g.deps[t] \subseteq g.tasks
  /\ Qualified(g, t) # {}
  /\ \A p \in g.profiles[t] : ValidProfile(p)
  /\ \A p, q \in g.profiles[t] : p.id = q.id => p = q
  /\ ValidEffect(g.effect[t])

\* Every set of tasks has one that needs no other of the set.
Acyclic(g) == \A S \in SUBSET g.tasks \ {{}} : \E t \in S : g.deps[t] \cap S = {}

\* g.inputs[t] are the producers of t's typed inputs.
PortsBind(g) == \A t \in g.tasks : g.inputs[t] \subseteq g.deps[t]

ValidGraph(g) == (\A t \in g.tasks : ValidTask(g, t)) /\ PortsBind(g) /\ Acyclic(g)

ValidEnvelope(e) ==
  /\ e.deadline > 0 /\ e.parallelism > 0
  /\ \A u \in Units : e.caps[u] >= 0
  /\ \A p \in DOMAIN e.limits : e.limits[p] > 0

ProviderLimit(e, p) == IF p \in DOMAIN e.limits THEN e.limits[p] ELSE e.parallelism

-----------------------------------------------------------------------------
Successors(g, t) == {c \in g.tasks : t \in g.deps[c]}

\* S with everything its members depend on, directly or not.
WithAncestors(g, S) ==
  LET level[n \in 0..Cardinality(g.tasks)] ==
        IF n = 0 THEN S
        ELSE LET below == level[n - 1] IN below \union UNION {g.deps[t] : t \in below}
  IN level[Cardinality(g.tasks)]

\* Own duration plus the longest path below, among the included tasks.
UpwardRanks(g, duration, included) ==
  LET rank[t \in included] ==
        duration[t] + Largest({rank[c] : c \in Successors(g, t) \cap included})
  IN rank

\* A task's own deadline, 0 when it has none, cut to the run's.
DueBy(g, e, t) == IF g.due[t] = 0 THEN e.deadline ELSE Least(g.due[t], e.deadline)
=============================================================================
