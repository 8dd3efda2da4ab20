----------------------------- MODULE Conservation -----------------------------
(***************************************************************************)
(* verify_conservation (ledger.py) and the admission certificate           *)
(* (feasibility.py): what may be believed of a schedule's result.          *)
(*                                                                         *)
(* The verifier derives everything again from the entries and events, with *)
(* definitions of its own.  A result r is a record [success, makespan,     *)
(* bound, used, risk, entries, skipped, events]: entries is a set of       *)
(* records, skipped and events are sequences.                              *)
(***************************************************************************)
EXTENDS WorkGraph

NoTask == 0
TaskEvents == {"selected", "started", "completed", "cancelled", "skipped"}
RunEvents == {"run.started", "run.completed", "run.failed"}

\* How a started task may end in a schedule.
Outcomes == {"completed", "cancelled"}

Scheduled(r) == {e.task : e \in r.entries}
EntryOf(r, t) == CHOOSE e \in r.entries : e.task = t
Said(r, t, type) == {i \in DOMAIN r.events : r.events[i].task = t /\ r.events[i].type = type}
SaidRun(r, type) == {i \in DOMAIN r.events : r.events[i].type = type}
TasksSaid(g, r, type) == {t \in g.tasks : Said(r, t, type) # {}}
MustFinish(g) == WithAncestors(g, g.tasks \ g.optional)

EntryIdentity(g, r) ==
  /\ Scheduled(r) \subseteq g.tasks
  /\ \A e, f \in r.entries : e.task = f.task => e = f

EntryShape(g, r) ==
  \A e \in r.entries :
    /\ 0 <= e.start /\ e.start <= e.end /\ e.end <= r.makespan
    /\ e.outcome \in Outcomes
    /\ e.optional = (e.task \in g.optional)

\* The entry carries the numbers of one profile of its task that is good enough.
ProfileIntegrity(g, r) ==
  \A e \in r.entries :
    \E p \in g.profiles[e.task] :
      /\ p.id = e.backend /\ p.provider = e.provider
      /\ p.quality >= g.minq[e.task]
      /\ p.use = e.use /\ p.risk = e.risk
      /\ IF e.outcome = "completed" THEN e.end - e.start = p.p95 ELSE e.end - e.start <= p.p95

TaskDeadlines(g, env, r) ==
  \A e \in r.entries : e.outcome = "completed" => e.end <= DueBy(g, env, e.task)

EventOrder(r) ==
  \A i \in DOMAIN r.events :
    /\ r.events[i].time >= 0
    /\ i > 1 => r.events[i - 1].time <= r.events[i].time

EventIdentity(g, r) ==
  \A i \in DOMAIN r.events :
    \/ r.events[i].type \in TaskEvents /\ r.events[i].task \in g.tasks
    \/ r.events[i].type \in RunEvents /\ r.events[i].task = NoTask

RunLifecycle(r) ==
  LET n == Len(r.events)
      ended == IF r.success THEN "run.completed" ELSE "run.failed"
      other == IF r.success THEN "run.failed" ELSE "run.completed"
  IN /\ SaidRun(r, "run.started") = {1} /\ r.events[1].time = 0
     /\ SaidRun(r, ended) = {n} /\ SaidRun(r, other) = {}
     /\ r.events[n].time = r.makespan

\* Selected, started and ended once each, in this order, at the entry's times.
Aligned(r, t) ==
  LET e == EntryOf(r, t)
      terminal == Said(r, t, "completed") \union Said(r, t, "cancelled")
  IN \E i, j, k \in DOMAIN r.events :
       /\ Said(r, t, "selected") = {i} /\ Said(r, t, "started") = {j} /\ i < j
       /\ terminal = {k} /\ j < k /\ r.events[k].type = e.outcome
       /\ r.events[j].time = e.start /\ r.events[k].time = e.end
       /\ Said(r, t, "skipped") = {}

TaskLifecycle(g, r) ==
  \A t \in g.tasks :
    IF t \in Scheduled(r) THEN Aligned(r, t)
    ELSE /\ \A type \in TaskEvents \ {"skipped"} : Said(r, t, type) = {}
         /\ Cardinality(Said(r, t, "skipped")) <= 1

SkipIntegrity(g, r) ==
  LET skips == ToSet(r.skipped)
  IN /\ Len(r.skipped) = Cardinality(skips)
     /\ skips = TasksSaid(g, r, "skipped")
     /\ skips \cap MustFinish(g) = {}
     /\ skips \cap Scheduled(r) = {}

DependencyOrder(g, r) ==
  \A e \in r.entries : \A d \in g.deps[e.task] :
    \E f \in r.entries : f.task = d /\ f.outcome = "completed" /\ f.end <= e.start

Finished(r) == {e.task : e \in {f \in r.entries : f.outcome = "completed"}}

Completeness(g, r) ==
  r.success => /\ MustFinish(g) \subseteq Finished(r)
               /\ TasksSaid(g, r, "cancelled") = {}
               /\ Finished(r) \union ToSet(r.skipped) = g.tasks

Summed(r) == [u \in Units |-> SumOver(r.entries, [e \in r.entries |-> e.use[u]])]
SummedRisk(r) == SumOver(r.entries, [e \in r.entries |-> e.risk])

Accounting(r) == Summed(r) = r.used
Caps(env, r) == Within(Summed(r), env.caps)
Reliability(env, r) == SummedRisk(r) = r.risk /\ (r.success => r.risk <= env.risk)

\* The peak of half-open intervals is reached where one of them starts.
PeakConcurrency(entries) ==
  Largest({Cardinality({f \in entries : f.start <= e.start /\ e.start < f.end}) : e \in entries})

ConcurrencyCaps(env, r) ==
  /\ PeakConcurrency(r.entries) <= env.parallelism
  /\ \A p \in {e.provider : e \in r.entries} :
       PeakConcurrency({e \in r.entries : e.provider = p})
         <= Least(ProviderLimit(env, p), env.parallelism)

EffectSerialization(g, r) ==
  \A e, f \in r.entries :
    LET a == g.effect[e.task]  b == g.effect[f.task]
    IN (/\ e # f /\ a.resource # "none" /\ a.resource = b.resource
        /\ e.start < f.end /\ f.start < e.end)
       => ~Writes(a.kind) /\ ~Writes(b.kind)

\* Longest chain, all work over all slots, each provider's work over its slots.
ModelBound(g, env, entries) ==
  LET length == [t \in {e.task : e \in entries} |->
                   LET e == CHOOSE e \in entries : e.task = t IN e.end - e.start]
      ranks == UpwardRanks(g, length, DOMAIN length)
      work(S) == SumOver(S, [e \in S |-> e.end - e.start])
  IN Largest({ranks[t] : t \in DOMAIN ranks}
             \union {CeilDiv(work(entries), env.parallelism)}
             \union {CeilDiv(work({e \in entries : e.provider = p}),
                             Least(ProviderLimit(env, p), env.parallelism))
                     : p \in {e.provider : e \in entries}})

BoundHolds(g, env, r) ==
  r.success => r.bound = ModelBound(g, env, r.entries) /\ r.bound <= r.makespan

RunDeadline(env, r) == r.success => r.makespan <= env.deadline

\* All that is verified but for the effects.
AccountsHold(g, env, r) ==
  /\ EntryIdentity(g, r) /\ EntryShape(g, r) /\ ProfileIntegrity(g, r)
  /\ TaskDeadlines(g, env, r) /\ EventOrder(r) /\ EventIdentity(g, r)
  /\ RunLifecycle(r) /\ TaskLifecycle(g, r) /\ SkipIntegrity(g, r)
  /\ DependencyOrder(g, r) /\ Completeness(g, r) /\ Accounting(r) /\ Caps(env, r)
  /\ Reliability(env, r) /\ ConcurrencyCaps(env, r)
  /\ BoundHolds(g, env, r) /\ RunDeadline(env, r)

VerifyConservation(g, env, r) == AccountsHold(g, env, r) /\ EffectSerialization(g, r)

-----------------------------------------------------------------------------
\* The certificate of FeasibilityAnalyzer.analyze.

Status(r) ==
  IF ~r.success THEN "refused" ELSE IF r.skipped # <<>> THEN "degraded" ELSE "feasible"

Certificate(env, r) ==
  [status  |-> Status(r),
   skipped |-> r.skipped,
   chosen  |-> {<<e.task, e.backend>> : e \in r.entries},
   checks  |-> [deadline |-> r.success /\ r.makespan <= env.deadline,
                budget   |-> [u \in Units |-> r.used[u] <= env.caps[u]],
                success  |-> r.success /\ r.risk <= env.risk,
                work     |-> r.success]]
=============================================================================
