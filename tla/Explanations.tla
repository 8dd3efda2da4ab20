----------------------------- MODULE Explanations -----------------------------
(***************************************************************************)
(* explain_schedule (decision_explanations.py): one record per event of a  *)
(* schedule, with an action and numeric facts recomputed from the events   *)
(* alone.  A fact that compares an observation with a limit must hold, or  *)
(* the whole explanation is refused.  Facts without a limit, rule names    *)
(* and digests are left out.                                               *)
(***************************************************************************)
EXTENDS Conservation

-----------------------------------------------------------------------------
\* What the events before the i-th and up to it have said.

SaidBefore(r, i, type) == {r.events[j].task : j \in {k \in 1..(i - 1) : r.events[k].type = type}}

Snapshot(r, i) ==
  LET selected == SaidBefore(r, i, "selected")
      completed == SaidBefore(r, i, "completed")
      cancelled == SaidBefore(r, i, "cancelled")
      paid == {e \in r.entries : e.task \in selected}
  IN [selected |-> selected, completed |-> completed, cancelled |-> cancelled,
      skipped |-> SaidBefore(r, i, "skipped"),
      running |-> SaidBefore(r, i, "started") \ (completed \union cancelled),
      used |-> [u \in Units |-> SumOver(paid, [e \in paid |-> e.use[u]])]]

Before(r, i) == Snapshot(r, i)
After(r, i) == Snapshot(r, i + 1)

\* Events whose order cannot be explained refuse the explanation.
InOrder(r, i) ==
  LET event == r.events[i]  before == Before(r, i)
  IN /\ event.type = "selected" => event.task \notin before.selected
     /\ event.type = "started" => event.task \in before.selected
     /\ event.type \in {"completed", "cancelled"} => event.task \in before.running
     /\ event.type = "skipped" => event.task \notin before.selected

-----------------------------------------------------------------------------
ProfileOf(g, entry) ==
  CHOOSE p \in g.profiles[entry.task] : p.id = entry.backend /\ p.provider = entry.provider

OneProfile(g, entry) ==
  Cardinality({p \in g.profiles[entry.task] :
                 p.id = entry.backend /\ p.provider = entry.provider}) = 1

BestQuality(g, t) == Largest({p.quality : p \in Qualified(g, t)})

Action(g, r, event) ==
  CASE event.type = "run.started" -> "run_start"
    [] event.type = "selected" ->
         IF ProfileOf(g, EntryOf(r, event.task)).quality < BestQuality(g, event.task)
         THEN "degraded_profile_selection" ELSE "profile_selection"
    [] event.type = "started" -> "dispatch_admitted"
    [] event.type = "completed" -> "task_completion"
    [] event.type = "skipped" -> "optional_shed"
    [] event.type = "cancelled" -> "task_cancellation"
    [] event.type = "run.completed" -> "run_completion"
    [] event.type = "run.failed" -> "run_refusal"

\* The end recorded with the dispatch: what a cancellation cuts short.
PlannedEnd(g, r, t) == EntryOf(r, t).start + ProfileOf(g, EntryOf(r, t)).p95

-----------------------------------------------------------------------------
AtMost(metric, observed, limit) == [metric |-> metric, holds |-> observed <= limit]
AtLeast(metric, observed, limit) == [metric |-> metric, holds |-> observed >= limit]
Equal(metric, observed, limit) == [metric |-> metric, holds |-> observed = limit]

\* Mutant: also when the task is running already.
PredictedAlways(event) == 1

\* A selection or a dispatch counts the task it is about.
Predicted(event) == IF event.type \in {"selected", "started"} THEN 1 ELSE 0

\* The facts about a task that has a schedule entry.
ProfileFacts(g, env, policy, r, i) ==
  LET event == r.events[i]
      entry == EntryOf(r, event.task)
      profile == ProfileOf(g, entry)
      before == Before(r, i)  after == After(r, i)
      here == {t \in before.running : EntryOf(r, t).provider = profile.provider}
  IN {AtMost(u, after.used[u], env.caps[u]) : u \in Units}
     \union {Equal("dependencies_completed_before",
                   g.deps[event.task] \intersect before.completed, g.deps[event.task]),
             AtMost("global_running_count", Cardinality(before.running) + Predicted(event),
                    IF policy = "sequential" THEN 1 ELSE env.parallelism),
             AtMost("provider_running_count", Cardinality(here) + Predicted(event),
                    ProviderLimit(env, profile.provider)),
             AtMost("modeled_run_success_probability", r.risk, env.risk),
             AtMost("planned_end_ms", PlannedEnd(g, r, event.task), DueBy(g, env, event.task)),
             AtLeast("profile_quality", profile.quality, g.minq[event.task])}

\* The facts of the last event.
RunFacts(env, r) ==
  {AtMost(u, r.used[u], env.caps[u]) : u \in Units}
  \union {AtMost("modeled_success_probability", r.risk, env.risk),
          AtMost("run_makespan_ms", r.makespan, env.deadline)}

Facts(g, env, policy, r, i) ==
  LET event == r.events[i]
  IN IF event.type \in {"run.completed", "run.failed"} THEN RunFacts(env, r)
     ELSE IF event.task \in Scheduled(r) THEN ProfileFacts(g, env, policy, r, i)
     ELSE {}

\* A record carries each metric once and no comparison that fails.
RecordVerifies(facts) ==
  /\ \A fact \in facts : fact.holds
  /\ \A f, h \in facts : f.metric = h.metric => f = h

\* explain_schedule returns a record for the event instead of raising.
Explained(g, env, policy, r, i) ==
  InOrder(r, i) /\ RecordVerifies(Facts(g, env, policy, r, i))

EntriesExplained(g, r) == \A entry \in r.entries : OneProfile(g, entry)

\* One record per event, in the order of the events.
Records(g, r) ==
  [i \in DOMAIN r.events |->
     [sequence |-> i, action |-> Action(g, r, r.events[i]), task |-> r.events[i].task]]

\* Every degraded selection is reported as one, and no other.
Degradations(records) == {i \in DOMAIN records : records[i].action = "degraded_profile_selection"}

BundleVerifies(records) == records # <<>> /\ \A i \in DOMAIN records : records[i].sequence = i
=============================================================================
