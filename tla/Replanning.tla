----------------------------- MODULE Replanning -----------------------------
(***************************************************************************)
(* EventDrivenReplanner (replanning.py): one disturbance and a cumulative  *)
(* snapshot of what has happened give the next revision of a durable       *)
(* state, and a schedule of what remains of the original graph, or a       *)
(* refusal.                                                                *)
(*                                                                         *)
(* The caller is not trusted: any disturbance and any snapshot may be      *)
(* handed in, stale or repeated ones included; what the replanner raises   *)
(* on leaves everything as it was.  The schedule of the residual graph is  *)
(* computed by the steps of Scheduler between two actions of replan.       *)
(* Digests, which tell two values apart, are the values.                   *)
(***************************************************************************)
EXTENDS Scheduler

CONSTANTS
  Snapshots,     \* [completed, skipped, seals, settled, elapsed], seals: task -> intent
  Disturbances,  \* [id, kind, ...] by kind: provider, permille, task, capacity, envelope
  MaxRevisions   \* bound on the length of a run's history

\* What the records of requests and events are typed to.
ASSUME SnapshotsAssumption ==
  \A n \in Snapshots : n.settled \in [Units -> Int] /\ n.elapsed \in Int

ASSUME DisturbancesAssumption ==
  \A e \in Disturbances :
    /\ e.kind = "slowdown" => e.permille \in Int
    /\ e.kind = "capacity" => e.capacity \in Int
    /\ e.kind = "envelope" => EnvelopeShape(e.envelope)

VARIABLES
  origin,    \* [graph, envelope] the run was bound to at revision zero
  durable,   \* DurableRunState
  request,   \* [event, snapshot] while its residual graph is being scheduled, or None
  decision   \* the last decision: [disposition, reason, shed]

None == [none |-> TRUE]

rvars == <<vars, origin, durable, request, decision>>

O == origin.graph
Promised == WithAncestors(O, O.tasks \ O.optional)
Sealed(seals) == DOMAIN seals

\* f with its value at x replaced or added.
Put(f, x, v) == [y \in DOMAIN f \union {x} |-> IF y = x THEN v ELSE f[y]]
At(f, x, default) == IF x \in DOMAIN f THEN f[x] ELSE default

-----------------------------------------------------------------------------
\* What replan raises on.

SealsStay(s, n) == \A t \in Sealed(s.seals) : t \in Sealed(n.seals) /\ n.seals[t] = s.seals[t]
SealsAreWrites(n) == \A t \in Sealed(n.seals) : t \in O.tasks /\ Writes(O.effect[t].kind)
SealsDiffer(n) == \A t, u \in Sealed(n.seals) : n.seals[t] = n.seals[u] => t = u

\* Prior seals are neither removed nor changed; only write tasks are sealed.
BoundaryGrows(s, n) == SealsStay(s, n) /\ SealsAreWrites(n) /\ SealsDiffer(n)

Providers(t) == {p.provider : p \in O.profiles[t]}
KnownProviders == UNION {Providers(t) : t \in O.tasks}

ValidEvent(e) ==
  \/ e.kind = "slowdown" /\ e.provider \in KnownProviders /\ e.permille > 1000
  \/ e.kind = "failure" /\ e.task \in O.tasks /\ e.provider \in Providers(e.task)
  \/ e.kind = "capacity" /\ e.provider \in KnownProviders /\ e.capacity >= 0
  \/ e.kind = "envelope" /\ ValidEnvelope(e.envelope)

FactsGrow(s, n) ==
  /\ n.elapsed >= s.elapsed
  /\ Within(s.settled, n.settled)
  /\ s.completed \subseteq n.completed
  /\ s.skipped \subseteq n.skipped

TerminalSets(n) ==
  /\ n.completed \union n.skipped \subseteq O.tasks
  /\ n.completed \cap n.skipped = {}
  /\ n.skipped \cap Sealed(n.seals) = {}
  /\ \A t \in n.completed : Writes(O.effect[t].kind) => t \in Sealed(n.seals)

CompletionClosure(n) == \A t \in n.completed \union Sealed(n.seals) : O.deps[t] \subseteq n.completed

\* A task that is over, or whose effect may be under way, cannot fail any more.
FailureIsOpen(e, n) ==
  e.kind = "failure" => e.task \notin n.completed \union n.skipped \union Sealed(n.seals)

\* Mutant: a snapshot taken before the last revision passes.
AcceptsStale(s, e, n) ==
  /\ BoundaryGrows(s, n) /\ ValidEvent(e)
  /\ e.id \notin ToSet(s.applied)
  /\ TerminalSets(n) /\ CompletionClosure(n) /\ FailureIsOpen(e, n)

Accepts(s, e, n) ==
  /\ BoundaryGrows(s, n) /\ ValidEvent(e)
  /\ e.id \notin ToSet(s.applied)
  /\ FactsGrow(s, n) /\ TerminalSets(n) /\ CompletionClosure(n) /\ FailureIsOpen(e, n)

-----------------------------------------------------------------------------
\* The event becomes part of the run's conditions.

Applied(s, e) ==
  [envelope   |-> IF e.kind = "envelope" THEN e.envelope ELSE s.envelope,
   capacities |-> IF e.kind = "capacity" THEN Put(s.capacities, e.provider, e.capacity) ELSE s.capacities,
   slowdowns  |-> IF e.kind = "slowdown" THEN Put(s.slowdowns, e.provider, e.permille) ELSE s.slowdowns,
   failed     |-> IF e.kind = "failure" THEN s.failed \union {<<e.task, e.provider>>} ELSE s.failed]

ScaledDuration(d, permille) == (d * permille + 999) \div 1000

\* What is left of a task's profiles under the conditions c.
TransformedProfiles(c, t) ==
  {[p EXCEPT !.p95 = ScaledDuration(p.p95, At(c.slowdowns, p.provider, 1000))]
   : p \in {q \in O.profiles[t] : /\ At(c.capacities, q.provider, 1) # 0
                                  /\ <<t, q.provider>> \notin c.failed}}

PendingSeals(n) == Sealed(n.seals) \ n.completed
Late(n, t) == O.due[t] # 0 /\ O.due[t] - n.elapsed <= 0
Profileless(c, t) == ~\E p \in TransformedProfiles(c, t) : p.quality >= O.minq[t]

\* Mutant: an effect that may be under way is planned again.
UnfinishedOfSealed(n) == O.tasks \ (n.completed \union n.skipped)

Unfinished(n) == O.tasks \ (n.completed \union PendingSeals(n) \union n.skipped)

\* Tasks whose promise cannot be kept under the conditions, whatever else is shed.
Uncommitted(n, t) == O.deps[t] \cap PendingSeals(n) # {}
Hopeless(c, n, t) == Uncommitted(n, t) \/ Profileless(c, t) \/ Late(n, t)

\* The fixpoint of the shedding loop: hopeless optional work and all behind it.
AutoShed(c, n) ==
  LET open == Unfinished(n) \ Promised
      shed[k \in 0..Cardinality(O.tasks)] ==
        IF k = 0 THEN {t \in open : Hopeless(c, n, t)}
        ELSE LET gone == shed[k - 1]
             IN gone \union {t \in open : O.deps[t] \cap (gone \union n.skipped) # {}}
  IN shed[Cardinality(O.tasks)]

\* What residual tasks need no longer wait for.
Satisfied(n) == n.completed

ResidualGraph(c, n) ==
  LET left == Unfinished(n) \ AutoShed(c, n)
  IN [tasks |-> left, optional |-> O.optional \cap left,
      deps |-> [t \in left |-> O.deps[t] \ Satisfied(n)],
      profiles |-> [t \in left |-> TransformedProfiles(c, t)],
      due |-> [t \in left |-> IF O.due[t] = 0 THEN 0 ELSE O.due[t] - n.elapsed],
      inputs |-> [t \in left |-> O.inputs[t]],
      value |-> O.value, minq |-> O.minq, effect |-> O.effect]

\* Why no residual graph can be built: the first promised task in the order of the graph.
ResidualRefusal(c, n) ==
  LET broken == {t \in Unfinished(n) \cap Promised : Hopeless(c, n, t)}
      t == Min(broken)
  IN IF n.skipped \cap Promised # {} THEN "mandatory_promise_broken"
     ELSE IF broken # {}
     THEN IF Uncommitted(n, t) THEN "effect_commit_unconfirmed"
          ELSE IF Late(n, t) THEN "deadline_exhausted" ELSE "no_admissible_profile"
     ELSE IF ResidualGraph(c, n).tasks = {} /\ PendingSeals(n) # {}
     THEN "effect_commit_unconfirmed" ELSE "none"

Overspent(c, n) == ~Within(n.settled, c.envelope.caps)

ConsumedEnvelopeRefusal(c, n) ==
  IF Overspent(c, n) THEN "resource_exhausted"
  ELSE IF n.elapsed > c.envelope.deadline THEN "deadline_exhausted" ELSE "none"

RemainingRefusal(c, n) ==
  IF Overspent(c, n) THEN "resource_exhausted"
  ELSE IF n.elapsed >= c.envelope.deadline THEN "deadline_exhausted" ELSE "none"

\* Reported capacities replace the envelope's limits; a provider without one is gone.
LimitsLeft(c) ==
  LET limit(p) == IF p \in DOMAIN c.capacities THEN c.capacities[p] ELSE c.envelope.limits[p]
  IN [p \in {q \in DOMAIN c.capacities \union DOMAIN c.envelope.limits : limit(q) > 0} |-> limit(p)]

\* Mutant: what earlier revisions spent is available again.
RemainingEnvelopeRefilled(c, n) ==
  [c.envelope EXCEPT !.deadline = @ - n.elapsed, !.limits = LimitsLeft(c)]

RemainingEnvelope(c, n) ==
  [c.envelope EXCEPT !.deadline = @ - n.elapsed, !.caps = Minus(@, n.settled), !.limits = LimitsLeft(c)]

-----------------------------------------------------------------------------
\* The durable state of the next revision.

NextState(s, e, n, shed) ==
  LET c == Applied(s, e)
  IN [revision |-> s.revision + 1, applied |-> Append(s.applied, e.id),
      envelope |-> c.envelope, capacities |-> c.capacities, slowdowns |-> c.slowdowns,
      failed |-> c.failed, completed |-> n.completed, skipped |-> n.skipped \union shed,
      seals |-> n.seals, settled |-> n.settled, elapsed |-> n.elapsed]

\* What _validate_state_shape asks of every state that is made, stored or read back.
ValidateStateShape(s) ==
  /\ s.revision = Len(s.applied)
  /\ Cardinality(ToSet(s.applied)) = s.revision
  /\ ValidEnvelope(s.envelope) /\ Within(Zero, s.settled) /\ s.elapsed >= 0
  /\ \A p \in DOMAIN s.capacities : s.capacities[p] >= 0
  /\ \A p \in DOMAIN s.slowdowns : s.slowdowns[p] > 1000

\* Reading a stored state back gives that state, or nothing when it does not validate.
Restored(s) == IF ValidateStateShape(s) THEN s ELSE None

InitialState(env, n) ==
  [revision |-> 0, applied |-> <<>>, envelope |-> env, completed |-> n.completed,
   skipped |-> n.skipped, seals |-> n.seals, settled |-> n.settled, elapsed |-> n.elapsed,
   capacities |-> <<>>, slowdowns |-> <<>>, failed |-> {}]

\* A run is bound to its graph with whatever has happened by then.
Bindable(n) ==
  /\ SealsAreWrites(n) /\ SealsDiffer(n) /\ TerminalSets(n) /\ CompletionClosure(n)
  /\ Within(Zero, n.settled) /\ n.elapsed >= 0

RInit ==
  /\ ScheduleInit
  /\ origin = [graph |-> plan.graph, envelope |-> plan.envelope]
  /\ \E n \in Snapshots : Bindable(n) /\ durable = InitialState(plan.envelope, n)
  /\ request = None
  /\ decision = [disposition |-> "none", reason |-> "none", shed |-> {}]

Decide(e, n, disposition, reason, shed) ==
  /\ durable' = NextState(durable, e, n, IF disposition = "refused" THEN {} ELSE shed)
  /\ decision' = [disposition |-> disposition, reason |-> reason, shed |-> shed]

Submitted(e, n) ==
  /\ phase # "planning" /\ request = None
  /\ durable.revision < MaxRevisions
  /\ Accepts(durable, e, n)

\* No residual graph, or nothing left of the envelope: refused before scheduling.
ReplanRefuses ==
  \E e \in Disturbances, n \in Snapshots :
    LET c == Applied(durable, e)
        residual == ResidualRefusal(c, n)
        idle == ResidualGraph(c, n).tasks = {}
        why == IF residual # "none" THEN residual
               ELSE IF idle THEN ConsumedEnvelopeRefusal(c, n) ELSE RemainingRefusal(c, n)
    IN /\ Submitted(e, n) /\ why # "none"
       /\ residual = "none" => ValidGraph(ResidualGraph(c, n))
       /\ Decide(e, n, "refused", why, {})
       /\ UNCHANGED <<vars, origin, request>>

ReplanCompletes ==
  \E e \in Disturbances, n \in Snapshots :
    LET c == Applied(durable, e)
    IN /\ Submitted(e, n) /\ ResidualRefusal(c, n) = "none"
       /\ ResidualGraph(c, n).tasks = {} /\ ConsumedEnvelopeRefusal(c, n) = "none"
       /\ Decide(e, n, "complete", "no_residual_work", AutoShed(c, n))
       /\ UNCHANGED <<vars, origin, request>>

\* replan calls the scheduler with the residual graph and what is left of the envelope.
ReplanSchedules ==
  \E e \in Disturbances, n \in Snapshots :
    LET c == Applied(durable, e)  residual == ResidualGraph(c, n)
    IN /\ Submitted(e, n) /\ ResidualRefusal(c, n) = "none"
       /\ residual.tasks # {} /\ ValidGraph(residual) /\ RemainingRefusal(c, n) = "none"
       /\ request' = [event |-> e, snapshot |-> n]
       /\ plan' = [graph |-> residual, envelope |-> RemainingEnvelope(c, n), policy |-> "adaptive"]
       /\ phase' = "planning" /\ time' = 0
       /\ pass' = <<>> /\ opened' = FALSE /\ moved' = FALSE
       /\ running' = <<>> /\ entries' = {} /\ skipped' = <<>>
       /\ used' = Zero /\ risk' = 0
       /\ log' = <<[time |-> 0, type |-> "run.started", task |-> NoTask]>>
       /\ UNCHANGED <<origin, durable, decision>>

\* The scheduler has returned.
ReplanReturns ==
  /\ request # None /\ phase # "planning"
  /\ LET e == request.event  n == request.snapshot
         shed == AutoShed(Applied(durable, e), n) \union Skipped
     IN IF phase = "failed" THEN Decide(e, n, "refused", "scheduler_refused", {})
        ELSE Decide(e, n, "scheduled",
                    IF shed = {} THEN "event_applied" ELSE "optional_work_shed", shed)
  /\ request' = None
  /\ UNCHANGED <<vars, origin>>

Schedules == ScheduleStep /\ UNCHANGED <<origin, durable, request, decision>>

RNext == Schedules \/ ReplanRefuses \/ ReplanCompletes \/ ReplanSchedules \/ ReplanReturns

RSpec == RInit /\ [][RNext]_rvars

-----------------------------------------------------------------------------
Decided == request = None /\ durable.revision > 0

\* Whatever has happened, a plan that is offered finishes all promised work of the original
\* graph: it is completed, or sealed as an effect under way, or finished by the schedule;
\* complete means completed, and nothing is scheduled that is over or may be under way.
PromisesAreKept ==
  Decided =>
    /\ decision.disposition = "scheduled" =>
         /\ Promised \subseteq durable.completed \union Sealed(durable.seals) \union Completed
         /\ Started \cap (durable.completed \union durable.skipped \union Sealed(durable.seals)) = {}
         /\ \A t \in Started : O.deps[t] \subseteq durable.completed \union Started
    /\ decision.disposition = "complete" => Promised \subseteq durable.completed
    /\ decision.disposition # "refused" =>
         O.tasks = durable.completed \union durable.skipped \union Sealed(durable.seals)
                   \union (IF decision.disposition = "scheduled" THEN Started ELSE {})

\* A plan that is offered fits the whole run: what was settled and what is planned stay
\* within the current caps, and each task ends by its original deadline, on a provider
\* that has capacity and has not failed the task.
PlansFitTheRun ==
  Decided /\ decision.disposition = "scheduled" =>
    /\ Within(Plus(durable.settled, used), durable.envelope.caps)
    /\ durable.elapsed + time <= durable.envelope.deadline
    /\ \A x \in entries :
         /\ O.due[x.task] # 0 => durable.elapsed + x.end <= O.due[x.task]
         /\ At(durable.capacities, x.provider, 1) # 0
         /\ <<x.task, x.provider>> \notin durable.failed
    /\ AccountsHold(G, E, Result)
    /\ PureTasksAreFree(G) => VerifyConservation(G, E, Result)

\* From revision to revision facts are only added; every state made is valid, and no
\* event counts twice.
NoFactIsLost ==
  /\ FactsGrow(durable, durable')
  /\ Sealed(durable.seals) \subseteq Sealed(durable'.seals)
  /\ durable.failed \subseteq durable'.failed
  /\ IsPrefix(durable.applied, durable'.applied)
  /\ Restored(durable') = durable'
HistoryOnlyGrows == [][NoFactIsLost]_durable

\* A snapshot and an event that are accepted give a residual graph that can be planned
\* (replanning.py, first lines): it is one unless a completed task fed a typed input.
AcceptedEventsArePlanned ==
  \A e \in Disturbances, n \in Snapshots :
    LET c == Applied(durable, e)
    IN (Submitted(e, n) /\ ResidualRefusal(c, n) = "none") => ValidGraph(ResidualGraph(c, n))
=============================================================================
