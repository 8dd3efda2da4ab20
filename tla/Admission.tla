------------------------------ MODULE Admission ------------------------------
(***************************************************************************)
(* What stands between a schedule and the first call of a worker: the      *)
(* executor's admission (executor.py) and the adaptive controller's        *)
(* (adaptive_runtime.py, control_service.py).  Both take the profiles of a *)
(* completed adaptive schedule r and never choose again.                   *)
(***************************************************************************)
EXTENDS PhysicalResources, ProfileSnapshots

CONSTANTS
  MaxAttempts,  \* of the executor's retry policy
  NoManifest    \* a worker that exposes no capabilities, a task without requirements

ASSUME AttemptsAssumption == MaxAttempts \in Nat \ {0}

\* The profiles the schedule has chosen, by task.
SelectedProfiles(g, r) ==
  [t \in {e.task : e \in r.entries} |->
     LET entry == CHOOSE e \in r.entries : e.task = t
     IN CHOOSE p \in g.profiles[t] : p.id = entry.backend /\ p.provider = entry.provider]

CompletePlan(g, r) == r.success /\ {e.task : e \in r.entries} = g.tasks \ ToSet(r.skipped)

-----------------------------------------------------------------------------
\* Every call of a worker may be repeated; a write is only proposed, once.
Multiplier(g, t) == IF Writes(g.effect[t].kind) THEN 1 ELSE MaxAttempts

RetryReservation(g, sel) ==
  [u \in Units |-> SumOver(DOMAIN sel, [t \in DOMAIN sel |-> Multiplier(g, t) * sel[t].use[u]])]

RetriesFit(g, e, sel) == Within(RetryReservation(g, sel), e.caps)

-----------------------------------------------------------------------------
\* The controller runs one task at a time, the most valuable ready one first.
DispatchOrder(g, sel) ==
  LET next(done) ==
        CHOOSE t \in DOMAIN sel \ done : g.deps[t] \subseteq done
          /\ \A s \in DOMAIN sel \ done :
               (s # t /\ g.deps[s] \subseteq done) => LexLess(<<-g.value[t], t>>, <<-g.value[s], s>>)
      order[n \in 0..Cardinality(DOMAIN sel)] ==
        IF n = 0 THEN <<>>
        ELSE LET before == order[n - 1] IN Append(before, next(ToSet(before)))
  IN order[Cardinality(DOMAIN sel)]

\* When each task ends if the tasks run in that order and none beats its p95.
SerialEnd(sel, order, n) == FoldLeft(LAMBDA sum, t : sum + sel[t].p95, 0, SubSeq(order, 1, n))

SerialPlanFits(g, e, sel) ==
  LET order == DispatchOrder(g, sel)
  IN \A n \in DOMAIN order : SerialEnd(sel, order, n) <= DueBy(g, e, order[n])

-----------------------------------------------------------------------------
\* workers is a function from task ids to capability manifests; needs from task ids to
\* the task's requirements.  Semantics are ranks, from "none" up.

Called(g, sel) == {t \in DOMAIN sel : ~Writes(g.effect[t].kind)}

WorkersPresent(g, sel, workers) == Called(g, sel) \subseteq DOMAIN workers

Meets(g, t, p, has, need) ==
  /\ has # NoManifest
  /\ has.provider = p.provider
  /\ \A s \in DOMAIN need.semantics : has.semantics[s] >= need.semantics[s]
  /\ has.retries <= need.retries
  /\ g.effect[t].kind \in has.effects

AdaptersMeet(g, sel, workers, needs) ==
  \A t \in Called(g, sel) :
    needs[t] # NoManifest => Meets(g, t, sel[t], workers[t], needs[t])

-----------------------------------------------------------------------------
\* evidence: the profile snapshots the executor was given, those the graph names, whether
\* all tasks must have one, and the time by the run store's clock.
ExecutorAdmits(g, e, r, workers, needs, evidence) ==
  LET sel == SelectedProfiles(g, r)
  IN /\ CompletePlan(g, r) /\ RetriesFit(g, e, sel)
     /\ ValidSelection(g, e, sel) /\ PhysicallyAdmitted(g, e, sel)
     /\ WorkersPresent(g, sel, workers) /\ AdaptersMeet(g, sel, workers, needs)
     /\ SnapshotsAccepted(sel, evidence.given, evidence.pins, evidence.required, evidence.now)

\* The constructor of AdaptiveRuntime; broker: it was given an effect broker.
RuntimeInputs(g, e, broker) ==
  /\ ValidGraph(g) /\ ValidEnvelope(e)
  /\ \A t \in g.tasks : (Writes(g.effect[t].kind) => broker) /\ Qualified(g, t) # {}

ControllerAdmits(g, e, r, workers, needs, broker) ==
  LET sel == SelectedProfiles(g, r)
  IN /\ CompletePlan(g, r) /\ SerialPlanFits(g, e, sel)
     /\ WorkersPresent(g, sel, workers) /\ AdaptersMeet(g, sel, workers, needs)
     /\ ValidSelection(g, e, sel) /\ PhysicallyAdmitted(g, e, sel)
     /\ RuntimeInputs(g, e, broker)
=============================================================================
