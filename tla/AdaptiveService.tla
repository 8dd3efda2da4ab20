--------------------------- MODULE AdaptiveService ---------------------------
(***************************************************************************)
(* One adaptive run: the coordinator task that drives the controller       *)
(* (control_service.py, AdaptiveRuntime.dispatch_next), the operator's     *)
(* requests that reach it through control_api.py, and the death of the     *)
(* process at any point.                                                   *)
(*                                                                         *)
(* The drive holds the session's lock from before a dispatch until after   *)
(* the settlement, so control events come between those; a cancellation    *)
(* request may come at any time.  A control event that names a stale       *)
(* revision is refused without effect and is left out.                     *)
(***************************************************************************)
EXTENDS AdaptiveController, Sequences

CONSTANTS
  MaxControls,  \* max_control_events_per_run
  Cuts,    \* bound: the caps a budget cut may set
  Spent    \* bound: the usages a worker may report

ASSUME ServiceAssumption == MaxControls \in Nat /\ Cuts \subseteq Usages /\ Spent \subseteq Usages

VARIABLES
  \* Durable, in the run store.
  ctl,        \* the controller's state after its latest recorded transition
  began,      \* run.started is recorded, with the workflow
  called,     \* the tasks with a recorded attempt
  output,     \* completed_tasks: the usage of each task with a recorded output, else None
  verdicts,   \* the terminal events of the run, in their order
  controls,   \* the number of accepted control events
  recovered,  \* the time of the recovery accepted at this revision, if any
  \* In the memory of the process.
  drive,      \* where the coordinator task is
  resumed,    \* it was started by resume_existing and not by execute
  gate,       \* session.start_gate
  changed,    \* session.changed
  cancelling  \* the cancellation event

durable  == <<ctl, began, called, output, verdicts, controls, recovered>>
volatile == <<drive, resumed, gate, changed, cancelling>>
vars     == <<plan, durable, volatile>>

\* The lock of the session is not held by a dispatch.
LockFree == drive \notin {"dispatched", "working", "returned"}

Durable == {t \in Task : output[t] # None}

\* Every transition is a new revision.
Transition(next) == ctl' = next /\ recovered' = None

\* append_event keeps the first event with an id.
Conclude(verdict) ==
  verdicts' = IF \E i \in DOMAIN verdicts : verdicts[i] = verdict
              THEN verdicts ELSE Append(verdicts, verdict)

EndDrive == drive' = "none" /\ UNCHANGED <<resumed, gate, changed>> /\ cancelling' = FALSE

Moves(place) == drive' = place /\ UNCHANGED <<resumed, gate, changed, cancelling>>

\* submit: the run and its first transition are recorded before run.started.
Init ==
  /\ plan \in Plans
  /\ ctl = RuntimeStarted
  /\ began = FALSE /\ called = {} /\ output = [t \in Task |-> None]
  /\ verdicts = <<>> /\ controls = 0 /\ recovered = None
  /\ drive = "starting" /\ resumed = FALSE /\ gate \in BOOLEAN
  /\ changed = FALSE /\ cancelling = FALSE

PersistRunStart ==
  /\ drive = "starting"
  /\ began' = TRUE
  /\ Moves("gate")
  /\ UNCHANGED <<plan, ctl, called, output, verdicts, controls, recovered>>

\* The recorded outputs are validated again before a resumed run goes on.
ValidateOutputs ==
  /\ drive = "validating"
  /\ Moves("gate")
  /\ UNCHANGED <<plan, durable>>

ValidationFails ==
  /\ drive = "validating" /\ Durable # {}
  /\ EndDrive
  /\ UNCHANGED <<plan, durable>>

PassGate ==
  /\ drive = "gate" /\ (gate \/ cancelling)
  /\ Moves("loop")
  /\ UNCHANGED <<plan, durable>>

Cancel ==
  /\ drive = "loop" /\ ctl.status = "running" /\ cancelling
  /\ Transition(Cancellation(ctl))
  /\ UNCHANGED <<plan, began, called, output, verdicts, controls, volatile>>

\* dispatch_next records the reservation, then the attempt, then calls the worker.
Dispatch ==
  /\ drive = "loop" /\ ctl.status = "running" /\ ~cancelling
  /\ NextDispatch(ctl) # None
  /\ Transition(TaskDispatched(ctl, NextDispatch(ctl)))
  /\ Moves("dispatched")
  /\ UNCHANGED <<plan, began, called, output, verdicts, controls>>

StartAttempt ==
  /\ drive = "dispatched"
  /\ called' = called \cup InFlight(ctl)
  /\ Moves("working")
  /\ UNCHANGED <<plan, ctl, began, output, verdicts, controls, recovered>>

\* The logical time a call takes: the profile's median, none for a proposal.
Elapsed(t) == IF t \in plan.writes THEN 0 ELSE plan.p50[t]

\* The worker's result is recorded first, the settlement after it.
WorkerReturns(actual) ==
  /\ drive = "working"
  /\ Fits(actual, plan.cost[ctl.inflight])
  /\ ctl.inflight \in plan.writes => actual = Zero
  /\ output' = [output EXCEPT ![ctl.inflight] = actual]
  /\ Moves("returned")
  /\ UNCHANGED <<plan, ctl, began, called, verdicts, controls, recovered>>

Settle ==
  /\ drive = "returned"
  /\ LET t == ctl.inflight
     IN Transition(UsageSettled(ctl, t, output[t], ctl.now + Elapsed(t)))
  /\ Moves("loop")
  /\ UNCHANGED <<plan, began, called, output, verdicts, controls>>

\* The worker raises (a broker refusing the proposal likewise), or reports more
\* than its reservation.  execute records run.failed, whatever the controller
\* makes of it, unless what was raised is an ExecutionError; resume_existing
\* records nothing.
WorkerFails ==
  /\ drive = "working"
  /\ \E late \in {0, Elapsed(ctl.inflight)} :
       Transition(UnknownInflight(ctl, ctl.inflight, ctl.now + late))
  /\ UNCHANGED verdicts \/ (~resumed /\ Conclude("failed"))
  /\ EndDrive
  /\ UNCHANGED <<plan, began, called, output, controls>>

\* Mutant: work is looked for before the cancellation.
ParkHeedless ==
  /\ drive = "loop" /\ ctl.status = "running"
  /\ NextDispatch(ctl) = None
  /\ drive' = "parked" /\ changed' = FALSE
  /\ UNCHANGED <<plan, durable, resumed, gate, cancelling>>

\* Nothing can be dispatched: session.changed is cleared and waited for.
Park ==
  /\ drive = "loop" /\ ctl.status = "running" /\ ~cancelling
  /\ NextDispatch(ctl) = None
  /\ drive' = "parked" /\ changed' = FALSE
  /\ UNCHANGED <<plan, durable, resumed, gate, cancelling>>

Wake ==
  /\ drive = "parked" /\ (changed \/ cancelling)
  /\ Moves("loop")
  /\ UNCHANGED <<plan, durable>>

\* _terminal_result: a completed run with a proposed effect that is not
\* committed yet awaits its effects; when they are is up to the broker.
Finish ==
  /\ drive = "loop" /\ ctl.status # "running"
  /\ \/ ctl.status = "cancelled" /\ Conclude("cancelled")
     \/ ctl.status = "refused" /\ Conclude("failed")
     \/ ctl.status = "completed" /\ Conclude("completed")
     \/ /\ ctl.status = "completed" /\ plan.writes \cap Durable # {}
        /\ Conclude("awaiting_effects")
  /\ EndDrive
  /\ UNCHANGED <<plan, ctl, began, called, output, controls, recovered>>

Coordinator ==
  \/ PersistRunStart \/ ValidateOutputs \/ ValidationFails \/ PassGate
  \/ Cancel \/ Dispatch \/ StartAttempt \/ Settle \/ Park \/ Wake \/ Finish

Worker == WorkerFails \/ \E actual \in Spent : WorkerReturns(actual)

-----------------------------------------------------------------------------
(* Requests of the operator. *)

\* adaptive_control counts what it accepts; more than the limit is refused.
Accepted == controls < MaxControls /\ controls' = controls + 1

\* apply_adaptive_control on the session of the run; without one the workflow
\* of run.started is needed to make one.
Control(next) ==
  /\ began /\ LockFree /\ ctl.status = "running"
  /\ Accepted
  /\ Transition(next)
  /\ changed' = TRUE
  /\ UNCHANGED <<plan, began, called, output, verdicts, drive, resumed, gate, cancelling>>

Later == ctl.now..RunDeadline

Control429 ==
  \E p \in ProvidersOfRun, at \in Later : \E reset \in at + 1..RunDeadline :
    Control(Provider429(ctl, p, at, reset))

ControlReset ==
  \E p \in ProvidersOfRun, at \in Later :
    /\ ctl.resets[p] # None /\ at >= ctl.resets[p]
    /\ Control(ProviderReset(ctl, p, at))

ControlCapacity ==
  \E p \in ProvidersOfRun, at \in Later, open \in BOOLEAN :
    Control(ProviderCapacity(ctl, p, at, open))

ControlCut ==
  \E caps \in Cuts, at \in Later :
    Fits(caps, ctl.caps) /\ Control(BudgetCut(ctl, caps, at))

\* runtime.resume of a run that was submitted paused.
Resume ==
  /\ drive = "gate" /\ ~gate /\ ctl.status = "running"
  /\ Accepted
  /\ gate' = TRUE /\ changed' = TRUE
  /\ UNCHANGED <<plan, ctl, began, called, output, verdicts, recovered, drive, resumed, cancelling>>

\* recover_unknown_inflight: a recorded output is settled, or else the whole
\* reservation is charged.
Recovery(at) ==
  LET t == ctl.inflight
  IN IF output[t] # None THEN UsageSettled(ctl, t, output[t], at)
     ELSE UnknownInflight(ctl, t, at)

\* coordinator.recover of a run nobody drives, which then drives it.  The
\* marker of the request is bound to the revision and to the time.
Recover(at) ==
  /\ began /\ drive = "none" /\ ctl.status = "running"
  /\ \/ ctl.inflight # None /\ Transition(Recovery(at)) /\ Accepted
     \/ ctl.inflight = None /\ recovered = None /\ recovered' = at /\ Accepted /\ UNCHANGED ctl
     \/ ctl.inflight = None /\ recovered = at /\ controls < MaxControls
        /\ UNCHANGED <<ctl, recovered, controls>>
  /\ drive' = "validating" /\ resumed' = TRUE
  /\ gate' = TRUE /\ changed' = FALSE /\ cancelling' = FALSE
  /\ UNCHANGED <<plan, began, called, output, verdicts>>

\* cancel: refused once a terminal event is recorded, or when nobody drives.
RequestCancel ==
  /\ drive \notin {"none", "starting"} /\ verdicts = <<>> /\ ~cancelling
  /\ cancelling' = TRUE
  /\ UNCHANGED <<plan, durable, drive, resumed, gate, changed>>

Operator ==
  \/ Control429 \/ ControlReset \/ ControlCapacity \/ ControlCut
  \/ Resume \/ RequestCancel
  \/ \E at \in Later : Recover(at)

\* The process dies and starts again; what is durable stays.
Crash ==
  /\ drive # "none"
  /\ drive' = "none" /\ resumed' = FALSE /\ gate' = FALSE
  /\ changed' = FALSE /\ cancelling' = FALSE
  /\ UNCHANGED <<plan, durable>>

Next == Coordinator \/ Worker \/ Operator \/ Crash

Spec == Init /\ [][Next]_vars

\* The coordinator task is not waiting for anything.
CanProceed ==
  \/ drive \in {"starting", "validating", "loop", "dispatched", "returned"}
  \/ drive = "gate" /\ (gate \/ cancelling)
  \/ drive = "parked" /\ (changed \/ cancelling)

\* The event loop runs the coordinator, and workers return: nothing in this
\* runtime ends a call that does not.  This is WF_vars(Coordinator) and
\* WF_vars(Worker) with the enabling conditions written out, which spares TLC
\* the evaluation of the reducer for ENABLED.
Fairness ==
  /\ []<>~CanProceed \/ []<><<Coordinator>>_vars
  /\ []<>(drive # "working") \/ []<><<Worker>>_vars

LiveSpec == Spec /\ Fairness

-----------------------------------------------------------------------------
(* Properties *)

\* Every call is paid for: what its output says if it was settled, the whole
\* reservation if its fate is unknown, and nothing twice; together with what
\* is in flight that never exceeds the caps the run was admitted with.  And it
\* is made at most once in the life of the run, however often the coordinator
\* dies and is recovered ("bounded runtime refuses an implicit retry attempt"
\* is never raised).
EveryCallIsPaid ==
  /\ drive = "dispatched" => ctl.inflight \notin called
  /\ called \subseteq Underway(ctl) \cup ctl.unknown
  /\ ctl.unknown \cap Underway(ctl) = {}
  /\ ctl.settled = [u \in Units |-> SumFunctionOnSet([t \in Task |-> output[t][u]], ctl.completed)]
  /\ ctl.unknownUsage = CostOf(ctl.unknown)
  /\ Fits(Committed(ctl), Envelope)

\* A drive that sleeps has not missed a control event that lets it go on, and
\* what it waits for is a provider: the plan the reducer holds on to never
\* blocks itself.
ParkedForCause ==
  drive = "parked" /\ ctl.status = "running" /\ ~changed =>
    /\ NextDispatch(ctl) = None
    /\ \E t \in Admitted \ (ctl.completed \cup ctl.shed) :
         plan.deps[t] \subseteq ctl.completed /\ Blocked(ctl, plan.provider[t])

\* A run that is said to be completed, or to await effects only, has the
\* outputs of all mandatory tasks, and that is the last word on it.
CompletedMeansMandatoryDone ==
  \A i \in DOMAIN verdicts :
    verdicts[i] \in {"completed", "awaiting_effects"} =>
      Protected \subseteq Durable /\ i = Len(verdicts) /\ ctl.status = "completed"

\* The run stops for a cause, be it to sleep or for good.
StopsForCause == ParkedForCause /\ CompletedMeansMandatoryDone

\* The condition on one step.
ProgressIsSafe ==
  Dispatch \/ Settle => ctl'.status # "refused" /\ ctl'.shed = ctl.shed

\* Without an event from outside the run keeps the work it is committed to: no
\* dispatch and no settlement refuses the run or sheds a task, because tasks
\* are dispatched only if the rest still meets its deadlines and budget.
OwnProgressIsSafe == [][ProgressIsSafe]_vars

\* A drive comes to its end, unless a provider or a pause holds it up; once a
\* cancellation request is accepted neither does.
DriveEnds ==
  drive # "none" ~> drive = "none" \/ (drive \in {"gate", "parked"} /\ ~cancelling)
=============================================================================
