------------------------------ MODULE Executor ------------------------------
(***************************************************************************)
(* AsyncGraphExecutor.execute of executor.py: one process runs, loses and  *)
(* resumes one admitted run over a RunStore.                               *)
(*                                                                         *)
(* The process is one asyncio event loop.  The main loop and every task    *)
(* coroutine run without interruption between two awaits, so each such     *)
(* stretch is one step: the main loop's in the section "The main loop",    *)
(* a coroutine's in "The task coroutines".  Where a stretch makes several  *)
(* transactions, an action of the section "Process death" ends it early.   *)
(*                                                                         *)
(* Admission is taken as decided (module Admission): profiles and usage    *)
(* vectors are not part of this module.  A process is started with a graph *)
(* and a configuration of its own, and what the run was first admitted     *)
(* with is recorded with it.                                               *)
(***************************************************************************)
EXTENDS RunStore

CONSTANTS
  Provider,        \* the provider of each task's selected profile
  ProviderLimit,   \* concurrent calls admitted per provider
  MaxParallelism,  \* concurrent calls admitted in all
  Setups,          \* the configurations a process may be started with, see IsSetup
  Threshold,       \* RetryPolicy.circuit_failure_threshold, 0 disables it
  Backoff,         \* RetryPolicy.backoff_ms, in ticks
  RunDeadline,     \* RunEnvelope.deadline_ms, in ticks
  TaskDeadline,    \* TaskContract.deadline_ms, in ticks
  MaxTime,         \* bound: the clock reads 1 .. MaxTime
  MaxCrashes       \* bound: the process dies at most MaxCrashes times

\* The graph: the dependencies of each task and the tasks that declare a write
\* effect.  The retry policy's max_attempts, and until when the profile
\* snapshots the executor was given are valid.
IsSetup(s) ==
  /\ s.deps \in [Tasks -> SUBSET Tasks]
  /\ \A S \in SUBSET Tasks \ {{}} : \E t \in S : s.deps[t] \cap S = {}
  /\ s.writes \subseteq Tasks
  /\ s.attempts \in Nat \ {0}
  /\ s.until \in Nat

ASSUME ExecutorAssumption ==
  /\ MaxParallelism \in Nat \ {0}
  /\ \A t \in Tasks : ProviderLimit[Provider[t]] \in Nat \ {0}
  /\ \A s \in Setups : IsSetup(s)
  /\ {Threshold, Backoff, MaxTime, MaxCrashes} \subseteq Nat
  /\ RunDeadline \in Nat \ {0}
  /\ TaskDeadline \in [Tasks -> Nat \ {0}]

VARIABLES
  created,   \* run_definitions.created_at_ms, 0 while there is no row
  manifest,  \* run_definitions.graph_digest, envelope_json, manifest_digest: a setup
  intent,    \* effect broker: the state of each task's intent
  now,       \* SQLiteRunStore.now_ms
  setup,     \* the configuration of the executor at work
  phase,     \* where execute is suspended
  outputs,   \* outputs: the tasks the main loop has the output of
  job,       \* running: where each task's coroutine is suspended
  left,      \* calls_remaining of each coroutine, the current call included
  strikes,   \* retryable failures each coroutine counts for its circuit
  cancel,    \* the caller's cancellation_event
  signal,    \* CancellationSignal._internal
  verdict,   \* the terminal event that is still to be appended
  result,    \* what the last call of execute came to
  crashes    \* process deaths so far

durable  == <<calls, events, created, manifest, intent>>
volatile == <<phase, outputs, job, left, strikes, cancel, signal, verdict>>
vars     == <<durable, volatile, setup, now, result, crashes>>

Finished == {"done", "failed", "late", "cancelled"}
Open     == {"calling", "expiring", "cancelling"}   \* the attempt has no outcome yet

Writes   == setup.writes
Deps     == setup.deps
Fixtures == Tasks \ Writes
Running  == {t \in Tasks : job[t] \notin {"none", "cancelling"}}
Pending  == Tasks \ outputs

Smaller(a, b) == IF a < b THEN a ELSE b
Deadline(t)   == created + Smaller(RunDeadline, TaskDeadline[t])
Cancelled     == cancel \/ signal

NoSetup == [deps |-> [t \in Tasks |-> {}], writes |-> {}, attempts |-> 0, until |-> 0]

RunEvent(type) == Event(type, NoTask, 0, "run")
Terminal       == \E type \in {"run_failed", "run_cancelled"} : Has(type, NoTask)

\* The effects of the run that the broker has neither committed nor compensated.
Unsettled == {t \in Writes \cap outputs : intent[t] \notin {"committed", "compensated"}}

AwaitingEffects == [type |-> "run_awaiting_effects", task |-> NoTask, attempt |-> 0,
                    pending |-> Unsettled]

Init ==
  /\ StoreInit
  /\ created = 0
  /\ manifest = NoSetup
  /\ setup = NoSetup
  /\ intent  = [t \in Tasks |-> "absent"]
  /\ now     = 1
  /\ phase   = "idle"
  /\ outputs = {}
  /\ job     = [t \in Tasks |-> "none"]
  /\ left    = [t \in Tasks |-> 0]
  /\ strikes = [t \in Tasks |-> 0]
  /\ cancel  = FALSE
  /\ signal  = FALSE
  /\ verdict = "none"
  /\ result  = "none"
  /\ crashes = 0

-----------------------------------------------------------------------------
(* The main loop *)

Return(r) == phase' = "idle" /\ result' = r

Resumed == CompletedTasks

\* _validate_profile_snapshots, by the clock of the store.
EvidenceIsFresh(s) == now <= s.until

\* Mutant: the definition of the run is not compared.
SameRunUnchecked(s) == TRUE

\* get_or_create_run compares the digest of the graph, the envelope with its
\* retry policy, and the digest of the manifest, which also binds the
\* snapshots, with those of the recorded definition.
SameGraph(s)    == manifest.deps = s.deps /\ manifest.writes = s.writes
SameEnvelope(s) == manifest.attempts = s.attempts
SameManifest(s) == manifest = s
SameRun(s)      == created = 0 \/ (SameGraph(s) /\ SameEnvelope(s) /\ SameManifest(s))

\* execute up to its first await: the definition is inserted or compared, the
\* start is recorded, a failed or cancelled run is refused, and the durable
\* completions are loaded.
Execute(s) ==
  /\ phase = "idle"
  /\ \A t \in Tasks : job[t] = "none"
  /\ EvidenceIsFresh(s) /\ SameRun(s) /\ ~Terminal
  /\ created = 0 => now + RunDeadline <= MaxTime   \* bound: deadlines are reached
  /\ created'  = IF created = 0 THEN now ELSE created
  /\ manifest' = IF created = 0 THEN s ELSE manifest
  /\ setup'    = s
  /\ Appends({RunEvent("run_started")})
  /\ outputs' = Resumed
  /\ cancel'  = FALSE
  /\ signal'  = FALSE
  /\ phase'   = "revalidating"
  /\ result'  = "none"
  /\ UNCHANGED <<calls, intent, now, job, left, strikes, verdict, crashes>>

\* AdmissionRefused, RunDefinitionConflict or RunAlreadyTerminal: nothing is
\* recorded that is not there already.
Refused(s) ==
  /\ phase = "idle"
  /\ \A t \in Tasks : job[t] = "none"
  /\ ~EvidenceIsFresh(s) \/ ~SameRun(s) \/ Terminal
  /\ Return("raised")
  /\ UNCHANGED <<durable, outputs, job, left, strikes, cancel, signal, verdict,
                 setup, now, crashes>>

\* _revalidate_durable_outputs awaits the validator of each durable fixture
\* output under that task's own deadline.  It runs before the try block, so
\* what it raises leaves no event.
Revalidated ==
  /\ phase = "revalidating"
  /\ \A t \in outputs \cap Fixtures : now < Deadline(t) /\ ~cancel
  /\ phase' = "looping"
  /\ UNCHANGED <<durable, outputs, job, left, strikes, cancel, signal, verdict,
                 setup, now, result, crashes>>

RevalidationRefused ==
  /\ phase = "revalidating"
  /\ \E t \in outputs \cap Fixtures : now >= Deadline(t) \/ cancel
  /\ Return("raised")
  /\ UNCHANGED <<durable, outputs, job, left, strikes, cancel, signal, verdict,
                 setup, now, crashes>>

\* Mutant: cancellation also settles the attempts that had already ended.
StopFinished(v) ==
  /\ phase'   = "stopping"
  /\ verdict' = v
  /\ signal'  = TRUE
  /\ job'     = [t \in Tasks |-> IF job[t] \in Open \cup Finished THEN "cancelling" ELSE "none"]

\* _cancel_running: every coroutine is cancelled; one that has a call open
\* still has to settle its attempt.
Stop(v) ==
  /\ phase'   = "stopping"
  /\ verdict' = v
  /\ signal'  = TRUE
  /\ job'     = [t \in Tasks |-> IF job[t] \in Open
                                 THEN "cancelling" ELSE "none"]

LoopStops ==
  /\ phase = "looping"
  /\ Pending # {}
  /\ \/ Cancelled /\ Stop("run_cancelled")
     \/ ~Cancelled /\ now >= created + RunDeadline /\ Stop("run_failed")
  /\ UNCHANGED <<durable, outputs, left, strikes, cancel, setup, now, result, crashes>>

Ready == {t \in Pending \ Running : Deps[t] \subseteq outputs}

Spawn ==
  /\ phase = "looping"
  /\ Pending # {}
  /\ ~Cancelled
  /\ now < created + RunDeadline
  /\ job'   = [t \in Tasks |-> IF t \in Ready THEN "ready" ELSE job[t]]
  /\ phase' = "waiting"
  /\ UNCHANGED <<durable, outputs, left, strikes, cancel, signal, verdict,
                 setup, now, result, crashes>>

\* asyncio.wait returned: the finished coroutines are taken in the order of
\* their task ids up to the first that raised, which is dead-lettered and
\* stops the run.  A dead letter that an earlier process wrote with other
\* content raises EventConflict in place of the exception.
Collect ==
  LET D == {t \in Tasks : job[t] \in Finished}
      F == {t \in D : job[t] # "done"}
  IN /\ phase = "waiting"
     /\ D # {}
     /\ \/ /\ F = {}
           /\ outputs' = outputs \cup D
           /\ job'     = [t \in Tasks |-> IF t \in D THEN "none" ELSE job[t]]
           /\ phase'   = "looping"
           /\ UNCHANGED <<events, signal, verdict>>
        \/ \E f \in F :
             LET letter == Event("dead_lettered", f, calls[f], job[f])
             IN /\ \A t \in F : f <= t
                /\ outputs' = outputs \cup {t \in D : t < f}
                /\ IF Conflicts(letter)
                   THEN UNCHANGED events /\ Stop("run_failed")
                   ELSE /\ Appends({letter})
                        /\ Stop(IF job[f] = "cancelled" THEN "run_cancelled" ELSE "run_failed")
     /\ UNCHANGED <<calls, created, manifest, intent, left, strikes, cancel, setup, now, result, crashes>>

\* Mutant: the run is not concluded before every coroutine has ended.
FinishWhenQuiet ==
  /\ phase = "stopping"
  /\ \A t \in Tasks : job[t] = "none"
  /\ Appends({RunEvent(verdict)})
  /\ verdict' = "none"
  /\ Return("raised")
  /\ UNCHANGED <<calls, created, manifest, setup, intent, outputs, job, left, strikes, cancel, signal,
                 now, crashes>>

\* The grace period is over, whether or not every coroutine has ended.
Finish ==
  /\ phase = "stopping"
  /\ Appends({RunEvent(verdict)})
  /\ verdict' = "none"
  /\ Return("raised")
  /\ UNCHANGED <<calls, created, manifest, setup, intent, outputs, job, left, strikes, cancel, signal,
                 now, crashes>>

\* Mutant: an effect that is only prepared counts as settled.
ConcludesPrepared ==
  /\ phase = "looping"
  /\ Pending = {}
  /\ LET open == {t \in Unsettled : intent[t] # "prepared"}
         e == [AwaitingEffects EXCEPT !.pending = open]
     IN \/ /\ open # {} /\ ~Conflicts(e) /\ Appends({e}) /\ Return("awaiting_effects")
        \/ open # {} /\ Conflicts(e) /\ UNCHANGED events /\ Return("raised")
        \/ open = {} /\ Appends({RunEvent("run_completed")}) /\ Return("completed")
  /\ UNCHANGED <<calls, created, manifest, setup, intent, outputs, job, left, strikes, cancel, signal,
                 verdict, now, crashes>>

\* After the loop: the broker is asked for every declared effect.  The event
\* run_awaiting_effects has one identifier for the run and names the effects
\* that were pending, so a later call that finds other effects pending raises
\* EventConflict, outside the try block.
Concludes ==
  /\ phase = "looping"
  /\ Pending = {}
  /\ \/ /\ Unsettled # {} /\ ~Conflicts(AwaitingEffects)
        /\ Appends({AwaitingEffects}) /\ Return("awaiting_effects")
     \/ /\ Unsettled # {} /\ Conflicts(AwaitingEffects)
        /\ UNCHANGED events /\ Return("raised")
     \/ /\ Unsettled = {}
        /\ Appends({RunEvent("run_completed")}) /\ Return("completed")
  /\ UNCHANGED <<calls, created, manifest, setup, intent, outputs, job, left, strikes, cancel, signal,
                 verdict, now, crashes>>

\* The caller cancels the coroutine that awaits execute.
CallerCancels ==
  /\ \/ phase = "waiting" /\ Stop("run_cancelled") /\ UNCHANGED result
     \/ phase = "revalidating" /\ Return("raised") /\ UNCHANGED <<job, signal, verdict>>
  /\ UNCHANGED <<durable, outputs, left, strikes, cancel, setup, now, crashes>>

-----------------------------------------------------------------------------
(* The task coroutines *)

Job(t, s) == job' = [job EXCEPT ![t] = s]

taskLeaves == <<created, manifest, setup, phase, outputs, cancel, verdict, now, result, crashes>>

\* _execute_task on a write: the intent is proposed in the effect database,
\* then two events go to the run ledger.  The output they carry holds the
\* state the broker answered, so a replay after the intent has moved on
\* conflicts with what an earlier process wrote.
Proposed(t) == IF intent[t] = "absent" THEN "proposed" ELSE intent[t]
IntentCreated(t)   == Event("effect_intent_created", t, 0, Proposed(t))
IntentCompleted(t) == Event("completed", t, 0, Proposed(t))

Materialize(t) ==
  /\ t \in Writes
  /\ job[t] = "ready"
  /\ now < Deadline(t)
  /\ intent' = [intent EXCEPT ![t] = Proposed(t)]
  /\ IF Conflicts(IntentCreated(t))
     THEN UNCHANGED events /\ Job(t, "failed")
     ELSE Appends({IntentCreated(t), IntentCompleted(t)}) /\ Job(t, "done")
  /\ UNCHANGED <<calls, left, strikes, signal, taskLeaves>>

PriorAttempts(t) == calls[t]

PriorRetryable(t) ==
  Cardinality({e \in events : e.task = t /\ e.type = "attempt_failed" /\ e.body = "retryable"})

\* The coroutine of a fixture task up to its first await.
Begin(t) ==
  /\ t \in Fixtures
  /\ job[t] = "ready"
  /\ left'    = [left EXCEPT ![t] = setup.attempts - PriorAttempts(t)]
  /\ strikes' = [strikes EXCEPT ![t] = PriorRetryable(t)]
  /\ \/ now >= Deadline(t) /\ Job(t, "late")
     \/ now < Deadline(t) /\ left'[t] <= 0 /\ Job(t, "failed")
     \/ now < Deadline(t) /\ left'[t] > 0 /\ Job(t, IF Cancelled THEN "cancelled" ELSE "queued")
  /\ UNCHANGED <<calls, events, intent, signal, taskLeaves>>

\* A write that starts after its deadline is not materialized.
BeginsLate(t) ==
  /\ t \in Writes
  /\ job[t] = "ready"
  /\ now >= Deadline(t)
  /\ Job(t, "late")
  /\ UNCHANGED <<calls, events, intent, left, strikes, signal, taskLeaves>>

\* The provider's permit is taken first and kept while the global one is
\* awaited (_capacity).
HoldsProvider(p) == {u \in Tasks : Provider[u] = p /\ job[u] \in {"held"} \cup Open}
HoldsGlobal      == {u \in Tasks : job[u] \in Open}

TakeProvider(t) ==
  /\ job[t] = "queued"
  /\ Cardinality(HoldsProvider(Provider[t])) < ProviderLimit[Provider[t]]
  /\ Job(t, "held")
  /\ UNCHANGED <<calls, events, intent, left, strikes, signal, taskLeaves>>

StartCall(t) ==
  /\ job[t] = "held"
  /\ Cardinality(HoldsGlobal) < MaxParallelism
  /\ StartAttempt(t)
  /\ Job(t, "calling")
  /\ UNCHANGED <<events, intent, left, strikes, signal, taskLeaves>>

\* _await_controlled around a semaphore or the backoff: no attempt is open.
WaitCancelled(t) ==
  /\ job[t] \in {"queued", "held", "backoff"}
  /\ Cancelled
  /\ Job(t, "cancelled")
  /\ UNCHANGED <<calls, events, intent, left, strikes, signal, taskLeaves>>

\* A coroutine that sees its deadline pass in an await sets the signal all of
\* them share and awaits the end of what it was waiting for before it raises.
TimesOut(t) ==
  /\ \/ job[t] \in {"queued", "held"} /\ Job(t, "lapsing")
     \/ job[t] = "calling" /\ Job(t, "expiring")
  /\ now >= Deadline(t)
  /\ signal' = TRUE
  /\ UNCHANGED <<calls, events, intent, left, strikes, taskLeaves>>

WaitLapses(t) ==
  /\ job[t] = "lapsing"
  /\ Job(t, "late")
  /\ UNCHANGED <<calls, events, intent, left, strikes, signal, taskLeaves>>

\* The worker returned, its output is valid, nobody cancelled and the deadline
\* has not passed (_complete_fixture_attempt).
CallSucceeds(t) ==
  /\ job[t] = "calling"
  /\ ~Cancelled
  /\ now < Deadline(t)
  /\ Appends(Completion(t, calls[t]))
  /\ Job(t, "done")
  /\ UNCHANGED <<calls, intent, left, strikes, signal, taskLeaves>>

Failed(t, body) == Event("attempt_failed", t, calls[t], body)

\* The worker raised, returned something else or something invalid, or used
\* more than was reserved.
CallFails(t) ==
  /\ job[t] = "calling"
  /\ Appends({Failed(t, "final")})
  /\ Job(t, "failed")
  /\ UNCHANGED <<calls, intent, left, strikes, signal, taskLeaves>>

\* The worker or validator was stopped within the grace period, or was not and
\* is left behind (UncooperativeWorker).
CallExpires(t) ==
  /\ job[t] = "expiring"
  /\ Appends({Failed(t, "final")})
  /\ \E r \in {"late", "failed"} : Job(t, r)
  /\ UNCHANGED <<calls, intent, left, strikes, signal, taskLeaves>>

\* The worker answered in time but the commit would be late.
CallEndsLate(t) ==
  /\ job[t] = "calling"
  /\ now >= Deadline(t)
  /\ Appends({Failed(t, "final")})
  /\ Job(t, "late")
  /\ UNCHANGED <<calls, intent, left, strikes, signal, taskLeaves>>

CallCancelled(t) ==
  /\ job[t] = "calling"
  /\ Cancelled
  /\ Appends({Event("attempt_cancelled", t, calls[t], "final")})
  /\ Job(t, "cancelled")
  /\ UNCHANGED <<calls, intent, left, strikes, signal, taskLeaves>>

\* The coroutine was cancelled by the main loop; it may settle its attempt
\* after the run's terminal event.
SettlesCancelled(t) ==
  /\ job[t] = "cancelling"
  /\ Appends({Event("attempt_cancelled", t, calls[t], "final")})
  /\ Job(t, "none")
  /\ UNCHANGED <<calls, intent, left, strikes, signal, taskLeaves>>

RetryRunsOut(t) == left[t] <= 1
CircuitOpens(t) == Threshold > 0 /\ strikes[t] + 1 >= Threshold

RetryScheduled(t) == Event("retry_scheduled", t, calls[t], "run")

\* RetryableWorkerError: out of calls, or the circuit opens, or a retry is
\* scheduled, provided the backoff ends before the deadline.
CallRetries(t) ==
  /\ job[t] = "calling"
  /\ \/ /\ RetryRunsOut(t)
        /\ Appends({Failed(t, "retryable")})
        /\ Job(t, "failed")
        /\ UNCHANGED <<left, strikes>>
     \/ /\ ~RetryRunsOut(t) /\ CircuitOpens(t)
        /\ Appends({Failed(t, "retryable"), Event("circuit_opened", t, calls[t], "run")})
        /\ Job(t, "failed")
        /\ UNCHANGED <<left, strikes>>
     \/ /\ ~RetryRunsOut(t) /\ ~CircuitOpens(t)
        /\ Appends({Failed(t, "retryable"), RetryScheduled(t)})
        /\ Job(t, IF now + Backoff >= Deadline(t) THEN "late" ELSE "backoff")
        /\ left'    = [left EXCEPT ![t] = @ - 1]
        /\ strikes' = [strikes EXCEPT ![t] = @ + 1]
  /\ UNCHANGED <<calls, intent, signal, taskLeaves>>

\* The next iteration of the call loop.
BackoffEnds(t) ==
  /\ job[t] = "backoff"
  /\ Job(t, IF Cancelled THEN "cancelled" ELSE IF now >= Deadline(t) THEN "late" ELSE "queued")
  /\ UNCHANGED <<calls, events, intent, left, strikes, signal, taskLeaves>>

TaskStep(t) ==
  \/ Materialize(t) \/ Begin(t) \/ BeginsLate(t)
  \/ TakeProvider(t) \/ StartCall(t) \/ WaitCancelled(t) \/ TimesOut(t) \/ WaitLapses(t)
  \/ CallSucceeds(t) \/ CallFails(t) \/ CallExpires(t) \/ CallEndsLate(t) \/ CallCancelled(t)
  \/ SettlesCancelled(t) \/ CallRetries(t) \/ BackoffEnds(t)

-----------------------------------------------------------------------------
(* Process death *)

Reset ==
  /\ phase'   = "idle"
  /\ outputs' = {}
  /\ job'     = [t \in Tasks |-> "none"]
  /\ left'    = [t \in Tasks |-> 0]
  /\ strikes' = [t \in Tasks |-> 0]
  /\ cancel'  = FALSE
  /\ signal'  = FALSE
  /\ verdict' = "none"
  /\ result'  = "none"
  /\ crashes' = crashes + 1
  /\ UNCHANGED <<setup, now>>

CanCrash == crashes < MaxCrashes

Crash ==
  /\ CanCrash
  /\ phase # "idle"
  /\ Reset
  /\ UNCHANGED durable

\* Between the proposal, the intent event and the completion event.
CrashInMaterialize(t) ==
  /\ CanCrash
  /\ t \in Writes
  /\ job[t] = "ready"
  /\ now < Deadline(t)
  /\ ~Conflicts(IntentCreated(t))
  /\ intent' = [intent EXCEPT ![t] = Proposed(t)]
  /\ events' \in {events, events \cup {IntentCreated(t)}}
  /\ Reset
  /\ UNCHANGED <<calls, created, manifest>>

\* Between the failed outcome and what follows from it.
CrashInRetry(t) ==
  /\ CanCrash
  /\ job[t] = "calling"
  /\ Appends({Failed(t, "retryable")})
  /\ Reset
  /\ UNCHANGED <<calls, created, manifest, setup, intent>>

-----------------------------------------------------------------------------
(* The environment *)

RequestCancel ==
  /\ phase # "idle"
  /\ ~cancel
  /\ cancel' = TRUE
  /\ UNCHANGED <<durable, phase, outputs, job, left, strikes, signal, verdict,
                 setup, now, result, crashes>>

\* Other actors move the intents through the effect kernel; "prepared" stands
\* for every state between the proposal and the settlement.
IntentMoves == {<<"proposed", "prepared">>, <<"prepared", "committed">>,
                <<"committed", "compensated">>,
                <<"proposed", "aborted">>, <<"prepared", "aborted">>}

BrokerMoves(t) ==
  /\ \E m \in IntentMoves : m[1] = intent[t] /\ intent' = [intent EXCEPT ![t] = m[2]]
  /\ UNCHANGED <<calls, events, created, manifest, volatile, setup, now, result, crashes>>

Tick ==
  /\ now < MaxTime
  /\ now' = now + 1
  /\ UNCHANGED <<durable, volatile, setup, result, crashes>>

LoopStep ==
  \/ Revalidated \/ RevalidationRefused \/ LoopStops \/ Spawn \/ Collect
  \/ Finish \/ Concludes

Next ==
  \/ \E s \in Setups : Execute(s) \/ Refused(s)
  \/ LoopStep \/ CallerCancels
  \/ \E t \in Tasks : TaskStep(t)
  \/ Crash \/ \E t \in Tasks : CrashInMaterialize(t) \/ CrashInRetry(t)
  \/ RequestCancel \/ \E t \in Tasks : BrokerMoves(t)
  \/ Tick

Spec == Init /\ [][Next]_vars

-----------------------------------------------------------------------------
(* Fairness *)

\* asyncio runs what is runnable and the timers fire; nothing is assumed of a
\* worker, which may never return, nor of the supervisor that restarts the
\* process.
Fairness ==
  /\ WF_vars(LoopStep)
  /\ WF_vars(Tick)
  /\ \A t \in Tasks :
       /\ WF_vars(Materialize(t) \/ Begin(t) \/ BeginsLate(t) \/ BackoffEnds(t))
       /\ WF_vars(WaitCancelled(t) \/ CallCancelled(t) \/ TimesOut(t))
       /\ WF_vars(WaitLapses(t) \/ CallExpires(t))

LiveSpec == Spec /\ Fairness

-----------------------------------------------------------------------------
(* Properties *)

\* Whatever cancels, times out, fails or dies around a call, its attempt gets
\* at most one outcome, and an attempt without one is either the open call of
\* a coroutine or was open when a process died: usage is charged from the
\* outcome events, so a second one would charge a call twice and a missing
\* one would hide it (_append_attempt_outcome, complete_attempt).
AttemptsSettleOnce ==
  /\ \A e, f \in events :
       /\ {e.type, f.type} \subseteq Outcomes
       /\ e.task = f.task /\ e.attempt = f.attempt
       => e = f
  /\ \A t \in Tasks :
       Cardinality({n \in 1 .. calls[t] :
         /\ ~\E e \in events : e.type \in Outcomes /\ e.task = t /\ e.attempt = n
         /\ ~(job[t] \in Open /\ n = calls[t])}) <= crashes

\* What is taken for done is done for good.  What the main loop counts as done,
\* and a coroutine that reports success, has its completion in the ledger: a
\* restart never has less than the process believed.  And a run recorded as
\* completed has every output and no unsettled effect: the ledgers are two
\* databases, yet run.completed never outruns the broker.
DoneIsDurable ==
  /\ outputs \cup {t \in Tasks : job[t] = "done"} \subseteq CompletedTasks
  /\ Has("run_completed", NoTask) =>
       /\ CompletedTasks = Tasks
       /\ \A t \in manifest.writes : intent[t] \in {"committed", "compensated"}

\* The refinement mapping: the verdict is read off the run's events.
VerdictOf ==
  IF Has("run_failed", NoTask) THEN "failed"
  ELSE IF Has("run_cancelled", NoTask) THEN "cancelled"
  ELSE IF Has("run_completed", NoTask) THEN "completed"
  ELSE IF Has("run_awaiting_effects", NoTask) THEN "awaiting" ELSE "open"

PlanOf(s) == [deps |-> s.deps, writes |-> s.writes, attempts |-> s.attempts]

Promise == INSTANCE ExecutionPromise WITH
  Plans <- {PlanOf(s) : s \in Setups}, plan <- PlanOf(manifest),
  tried <- calls, done <- CompletedTasks, verdict <- VerdictOf

\* Whatever graph and configuration a process is given when the run is taken up
\* again, the run stays the one first admitted: across restarts calls are
\* bounded, dependencies come first, and there is no call of a completed task
\* and none after the verdict.  execute implements ExecutionPromise.
KeepsPromise == Promise!Spec

\* Every call of execute returns, even if a worker ignores its cancellation
\* (_cancel_future_bounded: "without letting a hostile fixture block the
\* executor") and whatever is cancelled or fails meanwhile.
ExecuteReturns == phase # "idle" ~> phase = "idle"
=============================================================================
