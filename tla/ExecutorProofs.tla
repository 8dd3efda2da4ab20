--------------------------- MODULE ExecutorProofs ---------------------------
(***************************************************************************)
(* Proofs about Executor, for every graph, set of configurations, retry    *)
(* policy, deadline, concurrency limit and bound.                          *)
(*                                                                         *)
(* The actions fall into a few shapes by what they do to the ledger and to *)
(* the coroutines; each shape has one lemma per group of invariants.       *)
(*                                                                         *)
(* The third part is about the store alone, SharedRunStore, which has the  *)
(* same ledger and any number of clients instead of an executor.           *)
(*                                                                         *)
(* The last part is about the ledger of resources an execution is paid     *)
(* from, ResourceLedger, and the replay of its log, LedgerReplay.  Its     *)
(* inductive invariant is, of the ledger and again of the replayed state:  *)
(* the types, that no attempt is both active and retired, and that what is *)
(* spent and held fits the capacity.  The last needs what the sum of the   *)
(* reservations does when one of them is added or taken out.               *)
(***************************************************************************)
EXTENDS Executor, SharedRunStore, LedgerReplay, SumLemmas, FiniteSetTheorems, TLAPS

-----------------------------------------------------------------------------
(* The inductive invariant. *)

Waits    == {"ready", "queued", "held", "backoff", "lapsing"}
InCall   == {"calling", "expiring"}
Active   == Waits \cup InCall
JobKinds == {"none"} \cup Waits \cup Open \cup Finished

Phases   == {"idle", "revalidating", "looping", "waiting", "stopping"}
Executes == {"revalidating", "looping", "waiting"}
Verdicts == {"run_failed", "run_cancelled"}
Settled  == {"committed", "compensated"}
IntentStates == {"absent", "proposed", "prepared", "aborted"} \cup Settled

TypeOK ==
  /\ calls    \in [Tasks -> Nat]
  /\ IsFiniteSet(events)
  /\ created  \in Nat
  /\ now      \in Nat \ {0}
  /\ manifest \in Setups \cup {NoSetup}
  /\ setup    \in Setups \cup {NoSetup}
  /\ intent   \in [Tasks -> IntentStates]
  /\ phase    \in Phases
  /\ outputs  \in SUBSET Tasks
  /\ job      \in [Tasks -> JobKinds]
  /\ left     \in [Tasks -> Int]
  /\ strikes  \in [Tasks -> Nat]
  /\ cancel   \in BOOLEAN
  /\ signal   \in BOOLEAN
  /\ verdict  \in Verdicts \cup {"none"}
  /\ result   \in {"none", "raised", "awaiting_effects", "completed"}
  /\ crashes  \in Nat

\* The process that works on a run was started with what the run was admitted
\* with.
Admitted ==
  /\ created = 0 => manifest = NoSetup /\ ~Has("run_completed", NoTask)
  /\ created # 0 => manifest \in Setups
  /\ phase # "idle" => created # 0 /\ setup = manifest

\* Coroutines live between Spawn and the end of the loop; those that the loop
\* cancelled outlive it.
LoopOwnsCoroutines ==
  /\ phase \in {"idle", "stopping"} => \A t \in Tasks : job[t] \in {"none", "cancelling"}
  /\ phase = "revalidating" => \A t \in Tasks : job[t] = "none"
  /\ phase \in {"looping", "waiting"} => \A t \in Tasks : job[t] # "cancelling"
  /\ phase = "stopping" => verdict \in Verdicts

\* No process works on a run that has its verdict, no coroutine on one that
\* awaits its effects or is complete, and such a run has every output.
VerdictIsLast ==
  /\ phase # "idle" => ~Terminal
  /\ phase \in {"waiting", "stopping"} \/ (\E t \in Tasks : job[t] \in Active \cup Finished) =>
       ~Has("run_awaiting_effects", NoTask) /\ ~Has("run_completed", NoTask)
  /\ Has("run_awaiting_effects", NoTask) \/ Has("run_completed", NoTask) =>
       CompletedTasks = Tasks

\* What the ledger holds as completed is what the loop has collected or is about
\* to collect; a coroutine at work has its dependencies done and is not done.
LedgerIsCollected ==
  /\ outputs \subseteq CompletedTasks
  /\ phase \in Executes => CompletedTasks = outputs \cup {t \in Tasks : job[t] = "done"}
  /\ \A t \in Tasks : job[t] \in Active \cup Finished => t \notin outputs
  /\ \A t \in Tasks : job[t] \in Active =>
       t \notin CompletedTasks /\ Deps[t] \subseteq CompletedTasks

\* What a coroutine has left is what the durable attempts leave of its plan.
CallsAreCounted ==
  \A t \in Tasks :
    /\ job[t] \in {"queued", "held", "backoff"} =>
         t \notin Writes /\ left[t] = setup.attempts - calls[t] /\ left[t] >= 1
    /\ job[t] = "calling" =>
         t \notin Writes /\ left[t] = setup.attempts - calls[t] + 1 /\ left[t] >= 1

HasOutcome(t, n) == \E e \in events : e.type \in Outcomes /\ e.task = t /\ e.attempt = n

\* One outcome per attempt, none for an attempt that was not started or that a
\* coroutine still has open.
OneOutcome ==
  /\ \A e, f \in events :
       e.type \in Outcomes /\ f.type \in Outcomes /\ e.task = f.task /\ e.attempt = f.attempt
         => e = f
  /\ \A e \in events : e.type \in Outcomes =>
       e.task \in Tasks /\ e.attempt \in 1 .. calls[e.task]
  /\ \A t \in Tasks : job[t] \in Open => calls[t] > 0 /\ ~HasOutcome(t, calls[t])

\* The attempts of a task that nobody will settle any more.
Lost(t) == {n \in 1 .. calls[t] : ~HasOutcome(t, n) /\ ~(job[t] \in Open /\ n = calls[t])}

FewAreLost == \A t \in Tasks : Cardinality(Lost(t)) <= crashes

\* A run recorded as completed has no open effect.
EffectsAreSettled ==
  Has("run_completed", NoTask) => \A t \in manifest.writes : intent[t] \in Settled

IInv ==
  /\ TypeOK
  /\ Admitted
  /\ LoopOwnsCoroutines
  /\ VerdictIsLast
  /\ LedgerIsCollected
  /\ CallsAreCounted
  /\ OneOutcome
  /\ FewAreLost
  /\ EffectsAreSettled

-----------------------------------------------------------------------------
(* Type correctness. *)

\* The ledger stays finite.
LEMMA AppendFinite ==
  ASSUME IsFiniteSet(events), NEW S, IsFiniteSet(S), events' = events \cup S
  PROVE  IsFiniteSet(events')
  BY FS_Union

\* The two sizes of a batch of events.
LEMMA BatchFinite == \A e, f : IsFiniteSet({e}) /\ IsFiniteSet({e, f})
<1> TAKE e, f
<1>1. IsFiniteSet({e})
  BY FS_Singleton
<1>2. IsFiniteSet({e} \cup {f}) /\ {e} \cup {f} = {e, f}
  BY <1>1, FS_AddElement
<1> QED
  BY <1>1, <1>2

\* A batch of one or two events keeps the ledger finite.
LEMMA AppendsFinite ==
  ASSUME IsFiniteSet(events), NEW e, NEW f, Appends({e}) \/ Appends({e, f})
  PROVE  IsFiniteSet(events')
  BY BatchFinite, AppendFinite DEF Appends

\* The run starts well typed.
LEMMA InitTypeOK == Init => TypeOK
<1> SUFFICES ASSUME Init PROVE TypeOK
  OBVIOUS
<1>1. IsFiniteSet(events)
  BY FS_EmptySet DEF Init, StoreInit
<1>2. /\ created \in Nat /\ now \in Nat \ {0} /\ crashes \in Nat
      /\ manifest \in Setups \cup {NoSetup} /\ setup \in Setups \cup {NoSetup}
  BY DEF Init
<1>3. /\ calls \in [Tasks -> Nat] /\ intent \in [Tasks -> IntentStates]
      /\ left \in [Tasks -> Int] /\ strikes \in [Tasks -> Nat]
  BY DEF Init, StoreInit, IntentStates
<1>4. /\ phase \in Phases /\ outputs \in SUBSET Tasks /\ job \in [Tasks -> JobKinds]
  BY DEF Init, Phases, JobKinds
<1>5. /\ cancel \in BOOLEAN /\ signal \in BOOLEAN
  BY DEF Init
<1>6. /\ verdict \in Verdicts \cup {"none"}
      /\ result \in {"none", "raised", "awaiting_effects", "completed"}
  BY DEF Init
<1> QED
  BY <1>1, <1>2, <1>3, <1>4, <1>5, <1>6 DEF TypeOK

\* The main loop keeps the state well typed.
LEMMA LoopTypeOK ==
  ASSUME TypeOK,
         LoopStep \/ CallerCancels \/ \E s \in Setups : Execute(s) \/ Refused(s)
  PROVE  TypeOK'
<1> USE DEF TypeOK, Phases, JobKinds, Waits, Open, Finished, Verdicts
<1>1. ASSUME NEW s \in Setups, Execute(s) PROVE TypeOK'
  <2>1. IsFiniteSet(events')
    BY <1>1, AppendsFinite DEF Execute
  <2>2. outputs' \in SUBSET Tasks
    BY <1>1 DEF Execute, Resumed, CompletedTasks
  <2> QED
    BY <1>1, <2>1, <2>2 DEF Execute
<1>2. ASSUME NEW s \in Setups, Refused(s) PROVE TypeOK'
  BY <1>2 DEF Refused, Return, durable
<1>3. CASE Revalidated
  BY <1>3 DEF Revalidated, durable
<1>4. CASE RevalidationRefused
  BY <1>4 DEF RevalidationRefused, Return, durable
<1>5. CASE LoopStops
  BY <1>5 DEF LoopStops, Stop, durable
<1>6. CASE Spawn
  BY <1>6 DEF Spawn, durable
<1>7. CASE Collect
  <2>1. IsFiniteSet(events')
    BY <1>7, AppendsFinite DEF Collect
  <2>2. outputs' \in SUBSET Tasks
    BY <1>7 DEF Collect
  <2>3. job' \in [Tasks -> JobKinds]
    BY <1>7 DEF Collect, Stop
  <2>4. phase' \in Phases /\ signal' \in BOOLEAN /\ verdict' \in Verdicts \cup {"none"}
    BY <1>7 DEF Collect, Stop
  <2> QED
    BY <1>7, <2>1, <2>2, <2>3, <2>4 DEF Collect
<1>8. CASE Finish
  <2>1. IsFiniteSet(events')
    BY <1>8, AppendsFinite DEF Finish
  <2> QED
    BY <1>8, <2>1 DEF Finish, Return
<1>9. CASE Concludes
  <2>1. IsFiniteSet(events')
    BY <1>9, AppendsFinite DEF Concludes
  <2> QED
    BY <1>9, <2>1 DEF Concludes, Return
<1>10. CASE CallerCancels
  BY <1>10 DEF CallerCancels, Return, Stop, durable
<1> QED
  BY <1>1, <1>2, <1>3, <1>4, <1>5, <1>6, <1>7, <1>8, <1>9, <1>10 DEF LoopStep

\* What is left of a plan and the strikes of a coroutine are numbers.
LEMMA PlanType ==
  ASSUME TypeOK, NEW t \in Tasks
  PROVE  /\ setup.attempts \in Nat /\ PriorAttempts(t) \in Nat
         /\ PriorRetryable(t) \in Nat
<1>1. setup.attempts \in Nat
  BY ExecutorAssumption DEF TypeOK, IsSetup, NoSetup
<1>2. IsFiniteSet({e \in events : e.task = t /\ e.type = "attempt_failed" /\ e.body = "retryable"})
  BY FS_Subset DEF TypeOK
<1> QED
  BY <1>1, <1>2, FS_CardinalityType DEF PriorAttempts, PriorRetryable, TypeOK

\* The coroutines keep the state well typed.
LEMMA TaskTypeOK ==
  ASSUME TypeOK, NEW t \in Tasks, TaskStep(t)
  PROVE  TypeOK'
<1> USE DEF TypeOK, JobKinds, Waits, Open, Finished, Job, taskLeaves
<1>1. CASE Materialize(t)
  <2>1. IsFiniteSet(events')
    BY <1>1, AppendsFinite DEF Materialize
  <2>2. intent' \in [Tasks -> IntentStates]
    BY <1>1 DEF Materialize, Proposed, IntentStates
  <2> QED
    BY <1>1, <2>1, <2>2 DEF Materialize
<1>2. CASE Begin(t)
  <2>1. left' \in [Tasks -> Int] /\ strikes' \in [Tasks -> Nat]
    BY <1>2, PlanType DEF Begin
  <2>2. job' \in [Tasks -> JobKinds]
    BY <1>2 DEF Begin
  <2> QED
    BY <1>2, <2>1, <2>2 DEF Begin
<1>3. CASE BeginsLate(t) \/ TakeProvider(t) \/ WaitCancelled(t) \/ WaitLapses(t)
  BY <1>3 DEF BeginsLate, TakeProvider, WaitCancelled, WaitLapses
<1>4. CASE StartCall(t)
  BY <1>4 DEF StartCall, StartAttempt
<1>5. CASE TimesOut(t)
  BY <1>5 DEF TimesOut
<1>6. CASE BackoffEnds(t)
  BY <1>6 DEF BackoffEnds
<1>7. CASE \/ CallSucceeds(t) \/ CallFails(t) \/ CallExpires(t) \/ CallEndsLate(t)
           \/ CallCancelled(t) \/ SettlesCancelled(t)
  <2>1. IsFiniteSet(events')
    BY <1>7, AppendsFinite
    DEF CallSucceeds, Completion, CallFails, CallExpires, CallEndsLate, CallCancelled,
        SettlesCancelled
  <2>2. job' \in [Tasks -> JobKinds]
    BY <1>7 DEF CallSucceeds, CallFails, CallExpires, CallEndsLate, CallCancelled,
                SettlesCancelled
  <2> QED
    BY <1>7, <2>1, <2>2 DEF CallSucceeds, CallFails, CallExpires, CallEndsLate,
                            CallCancelled, SettlesCancelled
<1>8. CASE CallRetries(t)
  <2>1. IsFiniteSet(events')
    BY <1>8, AppendsFinite DEF CallRetries
  <2>2. job' \in [Tasks -> JobKinds] /\ left' \in [Tasks -> Int] /\ strikes' \in [Tasks -> Nat]
    BY <1>8 DEF CallRetries
  <2> QED
    BY <1>8, <2>1, <2>2 DEF CallRetries
<1> QED
  BY <1>1, <1>2, <1>3, <1>4, <1>5, <1>6, <1>7, <1>8 DEF TaskStep

\* Every step keeps the state well typed.
LEMMA StepTypeOK == TypeOK /\ [Next]_vars => TypeOK'
<1> SUFFICES ASSUME TypeOK, [Next]_vars PROVE TypeOK'
  OBVIOUS
<1>1. CASE UNCHANGED vars
  BY <1>1 DEF vars, durable, volatile, TypeOK
<1>2. CASE Crash \/ \E t \in Tasks : CrashInMaterialize(t) \/ CrashInRetry(t)
  <2>1. IsFiniteSet(events')
    BY <1>2, BatchFinite, AppendFinite, AppendsFinite
    DEF Crash, CrashInMaterialize, CrashInRetry, durable, TypeOK
  <2>2. intent' \in [Tasks -> IntentStates]
    BY <1>2 DEF Crash, CrashInMaterialize, CrashInRetry, Proposed, durable, TypeOK,
                IntentStates
  <2>3. UNCHANGED <<calls, created, manifest>> /\ Reset
    BY <1>2 DEF Crash, CrashInMaterialize, CrashInRetry, durable
  <2>4. /\ phase' \in Phases /\ outputs' \in SUBSET Tasks /\ job' \in [Tasks -> JobKinds]
        /\ left' \in [Tasks -> Int] /\ strikes' \in [Tasks -> Nat]
    BY <2>3 DEF Reset, Phases, JobKinds
  <2>5. /\ cancel' \in BOOLEAN /\ signal' \in BOOLEAN /\ verdict' \in Verdicts \cup {"none"}
        /\ result' \in {"none", "raised", "awaiting_effects", "completed"}
    BY <2>3 DEF Reset
  <2>6. crashes' \in Nat /\ UNCHANGED <<setup, now>>
    BY <2>3 DEF Reset, TypeOK
  <2> QED
    BY <2>1, <2>2, <2>3, <2>4, <2>5, <2>6 DEF TypeOK
<1>3. CASE RequestCancel
  BY <1>3 DEF RequestCancel, durable, TypeOK
<1>5. CASE Tick
  BY <1>5 DEF Tick, durable, volatile, TypeOK
<1>4. ASSUME NEW t \in Tasks, BrokerMoves(t) PROVE TypeOK'
  BY <1>4 DEF BrokerMoves, IntentMoves, volatile, TypeOK, IntentStates, Settled
<1> QED
  BY <1>1, <1>2, <1>3, <1>4, <1>5, LoopTypeOK, TaskTypeOK DEF Next

-----------------------------------------------------------------------------
(* The ledger: which events the invariants read. *)

\* The events that decide what is done and how the run ends.
RunEnds    == {"run_failed", "run_cancelled", "run_completed", "run_awaiting_effects"}
Milestones == RunEnds \cup {"completed"}

\* The events a step appends.
New == events' \ events

\* Events of other types decide neither.
LEMMA NoMilestone ==
  ASSUME events \subseteq events', \A e \in New : e.type \notin Milestones
  PROVE  /\ CompletedTasks' = CompletedTasks
         /\ \A type \in Milestones : \A x : Has(type, x)' <=> Has(type, x)
<1>1. \A type \in Milestones : \A x : Has(type, x)' <=> Has(type, x)
  BY DEF Has, New
<1> QED
  BY <1>1 DEF CompletedTasks, Milestones

\* A completion adds its task to what is done.
LEMMA OneMoreCompleted ==
  ASSUME NEW t \in Tasks, events \subseteq events',
         \A e \in New : e.type \in Milestones => e.type = "completed" /\ e.task = t,
         \E e \in events' : e.type = "completed" /\ e.task = t
  PROVE  /\ CompletedTasks' = CompletedTasks \cup {t}
         /\ \A type \in RunEnds : \A x : Has(type, x)' <=> Has(type, x)
<1>1. \A u : Has("completed", u)' <=> Has("completed", u) \/ u = t
  BY DEF Has, New, Milestones
<1>2. \A type \in RunEnds : \A x : Has(type, x)' <=> Has(type, x)
  BY DEF Has, New, Milestones, RunEnds
<1> QED
  BY <1>1, <1>2 DEF CompletedTasks

\* Terminal is a matter of the run's milestones.
LEMMA TerminalSame ==
  ASSUME \A type \in RunEnds : \A x : Has(type, x)' <=> Has(type, x)
  PROVE  Terminal' <=> Terminal
  BY DEF Terminal, RunEnds

-----------------------------------------------------------------------------
(* The attempts. *)

\* The attempts that nobody will settle are finitely many.
LEMMA LostFinite ==
  ASSUME TypeOK, NEW t \in Tasks
  PROVE  IsFiniteSet(Lost(t))
<1>1. IsFiniteSet(1 .. calls[t])
  BY FS_Interval DEF TypeOK
<1>2. Lost(t) \in SUBSET (1 .. calls[t])
  BY DEF Lost
<1> QED
  BY <1>1, <1>2, FS_Subset

\* A step that settles no attempt and opens none leaves the accounts alone.
LEMMA NoAttempt ==
  ASSUME TypeOK, TypeOK', OneOutcome, FewAreLost,
         events \subseteq events', \A e \in New : e.type \notin Outcomes,
         UNCHANGED <<calls, crashes>>,
         \A t \in Tasks : job'[t] \in Open <=> job[t] \in Open
  PROVE  OneOutcome' /\ FewAreLost'
<1>1. \A t, n : HasOutcome(t, n)' <=> HasOutcome(t, n)
  BY DEF HasOutcome, New
<1>2. OneOutcome'
  BY <1>1 DEF OneOutcome, New
<1>3. \A t \in Tasks : Lost(t)' = Lost(t)
  BY <1>1 DEF Lost
<1> QED
  BY <1>2, <1>3 DEF FewAreLost

\* The outcome of an open attempt is its first.
LEMMA OutcomeSettles ==
  ASSUME TypeOK, TypeOK', OneOutcome, FewAreLost,
         NEW t \in Tasks, job[t] \in Open, job'[t] \notin Open,
         \A u \in Tasks \ {t} : job'[u] = job[u],
         UNCHANGED <<calls, crashes>>,
         events \subseteq events',
         NEW o \in events', o.type \in Outcomes, o.task = t, o.attempt = calls[t],
         \A e \in New : e.type \in Outcomes => e = o
  PROVE  OneOutcome' /\ FewAreLost'
<1>1. calls[t] > 0 /\ ~HasOutcome(t, calls[t])
  BY DEF OneOutcome
<1>2. ASSUME NEW u, NEW n
      PROVE  HasOutcome(u, n)' <=> HasOutcome(u, n) \/ (u = t /\ n = calls[t])
  BY DEF HasOutcome, New
<1>3. OneOutcome'
  <2>1. ASSUME NEW e \in events', NEW f \in events', e.type \in Outcomes,
               f.type \in Outcomes, e.task = f.task, e.attempt = f.attempt
        PROVE  e = f
    <3>1. \A g \in events : g.type \in Outcomes => ~(g.task = t /\ g.attempt = calls[t])
      BY <1>1 DEF HasOutcome
    <3> QED
      BY <2>1, <3>1 DEF OneOutcome, New
  <2>2. ASSUME NEW e \in events', e.type \in Outcomes
        PROVE  e.task \in Tasks /\ e.attempt \in 1 .. calls'[e.task]
    BY <2>2, <1>1 DEF OneOutcome, TypeOK, New
  <2>3. ASSUME NEW u \in Tasks, job'[u] \in Open
        PROVE  calls'[u] > 0 /\ ~HasOutcome(u, calls[u])'
    BY <2>3, <1>2 DEF OneOutcome
  <2> QED
    BY <2>1, <2>2, <2>3 DEF OneOutcome
<1>4. \A u \in Tasks : Lost(u)' = Lost(u)
  BY <1>2 DEF Lost
<1> QED
  BY <1>3, <1>4 DEF FewAreLost

\* A new attempt is open from the start.
LEMMA AttemptOpens ==
  ASSUME TypeOK, TypeOK', OneOutcome, FewAreLost,
         NEW t \in Tasks, StartAttempt(t), job[t] \notin Open,
         job' = [job EXCEPT ![t] = "calling"], UNCHANGED <<events, crashes>>
  PROVE  OneOutcome' /\ FewAreLost'
<1>1. /\ calls'[t] = calls[t] + 1
      /\ \A u \in Tasks \ {t} : calls'[u] = calls[u] /\ job'[u] = job[u]
      /\ job'[t] = "calling"
  BY DEF StartAttempt, TypeOK
<1>2. \A u, n : HasOutcome(u, n)' <=> HasOutcome(u, n)
  BY DEF HasOutcome
<1>3. ~HasOutcome(t, calls[t] + 1)
  BY DEF HasOutcome, OneOutcome, TypeOK
<1>4. OneOutcome'
  <2>1. \A e \in events : e.type \in Outcomes =>
          e.task \in Tasks /\ e.attempt \in 1 .. calls'[e.task]
    BY <1>1 DEF OneOutcome, TypeOK
  <2>2. ASSUME NEW u \in Tasks, job'[u] \in Open
        PROVE  calls'[u] > 0 /\ ~HasOutcome(u, calls[u])'
    BY <2>2, <1>1, <1>2, <1>3 DEF OneOutcome, TypeOK
  <2> QED
    BY <2>1, <2>2 DEF OneOutcome
<1>5. ASSUME NEW u \in Tasks PROVE Lost(u)' = Lost(u)
  <2>1. CASE u = t
    <3>1. \A n : n \in 1 .. calls'[t] <=> n \in 1 .. calls[t] \/ n = calls[t] + 1
      BY <1>1 DEF TypeOK
    <3>2. \A n \in 1 .. calls[t] : n # calls[t] + 1
      BY DEF TypeOK
    <3> QED
      BY <2>1, <3>1, <3>2, <1>1, <1>2 DEF Lost, Open
  <2>2. CASE u # t
    BY <2>2, <1>1, <1>2 DEF Lost
  <2> QED
    BY <2>1, <2>2
<1> QED
  BY <1>4, <1>5 DEF FewAreLost

\* A process death loses at most the open attempt of each task.
LEMMA DeathLosesOne ==
  ASSUME TypeOK, TypeOK', OneOutcome, FewAreLost, OneOutcome',
         events \subseteq events', calls' = calls, crashes' = crashes + 1
  PROVE  FewAreLost'
<1> SUFFICES ASSUME NEW t \in Tasks PROVE Cardinality(Lost(t)') <= crashes'
  BY DEF FewAreLost
<1>1. Lost(t)' \in SUBSET (Lost(t) \cup {calls[t]})
  BY DEF Lost, HasOutcome
<1>2. /\ IsFiniteSet(Lost(t)) /\ Cardinality(Lost(t)) \in Nat
      /\ Cardinality(Lost(t)) <= crashes
  BY LostFinite, FS_CardinalityType DEF FewAreLost
<1>3. /\ IsFiniteSet(Lost(t) \cup {calls[t]})
      /\ Cardinality(Lost(t) \cup {calls[t]}) <= Cardinality(Lost(t)) + 1
  BY <1>2, FS_AddElement
<1>4. /\ Cardinality(Lost(t)') <= Cardinality(Lost(t) \cup {calls[t]})
      /\ Cardinality(Lost(t)') \in Nat
      /\ Cardinality(Lost(t) \cup {calls[t]}) \in Nat
  BY <1>1, <1>3, FS_Subset, FS_CardinalityType
<1> QED
  BY <1>2, <1>3, <1>4 DEF TypeOK

-----------------------------------------------------------------------------
(* The coroutines. *)

\* What concerns the run as a whole.
RunInv ==
  /\ Admitted
  /\ LoopOwnsCoroutines
  /\ VerdictIsLast
  /\ LedgerIsCollected
  /\ EffectsAreSettled

\* A coroutine that goes on, ends without success, or ends with its completion
\* in the ledger, keeps what concerns the run.
LEMMA CoroutineKeepsRun ==
  ASSUME TypeOK, TypeOK', RunInv, NEW t \in Tasks, NEW s, Job(t, s),
         \/ job[t] \in Active /\ s \in Active \cup Finished
         \/ job[t] = "cancelling" /\ s = "none",
         UNCHANGED taskLeaves,
         \A type \in RunEnds : \A x : Has(type, x)' <=> Has(type, x),
         CompletedTasks' = CompletedTasks \cup (IF s = "done" THEN {t} ELSE {}),
         \A u \in Tasks : intent[u] \in Settled => intent'[u] \in Settled
  PROVE  RunInv'
<1>0. /\ UNCHANGED <<created, manifest, setup, phase, outputs, verdict>>
      /\ job'[t] = s /\ \A u \in Tasks \ {t} : job'[u] = job[u]
      /\ CompletedTasks \subseteq CompletedTasks'
      /\ CompletedTasks' \subseteq Tasks
  BY DEF taskLeaves, Job, TypeOK, CompletedTasks
<1>1. Admitted'
  BY <1>0 DEF RunInv, Admitted, RunEnds
<1>2. LoopOwnsCoroutines'
  BY <1>0 DEF RunInv, LoopOwnsCoroutines, Active, Waits, InCall, Finished
<1>3. VerdictIsLast'
  <2>1. Terminal' <=> Terminal
    BY TerminalSame
  <2> QED
    BY <1>0, <2>1 DEF RunInv, VerdictIsLast, RunEnds, Active, Waits, InCall, Finished
<1>4. LedgerIsCollected'
  <2>1. phase \in Executes => CompletedTasks' = outputs' \cup {u \in Tasks : job'[u] = "done"}
    BY <1>0 DEF RunInv, LedgerIsCollected, LoopOwnsCoroutines, Executes, Active, Waits, InCall
  <2>2. ASSUME NEW u \in Tasks, job'[u] \in Active
        PROVE  u \notin CompletedTasks' /\ Deps'[u] \subseteq CompletedTasks'
    <3>1. job[u] \in Active /\ u \notin CompletedTasks /\ Deps[u] \subseteq CompletedTasks
      BY <1>0, <2>2 DEF RunInv, LedgerIsCollected, Active, Waits, InCall
    <3>2. Deps' = Deps
      BY <1>0 DEF Deps
    <3>3. u = t => s # "done"
      BY <1>0, <2>2 DEF Active, Waits, InCall
    <3> QED
      BY <3>1, <3>2, <3>3, <1>0
  <2>3. \A u \in Tasks : job'[u] \in Active \cup Finished => u \notin outputs'
    BY <1>0 DEF RunInv, LedgerIsCollected, Active, Waits, InCall, Finished
  <2> QED
    BY <1>0, <2>1, <2>2, <2>3 DEF RunInv, LedgerIsCollected
<1>5. EffectsAreSettled'
  <2>1. manifest.writes \subseteq Tasks
    BY ExecutorAssumption DEF TypeOK, IsSetup, NoSetup
  <2> QED
    BY <1>0, <2>1 DEF RunInv, EffectsAreSettled, RunEnds
<1> QED
  BY <1>1, <1>2, <1>3, <1>4, <1>5 DEF RunInv

\* The count of a coroutine is kept if its own entry is right.
LEMMA CoroutineKeepsCount ==
  ASSUME TypeOK, CallsAreCounted, NEW t \in Tasks, NEW s, Job(t, s),
         UNCHANGED taskLeaves,
         \A u \in Tasks \ {t} : calls'[u] = calls[u] /\ left'[u] = left[u],
         s \in {"queued", "held", "backoff"} =>
           t \notin Writes /\ left'[t] = setup.attempts - calls'[t] /\ left'[t] >= 1,
         s = "calling" =>
           t \notin Writes /\ left'[t] = setup.attempts - calls'[t] + 1 /\ left'[t] >= 1
  PROVE  CallsAreCounted'
  BY DEF CallsAreCounted, Job, TypeOK, taskLeaves, Writes

\* Settling keeps the counts that a coroutine with an open call has.
LEMMA EventTypes ==
  /\ "attempt_failed" \in Outcomes \ Milestones
  /\ "attempt_cancelled" \in Outcomes \ Milestones
  /\ {"retry_scheduled", "circuit_opened", "effect_intent_created", "dead_lettered",
      "run_started"} \cap (Outcomes \cup Milestones) = {}
  /\ Outcomes \cap Milestones = {}
  BY DEF Outcomes, Milestones, RunEnds

\* A coroutine between its calls.
LEMMA WaitingStep ==
  ASSUME IInv, TypeOK', NEW t \in Tasks, NEW s, Job(t, s),
         \/ job[t] \in Waits /\ s \in Waits \cup (Finished \ {"done"})
         \/ job[t] = "calling" /\ s = "expiring",
         UNCHANGED <<calls, events, taskLeaves>>,
         \A u \in Tasks \ {t} : left'[u] = left[u],
         s \in {"queued", "held", "backoff"} =>
           t \notin Writes /\ left'[t] = setup.attempts - calls[t] /\ left'[t] >= 1,
         \A u \in Tasks : intent[u] \in Settled => intent'[u] \in Settled
  PROVE  IInv'
<1>1. RunInv'
  <2>1. /\ CompletedTasks' = CompletedTasks
        /\ \A type \in RunEnds : \A x : Has(type, x)' <=> Has(type, x)
    BY DEF CompletedTasks, Has
  <2>2. \/ job[t] \in Active /\ s \in Active \cup Finished
        \/ job[t] = "cancelling" /\ s = "none"
    BY DEF Active, InCall, Finished
  <2>3. s # "done"
    BY DEF Waits
  <2> QED
    BY <2>1, <2>2, <2>3, CoroutineKeepsRun DEF IInv, RunInv
<1>2. CallsAreCounted'
  <2>1. s # "calling"
    BY DEF Waits, Finished
  <2> QED
    BY <2>1, CoroutineKeepsCount DEF IInv
<1>3. OneOutcome' /\ FewAreLost'
  <2>1. \A u \in Tasks : job'[u] \in Open <=> job[u] \in Open
    BY DEF Job, IInv, TypeOK, Waits, Open, Finished
  <2>2. UNCHANGED crashes /\ New = {}
    BY DEF taskLeaves, New
  <2> QED
    BY <2>1, <2>2, NoAttempt DEF IInv
<1> QED
  BY <1>1, <1>2, <1>3 DEF IInv, RunInv

\* A coroutine whose call ends without a completion.
LEMMA SettlingStep ==
  ASSUME IInv, TypeOK', NEW t \in Tasks, NEW s, Job(t, s),
         \/ job[t] \in InCall /\ s \in {"backoff"} \cup (Finished \ {"done"})
         \/ job[t] = "cancelling" /\ s = "none",
         UNCHANGED <<calls, intent, taskLeaves>>,
         events \subseteq events',
         NEW o \in events', o.type \in Outcomes, o.task = t, o.attempt = calls[t],
         \A e \in New : e.type \notin Milestones /\ (e.type \in Outcomes => e = o),
         \A u \in Tasks \ {t} : left'[u] = left[u],
         s = "backoff" =>
           t \notin Writes /\ left'[t] = setup.attempts - calls[t] /\ left'[t] >= 1
  PROVE  IInv'
<1>1. RunInv'
  <2>1. /\ CompletedTasks' = CompletedTasks
        /\ \A type \in RunEnds : \A x : Has(type, x)' <=> Has(type, x)
    BY NoMilestone DEF Milestones
  <2>2. \/ job[t] \in Active /\ s \in Active \cup Finished
        \/ job[t] = "cancelling" /\ s = "none"
    BY DEF Active, Waits
  <2>3. s # "done"
    OBVIOUS
  <2> QED
    BY <2>1, <2>2, <2>3, CoroutineKeepsRun DEF IInv, RunInv
<1>2. CallsAreCounted'
  <2>1. s \notin {"calling", "queued", "held"}
    BY DEF Finished
  <2> QED
    BY <2>1, CoroutineKeepsCount DEF IInv
<1>3. OneOutcome' /\ FewAreLost'
  <2>1. job[t] \in Open /\ job'[t] \notin Open
    BY DEF Job, IInv, TypeOK, InCall, Open, Finished
  <2>2. UNCHANGED crashes /\ \A u \in Tasks \ {t} : job'[u] = job[u]
    BY DEF taskLeaves, Job, IInv, TypeOK
  <2> QED
    BY <2>1, <2>2, OutcomeSettles DEF IInv
<1> QED
  BY <1>1, <1>2, <1>3 DEF IInv, RunInv

\* A call that succeeds, or an intent that is materialized, completes its task.
LEMMA CompletingStep ==
  ASSUME IInv, TypeOK', NEW t \in Tasks, Job(t, "done"), job[t] \in {"ready", "calling"},
         UNCHANGED <<calls, left, taskLeaves>>,
         events \subseteq events',
         \A e \in New : e.type \in Milestones => e.type = "completed" /\ e.task = t,
         \E e \in events' : e.type = "completed" /\ e.task = t,
         \A u \in Tasks : intent[u] \in Settled => intent'[u] \in Settled
  PROVE  RunInv' /\ CallsAreCounted'
<1>1. /\ CompletedTasks' = CompletedTasks \cup {t}
      /\ \A type \in RunEnds : \A x : Has(type, x)' <=> Has(type, x)
  BY OneMoreCompleted
<1>2. job[t] \in Active /\ "done" \in Active \cup Finished
  BY DEF Active, Waits, InCall, Finished
<1>3. RunInv'
  BY <1>1, <1>2, CoroutineKeepsRun DEF IInv, RunInv
<1>4. CallsAreCounted'
  BY CoroutineKeepsCount DEF IInv
<1> QED
  BY <1>3, <1>4

\* An effect that is settled stays settled when its proposal is repeated.
LEMMA ProposedSettled ==
  ASSUME TypeOK, NEW t \in Tasks, intent' = [intent EXCEPT ![t] = Proposed(t)]
  PROVE  \A u \in Tasks : intent[u] \in Settled => intent'[u] \in Settled
  BY DEF TypeOK, Proposed, Settled

\* A write's coroutine.
LEMMA MaterializeStep ==
  ASSUME IInv, TypeOK', NEW t \in Tasks, Materialize(t)
  PROVE  IInv'
<1>0. /\ job[t] = "ready" /\ UNCHANGED <<calls, left, taskLeaves>>
      /\ \A u \in Tasks : intent[u] \in Settled => intent'[u] \in Settled
  BY ProposedSettled DEF Materialize, IInv
<1>1. CASE Conflicts(IntentCreated(t))
  <2>1. Job(t, "failed") /\ UNCHANGED events
    BY <1>1 DEF Materialize
  <2>2. job[t] \in Waits /\ "failed" \in Waits \cup (Finished \ {"done"})
    BY <1>0 DEF Waits, Finished
  <2> QED
    BY <1>0, <2>1, <2>2, WaitingStep
<1>2. CASE ~Conflicts(IntentCreated(t))
  <2>1. Job(t, "done") /\ events' = events \cup {IntentCreated(t), IntentCompleted(t)}
    BY <1>2 DEF Materialize, Appends
  <2>2. /\ events \subseteq events'
        /\ \A e \in New : e.type \notin Outcomes
        /\ \A e \in New : e.type \in Milestones => e.type = "completed" /\ e.task = t
        /\ \E e \in events' : e.type = "completed" /\ e.task = t
    <3>1. /\ IntentCreated(t).type = "effect_intent_created"
          /\ IntentCompleted(t).type = "completed" /\ IntentCompleted(t).task = t
      BY DEF IntentCreated, IntentCompleted, Event
    <3>2. "completed" \notin Outcomes
      BY DEF Outcomes
    <3> QED
      BY <2>1, <3>1, <3>2, EventTypes DEF New
  <2>3. RunInv' /\ CallsAreCounted'
    BY <1>0, <2>1, <2>2, CompletingStep
  <2>4. \A u \in Tasks : job'[u] \in Open <=> job[u] \in Open
    BY <1>0, <2>1 DEF Job, IInv, TypeOK, Open
  <2>5. UNCHANGED crashes
    BY <1>0 DEF taskLeaves
  <2>6. OneOutcome' /\ FewAreLost'
    BY <1>0, <2>1, <2>2, <2>4, <2>5, NoAttempt DEF IInv
  <2> QED
    BY <2>3, <2>6 DEF IInv, RunInv
<1> QED
  BY <1>1, <1>2

\* The call of a fixture that succeeds: the outcome and the completion.
LEMMA SuccessStep ==
  ASSUME IInv, TypeOK', NEW t \in Tasks, CallSucceeds(t)
  PROVE  IInv'
<1> DEFINE o == Event("attempt_succeeded", t, calls[t], "output")
<1>1. /\ job[t] = "calling" /\ Job(t, "done") /\ events' = events \cup Completion(t, calls[t])
      /\ UNCHANGED <<calls, left, intent, taskLeaves>>
  BY DEF CallSucceeds, Appends
<1>2. /\ events \subseteq events'
      /\ \A e \in New : e.type \in Milestones => e.type = "completed" /\ e.task = t
      /\ \E e \in events' : e.type = "completed" /\ e.task = t
      /\ o \in events' /\ o.type \in Outcomes /\ o.task = t /\ o.attempt = calls[t]
      /\ \A e \in New : e.type \in Outcomes => e = o
  <2>1. /\ o.type = "attempt_succeeded" /\ o.task = t /\ o.attempt = calls[t]
        /\ events' = events \cup {o, Event("completed", t, calls[t], "output")}
    BY <1>1 DEF Event, Completion
  <2>2. /\ Event("completed", t, calls[t], "output").type = "completed"
        /\ Event("completed", t, calls[t], "output").task = t
    BY DEF Event
  <2>3. /\ "completed" \notin Outcomes
        /\ "attempt_succeeded" \in Outcomes /\ "attempt_succeeded" \notin Milestones
    BY DEF Outcomes, Milestones, RunEnds
  <2> HIDE DEF o
  <2> QED
    BY <2>1, <2>2, <2>3 DEF New
<1>3. RunInv' /\ CallsAreCounted'
  BY <1>1, <1>2, CompletingStep
<1>4. /\ job[t] \in Open /\ job'[t] \notin Open /\ UNCHANGED crashes
      /\ \A u \in Tasks \ {t} : job'[u] = job[u]
  BY <1>1 DEF Job, IInv, TypeOK, Open, taskLeaves
<1>5. OneOutcome' /\ FewAreLost'
  BY <1>1, <1>2, <1>4, OutcomeSettles DEF IInv
<1> QED
  BY <1>3, <1>5 DEF IInv, RunInv

\* A call starts: its attempt is numbered before the worker is called.
LEMMA StartCallStep ==
  ASSUME IInv, TypeOK', NEW t \in Tasks, StartCall(t)
  PROVE  IInv'
<1>1. /\ job[t] = "held" /\ Job(t, "calling") /\ StartAttempt(t)
      /\ UNCHANGED <<events, intent, left, taskLeaves>>
      /\ calls'[t] = calls[t] + 1 /\ \A u \in Tasks \ {t} : calls'[u] = calls[u]
  BY DEF StartCall, StartAttempt, IInv, TypeOK
<1>3. RunInv'
  <2>1. /\ CompletedTasks' = CompletedTasks
        /\ \A type \in RunEnds : \A x : Has(type, x)' <=> Has(type, x)
    BY <1>1 DEF CompletedTasks, Has
  <2>2. job[t] \in Active /\ "calling" \in Active
    BY <1>1 DEF Active, Waits, InCall
  <2> QED
    BY <1>1, <2>1, <2>2, CoroutineKeepsRun DEF IInv, RunInv
<1>4. CallsAreCounted'
  <2>1. t \notin Writes /\ left'[t] = setup.attempts - calls'[t] + 1 /\ left'[t] >= 1
    <3>1. setup.attempts \in Nat
      BY PlanType DEF IInv
    <3> QED
      BY <1>1, <3>1 DEF IInv, CallsAreCounted, TypeOK
  <2> QED
    BY <1>1, <2>1, CoroutineKeepsCount DEF IInv
<1>5. OneOutcome' /\ FewAreLost'
  <2>1. job[t] \notin Open /\ UNCHANGED crashes
    BY <1>1 DEF Open, taskLeaves
  <2> QED
    BY <1>1, <2>1, AttemptOpens DEF IInv, Job
<1> QED
  BY <1>3, <1>4, <1>5 DEF IInv, RunInv

\* The coroutines keep the invariant.
LEMMA TaskStepIInv ==
  ASSUME IInv, NEW t \in Tasks, TaskStep(t)
  PROVE  IInv'
<1>0. TypeOK' /\ TypeOK
  BY TaskTypeOK DEF IInv
<1>a. setup.attempts \in Nat
  BY <1>0, PlanType
<1>1. CASE Begin(t)
  <2>1. PICK s \in {"late", "failed", "cancelled", "queued"} : Job(t, s) /\ (s = "queued" => left'[t] > 0)
    BY <1>1 DEF Begin
  <2>2. job[t] \in Waits /\ s \in Waits \cup (Finished \ {"done"})
    BY <1>1 DEF Begin, Waits, Finished
  <2>3. t \notin Writes /\ left'[t] = setup.attempts - calls[t] /\ left'[t] \in Int
    BY <1>0, <1>1, <1>a DEF Begin, PriorAttempts, Fixtures, TypeOK
  <2>4. \A u \in Tasks \ {t} : left'[u] = left[u]
    BY <1>0, <1>1 DEF Begin, TypeOK
  <2>5. UNCHANGED <<calls, events, taskLeaves, intent>>
    BY <1>1 DEF Begin
  <2> QED
    BY <1>0, <2>1, <2>2, <2>3, <2>4, <2>5, WaitingStep
<1>2. CASE BeginsLate(t) \/ WaitCancelled(t) \/ WaitLapses(t)
  <2>1. PICK s \in {"late", "cancelled"} : Job(t, s)
    BY <1>2 DEF BeginsLate, WaitCancelled, WaitLapses
  <2>2. job[t] \in Waits /\ s \in Waits \cup (Finished \ {"done"})
    BY <1>2 DEF BeginsLate, WaitCancelled, WaitLapses, Waits, Finished
  <2>3. s \notin {"queued", "held", "backoff"}
    OBVIOUS
  <2>4. UNCHANGED <<calls, events, taskLeaves, intent, left>>
    BY <1>2 DEF BeginsLate, WaitCancelled, WaitLapses
  <2> QED
    BY <1>0, <2>1, <2>2, <2>3, <2>4, WaitingStep
<1>3. CASE TakeProvider(t) \/ BackoffEnds(t)
  <2>1. PICK s \in {"held", "cancelled", "late", "queued"} : Job(t, s)
    BY <1>3 DEF TakeProvider, BackoffEnds
  <2>2. job[t] \in Waits /\ s \in Waits \cup (Finished \ {"done"})
    BY <1>3 DEF TakeProvider, BackoffEnds, Waits, Finished
  <2>3. UNCHANGED <<calls, events, taskLeaves, intent, left>>
    BY <1>3 DEF TakeProvider, BackoffEnds
  <2>4. t \notin Writes /\ left'[t] = setup.attempts - calls[t] /\ left'[t] >= 1
    BY <1>3, <2>3 DEF TakeProvider, BackoffEnds, IInv, CallsAreCounted
  <2> QED
    BY <1>0, <2>1, <2>2, <2>3, <2>4, WaitingStep
<1>4. CASE TimesOut(t)
  <2>1. PICK s \in {"lapsing", "expiring"} :
          /\ Job(t, s)
          /\ \/ job[t] \in {"queued", "held"} /\ s = "lapsing"
             \/ job[t] = "calling" /\ s = "expiring"
    BY <1>4 DEF TimesOut
  <2>2. \/ job[t] \in Waits /\ s \in Waits \cup (Finished \ {"done"})
        \/ job[t] = "calling" /\ s = "expiring"
    BY <2>1 DEF Waits
  <2>3. UNCHANGED <<calls, events, taskLeaves, intent, left>>
    BY <1>4 DEF TimesOut
  <2>4. s \notin {"queued", "held", "backoff"}
    OBVIOUS
  <2> QED
    BY <1>0, <2>1, <2>2, <2>3, <2>4, WaitingStep
<1>5. CASE CallFails(t) \/ CallExpires(t) \/ CallEndsLate(t) \/ CallCancelled(t) \/ SettlesCancelled(t)
  <2>1. PICK o \in {Failed(t, "final"), Event("attempt_cancelled", t, calls[t], "final")},
             s \in {"failed", "late", "cancelled", "none"} :
          /\ Appends({o}) /\ Job(t, s)
          /\ \/ job[t] \in InCall /\ s # "none"
             \/ job[t] = "cancelling" /\ s = "none"
    BY <1>5 DEF CallFails, CallExpires, CallEndsLate, CallCancelled, SettlesCancelled, InCall
  <2>2. /\ events \subseteq events' /\ o \in events'
        /\ o.type \in Outcomes /\ o.task = t /\ o.attempt = calls[t]
        /\ \A e \in New : e.type \notin Milestones /\ (e.type \in Outcomes => e = o)
    BY <2>1, EventTypes DEF Failed, Event, Appends, New
  <2>3. \/ job[t] \in InCall /\ s \in {"backoff"} \cup (Finished \ {"done"})
        \/ job[t] = "cancelling" /\ s = "none"
    BY <2>1 DEF Finished
  <2>4. UNCHANGED <<calls, intent, taskLeaves, left>>
    BY <1>5 DEF CallFails, CallExpires, CallEndsLate, CallCancelled, SettlesCancelled
  <2>5. s # "backoff"
    OBVIOUS
  <2> QED
    BY <1>0, <2>1, <2>2, <2>3, <2>4, <2>5, SettlingStep
<1>6. CASE CallRetries(t)
  <2> DEFINE o == Failed(t, "retryable")
  <2>1. PICK s \in {"failed", "late", "backoff"} :
          /\ Job(t, s)
          /\ s = "backoff" => ~RetryRunsOut(t) /\ left' = [left EXCEPT ![t] = @ - 1]
    BY <1>6 DEF CallRetries
  <2>2. /\ events \subseteq events' /\ o \in events'
        /\ o.type \in Outcomes /\ o.task = t /\ o.attempt = calls[t]
        /\ \A e \in New : e.type \notin Milestones /\ (e.type \in Outcomes => e = o)
    <3>1. \/ events' = events \cup {o}
          \/ events' = events \cup {o, Event("circuit_opened", t, calls[t], "run")}
          \/ events' = events \cup {o, RetryScheduled(t)}
      BY <1>6 DEF CallRetries, Appends
    <3> QED
      BY <3>1, EventTypes DEF Failed, Event, RetryScheduled, New
  <2>3. job[t] = "calling" /\ job[t] \in InCall /\ s \in {"backoff"} \cup (Finished \ {"done"})
    BY <1>6 DEF CallRetries, InCall, Finished
  <2>4. /\ UNCHANGED <<calls, intent, taskLeaves>>
        /\ \A u \in Tasks \ {t} : left'[u] = left[u]
    BY <1>0, <1>6 DEF CallRetries, TypeOK
  <2>5. s = "backoff" => t \notin Writes /\ left'[t] = setup.attempts - calls[t] /\ left'[t] >= 1
    <3> SUFFICES ASSUME s = "backoff"
                 PROVE  t \notin Writes /\ left'[t] = setup.attempts - calls[t] /\ left'[t] >= 1
      OBVIOUS
    <3>1. t \notin Writes /\ left[t] = setup.attempts - calls[t] + 1
      BY <2>3 DEF IInv, CallsAreCounted
    <3>2. left'[t] = left[t] - 1 /\ left[t] > 1
      BY <1>0, <2>1 DEF RetryRunsOut, TypeOK
    <3> QED
      BY <1>0, <1>a, <3>1, <3>2 DEF TypeOK
  <2> HIDE DEF o
  <2> QED
    BY <1>0, <2>1, <2>2, <2>3, <2>4, <2>5, SettlingStep
<1> QED
  BY <1>0, <1>1, <1>2, <1>3, <1>4, <1>5, <1>6, MaterializeStep, SuccessStep, StartCallStep
  DEF TaskStep

-----------------------------------------------------------------------------
(* The main loop. *)

\* A step of the loop that leaves the ledger's accounts to the coroutines.
LEMMA LoopKeepsAttempts ==
  ASSUME IInv, TypeOK', UNCHANGED <<calls, left, crashes>>, setup' = setup,
         events \subseteq events', \A e \in New : e.type \notin Outcomes,
         \A t \in Tasks : job'[t] \in Open <=> job[t] \in Open,
         \A t \in Tasks : job'[t] \in {"queued", "held", "backoff", "calling"} => job'[t] = job[t]
  PROVE  CallsAreCounted' /\ OneOutcome' /\ FewAreLost'
<1>1. OneOutcome' /\ FewAreLost'
  BY NoAttempt DEF IInv
<1>2. CallsAreCounted'
  BY DEF IInv, CallsAreCounted, Writes
<1> QED
  BY <1>1, <1>2

\* execute returns, whatever it has appended last.
LEMMA ReturnKeepsIInv ==
  ASSUME IInv, TypeOK', phase' = "idle", \A t \in Tasks : job[t] \in {"none", "cancelling"},
         UNCHANGED <<calls, created, manifest, setup, intent, outputs, job, left, crashes>>,
         events \subseteq events', \A e \in New : e.type \notin Outcomes,
         CompletedTasks' = CompletedTasks,
         Has("run_awaiting_effects", NoTask)' \/ Has("run_completed", NoTask)' =>
           CompletedTasks = Tasks,
         created # 0 \/ UNCHANGED events, EffectsAreSettled'
  PROVE  IInv'
<1>1. Admitted' /\ LoopOwnsCoroutines'
  BY DEF IInv, Admitted, LoopOwnsCoroutines, Has
<1>2. VerdictIsLast'
  BY DEF VerdictIsLast, Active, Waits, InCall, Finished
<1>3. LedgerIsCollected'
  BY DEF IInv, LedgerIsCollected, Executes, Active, Waits, InCall, Finished, Deps
<1>4. CallsAreCounted' /\ OneOutcome' /\ FewAreLost'
  BY LoopKeepsAttempts
<1> QED
  BY <1>1, <1>2, <1>3, <1>4 DEF IInv

\* execute returns without an event.
LEMMA SilentReturn ==
  ASSUME IInv, TypeOK', phase' = "idle", \A t \in Tasks : job[t] \in {"none", "cancelling"},
         UNCHANGED <<calls, created, manifest, setup, intent, outputs, job, left, crashes, events>>
  PROVE  IInv'
<1>1. /\ CompletedTasks' = CompletedTasks /\ New = {}
      /\ \A type, x : Has(type, x)' <=> Has(type, x)
  BY DEF CompletedTasks, Has, New
<1>2. EffectsAreSettled'
  BY <1>1 DEF IInv, EffectsAreSettled
<1> QED
  BY <1>1, <1>2, ReturnKeepsIInv DEF IInv, VerdictIsLast

\* A process takes up the run.
LEMMA ExecuteStep ==
  ASSUME IInv, TypeOK', NEW s \in Setups, Execute(s)
  PROVE  IInv'
<1>0. /\ phase = "idle" /\ phase' = "revalidating" /\ \A t \in Tasks : job[t] = "none"
      /\ ~Terminal /\ SameRun(s) /\ outputs' = CompletedTasks /\ setup' = s
      /\ created' = (IF created = 0 THEN now ELSE created)
      /\ manifest' = (IF created = 0 THEN s ELSE manifest)
      /\ events' = events \cup {RunEvent("run_started")}
      /\ UNCHANGED <<calls, intent, job, left, crashes>>
  BY DEF Execute, Appends, Resumed
<1>1. /\ events \subseteq events'
      /\ \A e \in New : e.type \notin Outcomes /\ e.type \notin Milestones
  BY <1>0, EventTypes DEF New, RunEvent, Event
<1>2. /\ CompletedTasks' = CompletedTasks
      /\ \A type \in RunEnds : \A x : Has(type, x)' <=> Has(type, x)
  BY <1>1, NoMilestone DEF Milestones
<1>3. Admitted'
  <2>1. created' # 0 /\ manifest' = s
    BY <1>0 DEF SameRun, SameManifest, IInv, TypeOK
  <2> QED
    BY <1>0, <2>1 DEF Admitted
<1>4. LoopOwnsCoroutines'
  BY <1>0 DEF LoopOwnsCoroutines
<1>5. VerdictIsLast'
  <2>1. ~Terminal'
    BY <1>0, <1>2, TerminalSame
  <2> QED
    BY <1>0, <1>2, <2>1 DEF IInv, VerdictIsLast, RunEnds, Active, Waits, InCall, Finished
<1>6. LedgerIsCollected'
  BY <1>0, <1>2 DEF LedgerIsCollected, Active, Waits, InCall, Finished
<1>7. EffectsAreSettled'
  <2>1. CASE created = 0
    <3>1. ~Has("run_completed", NoTask)
      BY <2>1 DEF IInv, Admitted
    <3> QED
      BY <3>1, <1>2 DEF EffectsAreSettled, RunEnds
  <2>2. CASE created # 0
    BY <2>2, <1>0, <1>2 DEF IInv, EffectsAreSettled, RunEnds
  <2> QED
    BY <2>1, <2>2
<1>8. CallsAreCounted' /\ OneOutcome' /\ FewAreLost'
  <2>1. OneOutcome' /\ FewAreLost'
    BY <1>0, <1>1, NoAttempt DEF IInv
  <2>2. CallsAreCounted'
    BY <1>0 DEF CallsAreCounted
  <2> QED
    BY <2>1, <2>2
<1> QED
  BY <1>3, <1>4, <1>5, <1>6, <1>7, <1>8 DEF IInv

\* The loop stops its coroutines: an open attempt stays open until its coroutine
\* has ended.
LEMMA StopKeepsIInv ==
  ASSUME IInv, TypeOK', NEW v \in Verdicts, Stop(v), phase \in {"looping", "waiting"},
         ~Has("run_awaiting_effects", NoTask), ~Has("run_completed", NoTask),
         UNCHANGED <<calls, created, manifest, setup, intent, left, crashes>>,
         outputs' \subseteq CompletedTasks,
         events \subseteq events',
         \A e \in New : e.type \notin Outcomes /\ e.type \notin Milestones
  PROVE  IInv'
<1>0. /\ phase' = "stopping" /\ verdict' = v
      /\ \A t \in Tasks : job'[t] = IF job[t] \in Open THEN "cancelling" ELSE "none"
  BY DEF Stop
<1>1. /\ CompletedTasks' = CompletedTasks
      /\ \A type \in RunEnds : \A x : Has(type, x)' <=> Has(type, x)
  BY NoMilestone DEF Milestones
<1>2. \A t \in Tasks : job'[t] \in {"none", "cancelling"}
  BY <1>0
<1>3. Admitted'
  BY <1>0, <1>1 DEF IInv, Admitted, RunEnds
<1>4. LoopOwnsCoroutines'
  BY <1>0, <1>2 DEF LoopOwnsCoroutines
<1>5. VerdictIsLast'
  <2>1. ~Terminal'
    BY <1>1, TerminalSame DEF IInv, VerdictIsLast
  <2> QED
    BY <1>1, <2>1 DEF VerdictIsLast, RunEnds
<1>6. LedgerIsCollected'
  BY <1>0, <1>1, <1>2 DEF LedgerIsCollected, Executes, Active, Waits, InCall, Finished
<1>7. EffectsAreSettled'
  BY <1>1 DEF EffectsAreSettled, RunEnds
<1>8. CallsAreCounted' /\ OneOutcome' /\ FewAreLost'
  <2>1. \A t \in Tasks : job'[t] \in Open <=> job[t] \in Open
    BY <1>0 DEF Open
  <2> QED
    BY <1>2, <2>1, LoopKeepsAttempts
<1> QED
  BY <1>3, <1>4, <1>5, <1>6, <1>7, <1>8 DEF IInv

\* While an output is missing the run is neither awaiting effects nor complete.
LEMMA OutputMissing ==
  ASSUME IInv, phase \in {"looping", "waiting"}, Pending # {} \/ phase = "waiting"
  PROVE  ~Has("run_awaiting_effects", NoTask) /\ ~Has("run_completed", NoTask)
<1>1. CASE phase = "waiting"
  BY <1>1 DEF IInv, VerdictIsLast
<1>2. CASE phase = "looping" /\ Pending # {}
  <2>1. PICK t \in Tasks : t \notin outputs
    BY <1>2 DEF Pending
  <2>2. CASE job[t] = "done"
    BY <2>2 DEF IInv, VerdictIsLast, Finished
  <2>3. CASE job[t] # "done"
    <3>1. CompletedTasks # Tasks
      BY <1>2, <2>1, <2>3 DEF IInv, LedgerIsCollected, Executes
    <3> QED
      BY <3>1 DEF IInv, VerdictIsLast
  <2> QED
    BY <2>2, <2>3
<1> QED
  BY <1>1, <1>2

\* The loop stops on a deadline or a cancellation.
LEMMA LoopStopsStep ==
  ASSUME IInv, TypeOK', LoopStops
  PROVE  IInv'
<1>1. PICK v \in Verdicts : Stop(v)
  BY DEF LoopStops, Verdicts
<1>2. /\ phase = "looping" /\ Pending # {}
      /\ UNCHANGED <<calls, events, created, manifest, setup, intent, outputs, left, crashes>>
  BY DEF LoopStops, durable
<1>3. New = {} /\ outputs' \subseteq CompletedTasks
  BY <1>2 DEF New, IInv, LedgerIsCollected
<1> QED
  BY <1>1, <1>2, <1>3, OutputMissing, StopKeepsIInv

\* The caller cancels execute.
LEMMA CallerCancelsStep ==
  ASSUME IInv, TypeOK', CallerCancels
  PROVE  IInv'
<1>1. UNCHANGED <<calls, events, created, manifest, setup, intent, outputs, left, crashes>>
  BY DEF CallerCancels, durable
<1>2. CASE phase = "waiting"
  <2>1. Stop("run_cancelled") /\ "run_cancelled" \in Verdicts
    BY <1>2 DEF CallerCancels, Verdicts
  <2>2. New = {} /\ outputs' \subseteq CompletedTasks
    BY <1>1 DEF New, IInv, LedgerIsCollected
  <2> QED
    BY <1>1, <1>2, <2>1, <2>2, OutputMissing, StopKeepsIInv
<1>3. CASE phase = "revalidating"
  <2>1. phase' = "idle" /\ UNCHANGED job /\ \A t \in Tasks : job[t] = "none"
    BY <1>3 DEF CallerCancels, Return, IInv, LoopOwnsCoroutines
  <2> QED
    BY <1>1, <2>1, SilentReturn
<1> QED
  BY <1>2, <1>3 DEF CallerCancels

\* The outputs are revalidated, or they are not.
LEMMA RevalidationStep ==
  ASSUME IInv, TypeOK', Revalidated \/ RevalidationRefused \/ \E s \in Setups : Refused(s)
  PROVE  IInv'
<1>1. CASE RevalidationRefused \/ \E s \in Setups : Refused(s)
  <2>1. /\ phase' = "idle"
        /\ UNCHANGED <<calls, events, created, manifest, setup, intent, outputs, job, left, crashes>>
    BY <1>1 DEF RevalidationRefused, Refused, Return, durable
  <2>2. \A t \in Tasks : job[t] = "none"
    BY <1>1 DEF RevalidationRefused, Refused, IInv, LoopOwnsCoroutines
  <2> QED
    BY <2>1, <2>2, SilentReturn
<1>2. CASE Revalidated
  <2>1. /\ phase = "revalidating" /\ phase' = "looping"
        /\ UNCHANGED <<calls, events, created, manifest, setup, intent, outputs, job, left, crashes>>
        /\ \A t \in Tasks : job[t] = "none"
    BY <1>2 DEF Revalidated, durable, IInv, LoopOwnsCoroutines
  <2>2. /\ CompletedTasks' = CompletedTasks /\ New = {}
        /\ \A type, x : Has(type, x)' <=> Has(type, x)
        /\ Terminal' <=> Terminal
    BY <2>1 DEF CompletedTasks, Has, New, Terminal
  <2>3. Admitted' /\ LoopOwnsCoroutines'
    BY <2>1, <2>2 DEF IInv, Admitted, LoopOwnsCoroutines
  <2>4. VerdictIsLast'
    BY <2>1, <2>2 DEF IInv, VerdictIsLast, Active, Waits, InCall, Finished
  <2>5. LedgerIsCollected' /\ EffectsAreSettled'
    BY <2>1, <2>2 DEF IInv, LedgerIsCollected, EffectsAreSettled, Executes, Deps
  <2>6. CallsAreCounted' /\ OneOutcome' /\ FewAreLost'
    BY <2>1, <2>2, LoopKeepsAttempts
  <2> QED
    BY <2>3, <2>4, <2>5, <2>6 DEF IInv
<1> QED
  BY <1>1, <1>2

\* Spawn starts the coroutines of the tasks whose dependencies are collected.
LEMMA SpawnStep ==
  ASSUME IInv, TypeOK', Spawn
  PROVE  IInv'
<1>1. /\ phase = "looping" /\ phase' = "waiting" /\ Pending # {}
      /\ job' = [t \in Tasks |-> IF t \in Ready THEN "ready" ELSE job[t]]
      /\ UNCHANGED <<calls, events, created, manifest, setup, intent, outputs, left, crashes>>
  BY DEF Spawn, durable
<1>2. /\ CompletedTasks' = CompletedTasks /\ New = {}
      /\ \A type, x : Has(type, x)' <=> Has(type, x)
      /\ Terminal' <=> Terminal
  BY <1>1 DEF CompletedTasks, Has, New, Terminal
<1>3. \A t \in Ready : job[t] = "none" /\ t \notin outputs /\ Deps[t] \subseteq outputs
  BY <1>1 DEF Ready, Running, Pending, IInv, LoopOwnsCoroutines
<1>4. Admitted' /\ LoopOwnsCoroutines'
  BY <1>1, <1>2 DEF IInv, Admitted, LoopOwnsCoroutines
<1>5. VerdictIsLast'
  BY <1>1, <1>2, OutputMissing DEF IInv, VerdictIsLast
<1>6. LedgerIsCollected'
  <2>1. CompletedTasks = outputs \cup {t \in Tasks : job[t] = "done"}
    BY <1>1 DEF IInv, LedgerIsCollected, Executes
  <2>2. {t \in Tasks : job'[t] = "done"} = {t \in Tasks : job[t] = "done"}
    BY <1>1, <1>3
  <2>3. \A t \in Tasks : job'[t] \in Active \cup Finished => t \notin outputs'
    BY <1>1, <1>3 DEF IInv, LedgerIsCollected
  <2>4. ASSUME NEW t \in Tasks, job'[t] \in Active
        PROVE  t \notin CompletedTasks' /\ Deps'[t] \subseteq CompletedTasks'
    <3>1. CASE t \in Ready
      BY <3>1, <1>1, <1>2, <1>3, <2>1 DEF Deps
    <3>2. CASE t \notin Ready
      BY <3>2, <2>4, <1>1, <1>2 DEF IInv, LedgerIsCollected, Deps
    <3> QED
      BY <3>1, <3>2
  <2> QED
    BY <1>1, <1>2, <2>1, <2>2, <2>3, <2>4 DEF IInv, LedgerIsCollected
<1>7. EffectsAreSettled'
  BY <1>1, <1>2 DEF IInv, EffectsAreSettled
<1>8. CallsAreCounted' /\ OneOutcome' /\ FewAreLost'
  <2>1. \A t \in Tasks : job'[t] \in Open <=> job[t] \in Open
    BY <1>1, <1>3 DEF Open
  <2> QED
    BY <1>1, <1>2, <2>1, LoopKeepsAttempts
<1> QED
  BY <1>4, <1>5, <1>6, <1>7, <1>8 DEF IInv

\* Collect takes what has ended, or stops on the first that raised.
LEMMA CollectStep ==
  ASSUME IInv, TypeOK', Collect
  PROVE  IInv'
<1> DEFINE D == {t \in Tasks : job[t] \in Finished}
           F == {t \in D : job[t] # "done"}
<1>1. phase = "waiting" /\ UNCHANGED <<calls, created, manifest, intent, left, setup, crashes>>
  BY DEF Collect
<1>2. CASE /\ F = {} /\ outputs' = outputs \cup D /\ phase' = "looping" /\ UNCHANGED events
           /\ job' = [t \in Tasks |-> IF t \in D THEN "none" ELSE job[t]]
  <2>1. D = {t \in Tasks : job[t] = "done"}
    BY <1>2 DEF Finished
  <2>2. /\ CompletedTasks' = CompletedTasks /\ New = {}
        /\ \A type, x : Has(type, x)' <=> Has(type, x)
        /\ Terminal' <=> Terminal
    BY <1>2 DEF CompletedTasks, Has, New, Terminal
  <2>3. CompletedTasks = outputs \cup D
    BY <1>1, <2>1 DEF IInv, LedgerIsCollected, Executes
  <2>4. \A t \in Tasks : job'[t] \notin Finished /\ (job'[t] = job[t] \/ job'[t] = "none")
    BY <1>2 DEF Finished
  <2>5. Admitted' /\ LoopOwnsCoroutines'
    BY <1>1, <1>2, <2>2, <2>4 DEF IInv, Admitted, LoopOwnsCoroutines
  <2>6. VerdictIsLast'
    BY <1>1, <1>2, <2>2 DEF IInv, VerdictIsLast
  <2>7. LedgerIsCollected'
    <3>1. \A t \in Tasks : job'[t] # "done" /\ (job'[t] \in Active => job[t] \in Active)
      BY <2>4 DEF Finished, Active, Waits, InCall
    <3>2. \A t \in Tasks : job'[t] \in Active => t \notin CompletedTasks
      BY <3>1 DEF IInv, LedgerIsCollected
    <3>3. \A t \in Tasks : job'[t] \in Active => Deps[t] \subseteq CompletedTasks
      BY <3>1 DEF IInv, LedgerIsCollected
    <3> QED
      BY <1>1, <1>2, <2>2, <2>3, <2>4, <3>1, <3>2, <3>3 DEF LedgerIsCollected, Deps
  <2>8. EffectsAreSettled'
    BY <1>1, <2>2 DEF IInv, EffectsAreSettled
  <2>9. CallsAreCounted' /\ OneOutcome' /\ FewAreLost'
    <3>1. \A t \in Tasks : job'[t] \in Open <=> job[t] \in Open
      BY <1>2 DEF Open, Finished
    <3> QED
      BY <1>1, <1>2, <2>2, <2>4, <3>1, LoopKeepsAttempts
  <2> QED
    BY <2>5, <2>6, <2>7, <2>8, <2>9 DEF IInv
<1>3. ASSUME NEW f \in F, \A t \in F : f <= t, outputs' = outputs \cup {t \in D : t < f},
             NEW v \in Verdicts, Stop(v),
             events' = events \/ events' = events \cup {Event("dead_lettered", f, calls[f], job[f])}
      PROVE  IInv'
  <2>1. /\ events \subseteq events'
        /\ \A e \in New : e.type \notin Outcomes /\ e.type \notin Milestones
    <3>1. Event("dead_lettered", f, calls[f], job[f]).type = "dead_lettered"
      BY DEF Event
    <3> QED
      BY <1>3, <3>1, EventTypes DEF New
  <2>2. outputs' \subseteq CompletedTasks
    <3>1. f \in Tasks /\ \A t \in D : t < f => t \notin F
      BY <1>3, StoreAssumption
    <3>2. \A t \in D : t < f => job[t] = "done"
      BY <3>1
    <3> QED
      BY <1>1, <1>3, <3>2 DEF IInv, LedgerIsCollected, Executes
  <2> QED
    BY <1>1, <1>3, <2>1, <2>2, OutputMissing, StopKeepsIInv
<1>4. CASE \E f \in F :
             LET letter == Event("dead_lettered", f, calls[f], job[f])
             IN /\ \A t \in F : f <= t
                /\ outputs' = outputs \cup {t \in D : t < f}
                /\ IF Conflicts(letter)
                   THEN UNCHANGED events /\ Stop("run_failed")
                   ELSE /\ Appends({letter})
                        /\ Stop(IF job[f] = "cancelled" THEN "run_cancelled" ELSE "run_failed")
  <2>1. PICK f \in F :
          /\ \A t \in F : f <= t
          /\ outputs' = outputs \cup {t \in D : t < f}
          /\ events' = events \/ events' = events \cup {Event("dead_lettered", f, calls[f], job[f])}
          /\ \E v \in Verdicts : Stop(v)
    BY <1>4 DEF Appends, Verdicts
  <2> QED
    BY <2>1, <1>3
<1> QED
  BY <1>2, <1>4 DEF Collect

\* The terminal event of a stopped run.
LEMMA FinishStep ==
  ASSUME IInv, TypeOK', Finish
  PROVE  IInv'
<1>1. /\ phase = "stopping" /\ phase' = "idle" /\ verdict \in Verdicts
      /\ UNCHANGED <<calls, created, manifest, setup, intent, outputs, job, left, crashes>>
      /\ events' = events \cup {RunEvent(verdict)}
      /\ \A t \in Tasks : job[t] \in {"none", "cancelling"}
  BY DEF Finish, Return, Appends, IInv, LoopOwnsCoroutines
<1>2. RunEvent(verdict).type = verdict
  BY DEF RunEvent, Event
<1>3. /\ events \subseteq events' /\ \A e \in New : e.type \notin Outcomes
      /\ \A type, x : type \notin Verdicts => (Has(type, x)' <=> Has(type, x))
  BY <1>1, <1>2 DEF New, Has, Verdicts, Outcomes
<1>4. /\ CompletedTasks' = CompletedTasks
      /\ Has("run_awaiting_effects", NoTask)' <=> Has("run_awaiting_effects", NoTask)
      /\ Has("run_completed", NoTask)' <=> Has("run_completed", NoTask)
  BY <1>3 DEF CompletedTasks, Verdicts
<1>5. EffectsAreSettled'
  BY <1>1, <1>4 DEF IInv, EffectsAreSettled
<1>6. created # 0
  BY <1>1 DEF IInv, Admitted
<1> QED
  BY <1>1, <1>3, <1>4, <1>5, <1>6, ReturnKeepsIInv DEF IInv, VerdictIsLast

\* After the loop, what the run has come to.
LEMMA ConcludesStep ==
  ASSUME IInv, TypeOK', Concludes
  PROVE  IInv'
<1>1. /\ phase = "looping" /\ phase' = "idle" /\ Pending = {}
      /\ UNCHANGED <<calls, created, manifest, setup, intent, outputs, job, left, crashes>>
  BY DEF Concludes, Return
<1>2. outputs = Tasks /\ CompletedTasks = Tasks
  BY <1>1 DEF Pending, IInv, TypeOK, LedgerIsCollected, CompletedTasks
<1>3. \A t \in Tasks : job[t] = "none"
  <2>1. \A t \in Tasks : job[t] \notin Active \cup Finished /\ job[t] # "cancelling"
    BY <1>1, <1>2 DEF IInv, LedgerIsCollected, LoopOwnsCoroutines
  <2> QED
    BY <2>1 DEF IInv, TypeOK, JobKinds, Active, InCall, Open
<1>4. created # 0 /\ setup = manifest
  BY <1>1 DEF IInv, Admitted
<1>5. \/ UNCHANGED events
      \/ Unsettled # {} /\ events' = events \cup {AwaitingEffects}
      \/ Unsettled = {} /\ events' = events \cup {RunEvent("run_completed")}
  BY DEF Concludes, Appends
<1>6. AwaitingEffects.type = "run_awaiting_effects" /\ RunEvent("run_completed").type = "run_completed"
  BY DEF AwaitingEffects, RunEvent, Event
<1>7. /\ events \subseteq events' /\ \A e \in New : e.type \notin Outcomes
      /\ \A x : Has("completed", x)' <=> Has("completed", x)
  BY <1>5, <1>6 DEF New, Has, Outcomes
<1>8. CompletedTasks' = CompletedTasks
  BY <1>7 DEF CompletedTasks
<1>9. EffectsAreSettled'
  <2>1. CASE Unsettled = {}
    <3>1. \A t \in manifest.writes : t \in Tasks
      BY ExecutorAssumption DEF IInv, TypeOK, IsSetup, NoSetup
    <3>2. \A t \in manifest.writes : intent[t] \in Settled
      BY <2>1, <3>1, <1>2, <1>4 DEF Unsettled, Writes, Settled
    <3> QED
      BY <1>1, <3>2 DEF EffectsAreSettled
  <2>2. CASE Unsettled # {}
    <3>1. Has("run_completed", NoTask)' => Has("run_completed", NoTask)
      BY <2>2, <1>5, <1>6 DEF Has
    <3> QED
      BY <1>1, <3>1 DEF IInv, EffectsAreSettled
  <2> QED
    BY <2>1, <2>2
<1> QED
  BY <1>1, <1>2, <1>3, <1>4, <1>7, <1>8, <1>9, ReturnKeepsIInv

-----------------------------------------------------------------------------
(* Process death and the environment. *)

\* A process that dies leaves the ledger as it is or one event longer: that of
\* an intent it proposed or the failure of a call that was open.
LEMMA DeathKeepsIInv ==
  ASSUME IInv, TypeOK', Reset, UNCHANGED <<calls, created, manifest>>,
         created # 0 \/ UNCHANGED events,
         events \subseteq events', \A e \in New : e.type \notin Milestones,
         OneOutcome',
         \A u \in Tasks : intent[u] \in Settled => intent'[u] \in Settled
  PROVE  IInv'
<1>1. /\ phase' = "idle" /\ outputs' = {} /\ \A t \in Tasks : job'[t] = "none"
      /\ crashes' = crashes + 1 /\ setup' = setup
  BY DEF Reset
<1>2. /\ CompletedTasks' = CompletedTasks
      /\ \A type \in RunEnds : \A x : Has(type, x)' <=> Has(type, x)
  BY NoMilestone DEF Milestones
<1>3. Admitted' /\ LoopOwnsCoroutines'
  BY <1>1, <1>2 DEF IInv, Admitted, LoopOwnsCoroutines, RunEnds
<1>4. VerdictIsLast'
  BY <1>1, <1>2 DEF IInv, VerdictIsLast, RunEnds, Active, Waits, InCall, Finished
<1>5. LedgerIsCollected' /\ CallsAreCounted'
  BY <1>1 DEF LedgerIsCollected, CallsAreCounted, Executes, Active, Waits, InCall, Finished
<1>6. EffectsAreSettled'
  <2>1. manifest.writes \subseteq Tasks
    BY ExecutorAssumption DEF IInv, TypeOK, IsSetup, NoSetup
  <2> QED
    BY <2>1, <1>2 DEF IInv, EffectsAreSettled, RunEnds
<1>7. FewAreLost'
  BY <1>1, DeathLosesOne DEF IInv
<1> QED
  BY <1>3, <1>4, <1>5, <1>6, <1>7 DEF IInv

\* The process dies between two steps, or between two transactions of one.
LEMMA CrashStep ==
  ASSUME IInv, TypeOK',
         Crash \/ \E t \in Tasks : CrashInMaterialize(t) \/ CrashInRetry(t)
  PROVE  IInv'
<1>0. Reset /\ \A t \in Tasks : job'[t] \notin Open
  BY DEF Crash, CrashInMaterialize, CrashInRetry, Reset, Open
<1>1. CASE Crash
  <2>1. UNCHANGED <<calls, created, manifest, events, intent>> /\ New = {}
    BY <1>1 DEF Crash, durable, New
  <2>2. OneOutcome'
    BY <1>0, <2>1 DEF IInv, OneOutcome
  <2> QED
    BY <1>0, <2>1, <2>2, DeathKeepsIInv
<1>2. ASSUME NEW t \in Tasks, CrashInMaterialize(t) PROVE IInv'
  <2>1. /\ UNCHANGED <<calls, created, manifest>>
        /\ events' = events \/ events' = events \cup {IntentCreated(t)}
        /\ \A u \in Tasks : intent[u] \in Settled => intent'[u] \in Settled
    BY <1>2, ProposedSettled DEF CrashInMaterialize, IInv
  <2>2. /\ events \subseteq events'
        /\ \A e \in New : e.type \notin Milestones /\ e.type \notin Outcomes
    <3>1. IntentCreated(t).type = "effect_intent_created"
      BY DEF IntentCreated, Event
    <3> QED
      BY <2>1, <3>1, EventTypes DEF New
  <2>3. created # 0
    BY <1>2 DEF CrashInMaterialize, IInv, LoopOwnsCoroutines, Admitted
  <2>4. OneOutcome'
    BY <1>0, <2>1, <2>2 DEF IInv, OneOutcome, New
  <2> QED
    BY <1>0, <2>1, <2>2, <2>3, <2>4, DeathKeepsIInv
<1>3. ASSUME NEW t \in Tasks, CrashInRetry(t) PROVE IInv'
  <2> DEFINE o == Failed(t, "retryable")
  <2>1. /\ job[t] = "calling" /\ UNCHANGED <<calls, created, manifest, intent>>
        /\ events' = events \cup {o}
    BY <1>3 DEF CrashInRetry, Appends
  <2>2. o.type = "attempt_failed" /\ o.task = t /\ o.attempt = calls[t]
    BY DEF Failed, Event
  <2> HIDE DEF o
  <2>3. /\ events \subseteq events' /\ \A e \in New : e = o
        /\ \A e \in New : e.type \notin Milestones
    BY <2>1, <2>2, EventTypes DEF New
  <2>4. created # 0
    BY <2>1 DEF IInv, LoopOwnsCoroutines, Admitted
  <2>5. OneOutcome'
    <3>1. /\ calls[t] > 0 /\ calls[t] \in Nat
          /\ \A g \in events : g.type \in Outcomes => ~(g.task = t /\ g.attempt = calls[t])
      BY <2>1 DEF IInv, OneOutcome, HasOutcome, Open, TypeOK
    <3> QED
      BY <1>0, <2>1, <2>2, <3>1 DEF IInv, OneOutcome
  <2> QED
    BY <1>0, <2>1, <2>3, <2>4, <2>5, DeathKeepsIInv
<1> QED
  BY <1>1, <1>2, <1>3

\* Clocks, cancellation requests and the broker's own actors.
LEMMA EnvironmentStep ==
  ASSUME IInv, TypeOK',
         RequestCancel \/ Tick \/ UNCHANGED vars \/ \E t \in Tasks : BrokerMoves(t)
  PROVE  IInv'
<1>1. UNCHANGED <<calls, events, created, manifest, setup, phase, outputs, job, left, verdict, crashes>>
  BY DEF RequestCancel, Tick, vars, BrokerMoves, durable, volatile
<1>2. /\ CompletedTasks' = CompletedTasks /\ New = {}
      /\ \A type, x : Has(type, x)' <=> Has(type, x)
      /\ Terminal' <=> Terminal
  BY <1>1 DEF CompletedTasks, Has, New, Terminal
<1>3. \A u \in Tasks : intent[u] \in Settled => intent'[u] \in Settled
  <2>1. CASE UNCHANGED intent
    BY <2>1
  <2>2. ASSUME NEW t \in Tasks, BrokerMoves(t)
        PROVE  \A u \in Tasks : intent[u] \in Settled => intent'[u] \in Settled
    BY <2>2 DEF BrokerMoves, IntentMoves, Settled, IInv, TypeOK
  <2> QED
    BY <2>1, <2>2 DEF RequestCancel, Tick, vars, durable
<1>4. Admitted' /\ LoopOwnsCoroutines'
  BY <1>1, <1>2 DEF IInv, Admitted, LoopOwnsCoroutines
<1>5. VerdictIsLast' /\ LedgerIsCollected'
  BY <1>1, <1>2 DEF IInv, VerdictIsLast, LedgerIsCollected, Deps
<1>6. EffectsAreSettled'
  <2>1. manifest.writes \subseteq Tasks
    BY ExecutorAssumption DEF IInv, TypeOK, IsSetup, NoSetup
  <2> QED
    BY <2>1, <1>1, <1>2, <1>3 DEF IInv, EffectsAreSettled
<1>7. CallsAreCounted' /\ OneOutcome' /\ FewAreLost'
  BY <1>1, <1>2, LoopKeepsAttempts
<1> QED
  BY <1>4, <1>5, <1>6, <1>7 DEF IInv

-----------------------------------------------------------------------------
(* The safety theorems. *)

\* Every step keeps the invariant.
LEMMA StepIInv == IInv /\ [Next]_vars => IInv'
<1> SUFFICES ASSUME IInv, [Next]_vars PROVE IInv'
  OBVIOUS
<1>1. TypeOK'
  BY StepTypeOK DEF IInv
<1> QED
  BY <1>1, ExecuteStep, RevalidationStep, LoopStopsStep, SpawnStep, CollectStep, FinishStep,
     ConcludesStep, CallerCancelsStep, TaskStepIInv, CrashStep, EnvironmentStep
  DEF Next, LoopStep

\* A run that nobody has taken up satisfies the invariant.
LEMMA InitIInv == Init => IInv
<1> SUFFICES ASSUME Init PROVE IInv
  OBVIOUS
<1>1. TypeOK
  BY InitTypeOK
<1>2. CompletedTasks = {} /\ \A type, x : ~Has(type, x)
  BY DEF Init, StoreInit, CompletedTasks, Has
<1>3. Admitted /\ LoopOwnsCoroutines
  BY <1>2 DEF Init, Admitted, LoopOwnsCoroutines
<1>4. VerdictIsLast /\ LedgerIsCollected /\ CallsAreCounted /\ EffectsAreSettled
  BY <1>2 DEF Init, VerdictIsLast, LedgerIsCollected, CallsAreCounted, EffectsAreSettled,
              Executes, Active, Waits, InCall, Finished
<1>5. OneOutcome
  BY DEF Init, StoreInit, OneOutcome, Open
<1>6. FewAreLost
  <2>1. \A t \in Tasks : Lost(t) = {}
    BY DEF Init, StoreInit, Lost
  <2> QED
    BY <2>1, FS_EmptySet DEF Init, FewAreLost
<1> QED
  BY <1>1, <1>3, <1>4, <1>5, <1>6 DEF IInv

\* The inductive invariant holds in every reachable state.
THEOREM Invariance == Spec => []IInv
  BY InitIInv, StepIInv, PTL DEF Spec

\* Whatever dies, cancels or times out around a call, its attempt is settled
\* at most once, and no more attempts of a task are lost than processes died.
THEOREM OutcomesAreUnique == Spec => []AttemptsSettleOnce
<1>1. IInv => AttemptsSettleOnce
  <2> SUFFICES ASSUME IInv PROVE AttemptsSettleOnce
    OBVIOUS
  <2>1. \A e, f \in events :
          /\ {e.type, f.type} \subseteq Outcomes
          /\ e.task = f.task /\ e.attempt = f.attempt
          => e = f
    BY DEF IInv, OneOutcome
  <2>2. \A t \in Tasks :
          Cardinality({n \in 1 .. calls[t] :
            /\ ~\E e \in events : e.type \in Outcomes /\ e.task = t /\ e.attempt = n
            /\ ~(job[t] \in Open /\ n = calls[t])}) <= crashes
    BY DEF IInv, FewAreLost, Lost, HasOutcome
  <2> QED
    BY <2>1, <2>2 DEF AttemptsSettleOnce
<1> QED
  BY <1>1, Invariance, PTL

\* A restart never has less than the process believed, and run.completed never
\* outruns the broker.
THEOREM CompletionIsDurable == Spec => []DoneIsDurable
<1>1. IInv => DoneIsDurable
  <2> SUFFICES ASSUME IInv PROVE DoneIsDurable
    OBVIOUS
  <2>1. \A t \in Tasks : job[t] = "done" => t \in CompletedTasks
    BY DEF IInv, LoopOwnsCoroutines, LedgerIsCollected, TypeOK, Phases, Executes
  <2> QED
    BY <2>1 DEF IInv, LedgerIsCollected, VerdictIsLast, EffectsAreSettled, Settled, DoneIsDurable
<1> QED
  BY <1>1, Invariance, PTL

-----------------------------------------------------------------------------
(* execute implements ExecutionPromise. *)

\* The plan of a setup is a plan, and the plan of no setup is none.
LEMMA Plans ==
  /\ \A s \in Setups : PlanOf(s) \in {PlanOf(r) : r \in Setups} /\ PlanOf(s) # Promise!NoPlan
  /\ PlanOf(NoSetup) = Promise!NoPlan
<1>1. \A s \in Setups : PlanOf(s) # Promise!NoPlan
  <2> SUFFICES ASSUME NEW s \in Setups PROVE PlanOf(s) # Promise!NoPlan
    OBVIOUS
  <2>1. s.attempts # 0
    BY ExecutorAssumption DEF IsSetup
  <2>2. PlanOf(s).attempts = s.attempts /\ Promise!NoPlan.attempts = 0
    BY DEF PlanOf, Promise!NoPlan
  <2> QED
    BY <2>1, <2>2
<1>2. PlanOf(NoSetup) = Promise!NoPlan
  BY DEF PlanOf, NoSetup, Promise!NoPlan
<1> QED
  BY <1>1, <1>2

\* The verdict is read off the milestones of the run.
LEMMA VerdictSame ==
  ASSUME \A type \in RunEnds : \A x : Has(type, x)' <=> Has(type, x)
  PROVE  VerdictOf' = VerdictOf
  BY DEF VerdictOf, RunEnds

\* A run at work is open to its coroutines.
LEMMA OpenWhileActive ==
  ASSUME IInv, NEW t \in Tasks, job[t] \in Active
  PROVE  /\ VerdictOf = "open" /\ t \notin CompletedTasks
         /\ PlanOf(manifest) # Promise!NoPlan
         /\ PlanOf(manifest).deps[t] \subseteq CompletedTasks
         /\ setup = manifest
<1>1. phase # "idle"
  BY DEF IInv, LoopOwnsCoroutines, Active, Waits, InCall
<1>2. VerdictOf = "open"
  BY <1>1 DEF IInv, VerdictIsLast, Terminal, VerdictOf
<1>3. setup = manifest /\ manifest \in Setups
  BY <1>1 DEF IInv, Admitted
<1>4. t \notin CompletedTasks /\ setup.deps[t] \subseteq CompletedTasks
  BY DEF IInv, LedgerIsCollected, Deps
<1> QED
  BY <1>2, <1>3, <1>4, Plans DEF PlanOf

\* What the promise sees of a step that reaches no milestone.
LEMMA Invisible ==
  ASSUME UNCHANGED <<calls, manifest>>, events \subseteq events',
         \A e \in New : e.type \notin Milestones
  PROVE  UNCHANGED <<PlanOf(manifest), calls, CompletedTasks, VerdictOf>>
<1>1. CompletedTasks' = CompletedTasks /\ VerdictOf' = VerdictOf
  BY NoMilestone, VerdictSame DEF Milestones
<1> QED
  BY <1>1

\* The coroutines try and accomplish what the promise allows.
LEMMA TaskPromise ==
  ASSUME IInv, NEW t \in Tasks, TaskStep(t)
  PROVE  [Promise!Next]_(Promise!vars)
<1> DEFINE Same == UNCHANGED <<PlanOf(manifest), calls, CompletedTasks, VerdictOf>>
<1>0. manifest' = manifest
  BY DEF TaskStep, Materialize, Begin, BeginsLate, TakeProvider, StartCall, WaitCancelled,
         TimesOut, WaitLapses, CallSucceeds, CallFails, CallExpires, CallEndsLate, CallCancelled,
         SettlesCancelled, CallRetries, BackoffEnds, taskLeaves
<1>a. Same => [Promise!Next]_(Promise!vars)
  BY DEF Promise!vars
<1>b. ASSUME job[t] \in {"ready", "calling"}, events \subseteq events', UNCHANGED calls,
             \A e \in New : e.type \in Milestones => e.type = "completed" /\ e.task = t,
             \E e \in events' : e.type = "completed" /\ e.task = t,
             t \in Writes \/ calls[t] > 0
      PROVE  [Promise!Next]_(Promise!vars)
  <2>1. /\ CompletedTasks' = CompletedTasks \cup {t} /\ VerdictOf' = VerdictOf
    BY <1>b, OneMoreCompleted, VerdictSame
  <2>2. job[t] \in Active
    BY <1>b DEF Active, Waits, InCall
  <2>3. Promise!Startable(t)
    BY <2>2, OpenWhileActive DEF Promise!Startable
  <2>4. t \in PlanOf(manifest).writes \/ calls[t] > 0
    BY <1>b, <2>2, OpenWhileActive DEF PlanOf, Writes
  <2>5. Promise!Accomplish(t)
    BY <1>0, <1>b, <2>1, <2>3, <2>4 DEF Promise!Accomplish
  <2> QED
    BY <2>5 DEF Promise!Next
<1>1. CASE Materialize(t)
  <2>1. CASE Conflicts(IntentCreated(t))
    <3>1. UNCHANGED <<calls, events>> /\ New = {}
      BY <1>1, <2>1 DEF Materialize, New
    <3> QED
      BY <1>0, <1>a, <3>1, Invisible
  <2>2. CASE ~Conflicts(IntentCreated(t))
    <3>1. /\ IntentCreated(t).type = "effect_intent_created"
          /\ IntentCompleted(t).type = "completed" /\ IntentCompleted(t).task = t
      BY DEF IntentCreated, IntentCompleted, Event
    <3>2. /\ job[t] \in {"ready", "calling"} /\ t \in Writes /\ UNCHANGED calls
          /\ events' = events \cup {IntentCreated(t), IntentCompleted(t)}
      BY <1>1, <2>2 DEF Materialize, Appends
    <3>3. /\ events \subseteq events'
          /\ \A e \in New : e.type \in Milestones => e.type = "completed" /\ e.task = t
          /\ \E e \in events' : e.type = "completed" /\ e.task = t
      BY <3>1, <3>2, EventTypes DEF New
    <3> QED
      BY <1>b, <3>2, <3>3
  <2> QED
    BY <2>1, <2>2
<1>2. CASE CallSucceeds(t)
  <2>1. /\ job[t] = "calling" /\ UNCHANGED calls
        /\ events' = events \cup {Event("attempt_succeeded", t, calls[t], "output"),
                                  Event("completed", t, calls[t], "output")}
    BY <1>2 DEF CallSucceeds, Appends, Completion
  <2>2. /\ Event("attempt_succeeded", t, calls[t], "output").type = "attempt_succeeded"
        /\ Event("completed", t, calls[t], "output").type = "completed"
        /\ Event("completed", t, calls[t], "output").task = t
        /\ "attempt_succeeded" \notin Milestones
    BY DEF Event, Milestones, RunEnds
  <2>3. /\ events \subseteq events'
        /\ \A e \in New : e.type \in Milestones => e.type = "completed" /\ e.task = t
        /\ \E e \in events' : e.type = "completed" /\ e.task = t
    BY <2>1, <2>2 DEF New
  <2>4. calls[t] > 0
    BY <2>1 DEF IInv, OneOutcome, Open
  <2> QED
    BY <1>b, <2>1, <2>3, <2>4
<1>3. CASE StartCall(t)
  <2>1. /\ job[t] = "held" /\ calls' = [calls EXCEPT ![t] = @ + 1] /\ UNCHANGED events
    BY <1>3 DEF StartCall, StartAttempt
  <2>2. job[t] \in Active
    BY <2>1 DEF Active, Waits
  <2>3. /\ Promise!Startable(t)
        /\ t \notin PlanOf(manifest).writes
        /\ calls[t] < PlanOf(manifest).attempts
    <3>1. t \notin setup.writes /\ calls[t] < setup.attempts
      <4>1. setup.attempts \in Nat /\ calls[t] \in Nat
        BY PlanType DEF IInv, TypeOK
      <4> QED
        BY <2>1, <4>1 DEF IInv, CallsAreCounted, Writes
    <3> QED
      BY <2>2, <3>1, OpenWhileActive DEF Promise!Startable, PlanOf
  <2>4. CompletedTasks' = CompletedTasks /\ VerdictOf' = VerdictOf
    BY <2>1 DEF CompletedTasks, VerdictOf, Has
  <2>5. Promise!Try(t)
    BY <1>0, <2>1, <2>3, <2>4 DEF Promise!Try
  <2> QED
    BY <2>5 DEF Promise!Next
<1>4. CASE \/ Begin(t) \/ BeginsLate(t) \/ TakeProvider(t) \/ WaitCancelled(t) \/ TimesOut(t)
           \/ WaitLapses(t) \/ BackoffEnds(t)
  <2>1. UNCHANGED <<calls, events>> /\ New = {}
    BY <1>4 DEF Begin, BeginsLate, TakeProvider, WaitCancelled, TimesOut, WaitLapses,
                BackoffEnds, New
  <2> QED
    BY <1>0, <1>a, <2>1, Invisible
<1>5. CASE \/ CallFails(t) \/ CallExpires(t) \/ CallEndsLate(t) \/ CallCancelled(t)
           \/ SettlesCancelled(t) \/ CallRetries(t)
  <2>1. /\ events \subseteq events'
        /\ \A e \in New : e.type \in {"attempt_failed", "attempt_cancelled",
                                      "circuit_opened", "retry_scheduled"}
    <3>1. CASE CallRetries(t)
      <4> DEFINE o == Failed(t, "retryable")
      <4>1. \/ events' = events \cup {o}
            \/ events' = events \cup {o, Event("circuit_opened", t, calls[t], "run")}
            \/ events' = events \cup {o, RetryScheduled(t)}
        BY <3>1 DEF CallRetries, Appends
      <4>2. /\ o.type = "attempt_failed"
            /\ Event("circuit_opened", t, calls[t], "run").type = "circuit_opened"
            /\ RetryScheduled(t).type = "retry_scheduled"
        BY DEF Failed, Event, RetryScheduled
      <4> HIDE DEF o
      <4> QED
        BY <4>1, <4>2 DEF New
    <3>2. CASE CallCancelled(t) \/ SettlesCancelled(t)
      <4> DEFINE o == Event("attempt_cancelled", t, calls[t], "final")
      <4>1. events' = events \cup {o}
        BY <3>2 DEF CallCancelled, SettlesCancelled, Appends
      <4>2. o.type = "attempt_cancelled"
        BY DEF Event
      <4> HIDE DEF o
      <4> QED
        BY <4>1, <4>2 DEF New
    <3>3. CASE CallFails(t) \/ CallExpires(t) \/ CallEndsLate(t)
      <4> DEFINE o == Failed(t, "final")
      <4>1. events' = events \cup {o}
        BY <3>3 DEF CallFails, CallExpires, CallEndsLate, Appends
      <4>2. o.type = "attempt_failed"
        BY DEF Failed, Event
      <4> HIDE DEF o
      <4> QED
        BY <4>1, <4>2 DEF New
    <3> QED
      BY <1>5, <3>1, <3>2, <3>3
  <2>2. events \subseteq events' /\ \A e \in New : e.type \notin Milestones
    BY <2>1, EventTypes DEF New
  <2>3. UNCHANGED calls
    BY <1>5 DEF CallFails, CallExpires, CallEndsLate, CallCancelled, SettlesCancelled,
                CallRetries
  <2> QED
    BY <1>0, <1>a, <2>2, <2>3, Invisible
<1> QED
  BY <1>1, <1>2, <1>3, <1>4, <1>5 DEF TaskStep

\* The main loop admits the run and decides its verdict.
LEMMA LoopPromise ==
  ASSUME IInv, LoopStep \/ CallerCancels \/ \E s \in Setups : Execute(s) \/ Refused(s)
  PROVE  [Promise!Next]_(Promise!vars)
<1> DEFINE Same == UNCHANGED <<PlanOf(manifest), calls, CompletedTasks, VerdictOf>>
<1>a. Same => [Promise!Next]_(Promise!vars)
  BY DEF Promise!vars
<1>1. ASSUME NEW s \in Setups, Execute(s) PROVE [Promise!Next]_(Promise!vars)
  <2>1. /\ events' = events \cup {RunEvent("run_started")} /\ UNCHANGED calls
        /\ manifest' = (IF created = 0 THEN s ELSE manifest)
    BY <1>1 DEF Execute, Appends
  <2>2. RunEvent("run_started").type = "run_started"
    BY DEF RunEvent, Event
  <2>3. events \subseteq events' /\ \A e \in New : e.type \notin Milestones
    BY <2>1, <2>2, EventTypes DEF New
  <2>4. CompletedTasks' = CompletedTasks /\ VerdictOf' = VerdictOf
    BY <2>3, NoMilestone, VerdictSame DEF Milestones
  <2>5. CASE created = 0
    <3>1. PlanOf(manifest) = Promise!NoPlan /\ PlanOf(manifest)' \in {PlanOf(r) : r \in Setups}
      BY <2>1, <2>5, Plans DEF IInv, Admitted
    <3>2. Promise!Admit
      BY <2>1, <2>4, <3>1 DEF Promise!Admit
    <3> QED
      BY <3>2 DEF Promise!Next
  <2>6. CASE created # 0
    BY <1>a, <2>1, <2>4, <2>6
  <2> QED
    BY <2>5, <2>6
<1>2. CASE Finish
  <2>1. /\ phase = "stopping" /\ verdict \in Verdicts /\ UNCHANGED <<calls, manifest>>
        /\ events' = events \cup {RunEvent(verdict)}
    BY <1>2 DEF Finish, Appends, IInv, LoopOwnsCoroutines
  <2>2. RunEvent(verdict).type = verdict /\ RunEvent(verdict).task = NoTask
    BY DEF RunEvent, Event
  <2>3. VerdictOf = "open"
    BY <2>1 DEF VerdictOf, IInv, VerdictIsLast, Terminal
  <2>4. CompletedTasks' = CompletedTasks
    BY <2>1, <2>2 DEF CompletedTasks, Has, Verdicts
  <2>5. VerdictOf' \in {"failed", "cancelled"}
    BY <2>1, <2>2 DEF VerdictOf, Has, Verdicts
  <2>6. Promise!Decide(VerdictOf')
    BY <2>1, <2>3, <2>4, <2>5 DEF Promise!Decide
  <2> QED
    BY <2>5, <2>6 DEF Promise!Next
<1>3. CASE Concludes
  <2>1. phase = "looping" /\ Pending = {} /\ UNCHANGED <<calls, manifest>>
    BY <1>3 DEF Concludes
  <2>2. CompletedTasks = Tasks
    BY <2>1 DEF Pending, IInv, TypeOK, LedgerIsCollected, CompletedTasks
  <2>3. ~Has("run_failed", NoTask) /\ ~Has("run_cancelled", NoTask)
    BY <2>1 DEF IInv, VerdictIsLast, Terminal
  <2>4. \/ UNCHANGED events
        \/ events' = events \cup {AwaitingEffects}
        \/ events' = events \cup {RunEvent("run_completed")}
    BY <1>3 DEF Concludes, Appends
  <2>5. /\ AwaitingEffects.type = "run_awaiting_effects" /\ AwaitingEffects.task = NoTask
        /\ RunEvent("run_completed").type = "run_completed"
        /\ RunEvent("run_completed").task = NoTask
    BY DEF AwaitingEffects, RunEvent, Event
  <2>6. /\ CompletedTasks' = CompletedTasks
        /\ ~Has("run_failed", NoTask)' /\ ~Has("run_cancelled", NoTask)'
    BY <2>3, <2>4, <2>5 DEF CompletedTasks, Has
  <2>7. \/ VerdictOf' = VerdictOf
        \/ VerdictOf = "open" /\ VerdictOf' \in {"awaiting", "completed"}
        \/ VerdictOf = "awaiting" /\ VerdictOf' = "completed"
    <3>1. Has("run_completed", NoTask) => Has("run_completed", NoTask)'
      BY <2>4 DEF Has
    <3>2. Has("run_awaiting_effects", NoTask) => Has("run_awaiting_effects", NoTask)'
      BY <2>4 DEF Has
    <3> QED
      BY <2>3, <2>6, <3>1, <3>2 DEF VerdictOf
  <2>8. CASE VerdictOf' = VerdictOf
    BY <1>a, <2>1, <2>6, <2>8
  <2>9. CASE VerdictOf' # VerdictOf
    <3>1. Promise!Decide(VerdictOf')
      BY <2>1, <2>2, <2>6, <2>7, <2>9 DEF Promise!Decide
    <3> QED
      BY <2>7, <2>9, <3>1 DEF Promise!Next
  <2> QED
    BY <2>8, <2>9
<1>4. CASE Collect
  <2>1. PICK f : events' = events \/ events' = events \cup {Event("dead_lettered", f, calls[f], job[f])}
    BY <1>4 DEF Collect, Appends
  <2>2. Event("dead_lettered", f, calls[f], job[f]).type = "dead_lettered"
    BY DEF Event
  <2>3. events \subseteq events' /\ \A e \in New : e.type \notin Milestones
    BY <2>1, <2>2, EventTypes DEF New
  <2>4. UNCHANGED <<calls, manifest>>
    BY <1>4 DEF Collect
  <2> QED
    BY <1>a, <2>3, <2>4, Invisible
<1>5. CASE \/ Revalidated \/ RevalidationRefused \/ LoopStops \/ Spawn \/ CallerCancels
           \/ \E s \in Setups : Refused(s)
  <2>1. UNCHANGED <<calls, events, manifest>> /\ New = {}
    BY <1>5 DEF Revalidated, RevalidationRefused, LoopStops, Spawn, CallerCancels, Refused,
                durable, New
  <2> QED
    BY <1>a, <2>1, Invisible
<1> QED
  BY <1>1, <1>2, <1>3, <1>4, <1>5 DEF LoopStep

\* Deaths, clocks and the broker are invisible to the promise.
LEMMA OutsidePromise ==
  ASSUME IInv,
         \/ RequestCancel \/ Tick \/ UNCHANGED vars \/ \E t \in Tasks : BrokerMoves(t)
         \/ Crash \/ \E t \in Tasks : CrashInMaterialize(t) \/ CrashInRetry(t)
  PROVE  [Promise!Next]_(Promise!vars)
<1>1. UNCHANGED <<calls, manifest>>
  BY DEF RequestCancel, Tick, vars, BrokerMoves, Crash, CrashInMaterialize, CrashInRetry, durable
<1>2. events \subseteq events' /\ \A e \in New : e.type \notin Milestones
  <2>1. CASE RequestCancel \/ Tick \/ UNCHANGED vars \/ Crash \/ \E t \in Tasks : BrokerMoves(t)
    BY <2>1 DEF RequestCancel, Tick, vars, BrokerMoves, Crash, durable, New
  <2>2. ASSUME NEW t \in Tasks, CrashInMaterialize(t)
        PROVE  events \subseteq events' /\ \A e \in New : e.type \notin Milestones
    <3>1. IntentCreated(t).type = "effect_intent_created"
      BY DEF IntentCreated, Event
    <3> QED
      BY <2>2, <3>1, EventTypes DEF CrashInMaterialize, New
  <2>3. ASSUME NEW t \in Tasks, CrashInRetry(t)
        PROVE  events \subseteq events' /\ \A e \in New : e.type \notin Milestones
    <3>1. Failed(t, "retryable").type = "attempt_failed"
      BY DEF Failed, Event
    <3> QED
      BY <2>3, <3>1, EventTypes DEF CrashInRetry, Appends, New
  <2> QED
    BY <2>1, <2>2, <2>3
<1> QED
  BY <1>1, <1>2, Invisible DEF Promise!vars

\* A run that nobody has taken up is one of which nothing was promised yet.
LEMMA PromiseInit == Init => Promise!Init
<1> SUFFICES ASSUME Init PROVE Promise!Init
  OBVIOUS
<1>1. CompletedTasks = {} /\ VerdictOf = "open"
  BY DEF Init, StoreInit, CompletedTasks, VerdictOf, Has
<1> QED
  BY <1>1, Plans DEF Init, StoreInit, Promise!Init

\* Whatever processes take the run up, die and take it up again, the run is one
\* that ExecutionPromise allows.
THEOREM Refinement == Spec => KeepsPromise
<1>1. IInv /\ [Next]_vars => [Promise!Next]_(Promise!vars)
  BY TaskPromise, LoopPromise, OutsidePromise DEF Next
<1> QED
  BY <1>1, PromiseInit, Invariance, PTL DEF Spec, KeepsPromise, Promise!Spec

-----------------------------------------------------------------------------
(* The store without the executor (SharedRunStore): the inductive invariant of *)
(* clients that share a run and do not know of each other. *)

SharedBodies == {"output", "retryable", "final"}

SharedRecords == [type : Outcomes \cup {"completed"}, task : Tasks,
                  attempt : Nat \ {0}, body : SharedBodies]

\* The attempts of a task that start_attempt has numbered.
Numbered(t, n) == t \in Tasks /\ n \in 1 .. calls[t]

SharedTypeOK ==
  /\ calls  \in [Tasks -> 0 .. MaxNumber]
  /\ holds  \in [Clients -> SUBSET (Tasks \X (Nat \ {0}))]
  /\ events \in SUBSET SharedRecords

\* Nothing is held or settled that was not started: the next number of a task
\* is new to the holds of every client and to the ledger.
NothingUnnumbered ==
  /\ \A c \in Clients : \A t \in Tasks, n \in Nat :
       <<t, n>> \in holds[c] => Numbered(t, n)
  /\ \A e \in events : Numbered(e.task, e.attempt)

\* Success and completion come in one transaction.
SuccessIsCompletion ==
  \A t \in Tasks, n \in Nat :
    (\E e \in events : e.type = "completed" /\ e.task = t /\ e.attempt = n)
      <=> (\E e \in events : e.type = "attempt_succeeded" /\ e.task = t /\ e.attempt = n)

OneCompletion ==
  \A e, f \in events :
    e.type = "completed" /\ f.type = "completed" /\ e.task = f.task => e = f

SharedIInv ==
  /\ SharedTypeOK
  /\ NothingUnnumbered
  /\ SuccessIsCompletion
  /\ OneCompletion
  /\ AttemptsHaveOneOwner

-----------------------------------------------------------------------------
(* The helpers of the ledger. *)

\* Two events with one identifier that do not conflict are the same event.
LEMMA NoConflict ==
  ASSUME NEW e, NEW f \in events, ~Conflicts(e), Id(f) = Id(e)
  PROVE  f = e
  BY DEF Conflicts

\* The events of a completion are records of the ledger; the completion is
\* identified by its task alone.
LEMMA CompletionRecords ==
  ASSUME NEW t \in Tasks, NEW n \in Nat \ {0}
  PROVE  /\ Completion(t, n) \in SUBSET SharedRecords
         /\ \A e \in Completion(t, n) : e.task = t /\ e.attempt = n
         /\ \E e \in Completion(t, n) : e.type = "attempt_succeeded"
         /\ \E e \in Completion(t, n) : e.type = "completed"
         /\ \A e, f \in Completion(t, n) : e.type = f.type => e = f
  BY DEF Completion, Event, SharedRecords, Outcomes, SharedBodies

\* Completions of one task share an identifier.
LEMMA CompletionId ==
  ASSUME NEW e \in SharedRecords, NEW f \in SharedRecords, e.type = "completed",
         f.type = "completed", e.task = f.task
  PROVE  Id(e) = Id(f)
  BY DEF Id, SharedRecords, PerAttempt, Outcomes

-----------------------------------------------------------------------------
(* Starting an attempt. *)

\* The new number is nobody's and has no event.
LEMMA StartsStep ==
  ASSUME SharedIInv, NEW c \in Clients, NEW t \in Tasks, Starts(c, t)
  PROVE  SharedIInv'
<1> DEFINE new == <<t, calls[t] + 1>>
<1>1. /\ calls' = [calls EXCEPT ![t] = @ + 1]
      /\ calls[t] \in Nat /\ calls'[t] = calls[t] + 1
      /\ holds' = [holds EXCEPT ![c] = @ \cup {new}]
      /\ events' = events
  BY DEF Starts, StartAttempt, SharedIInv, SharedTypeOK
<1>2. SharedTypeOK'
  <2>1. calls' \in [Tasks -> 0 .. MaxNumber]
    BY SharedAssumption DEF Starts, StartAttempt, SharedIInv, SharedTypeOK
  <2>2. new \in Tasks \X (Nat \ {0})
    BY <1>1
  <2>3. holds' \in [Clients -> SUBSET (Tasks \X (Nat \ {0}))]
    BY <1>1, <2>2 DEF SharedIInv, SharedTypeOK
  <2> QED
    BY <1>1, <2>1, <2>3 DEF SharedIInv, SharedTypeOK
<1>3. ASSUME NEW u, NEW n, Numbered(u, n) PROVE Numbered(u, n)'
  BY <1>1, <1>3 DEF Numbered, SharedIInv, SharedTypeOK
<1>4. NothingUnnumbered'
  <2>1. ASSUME NEW d \in Clients, NEW u \in Tasks, NEW n \in Nat,
               <<u, n>> \in holds'[d]
        PROVE  Numbered(u, n)'
    <3>1. CASE <<u, n>> \in holds[d]
      BY <3>1, <1>3 DEF SharedIInv, NothingUnnumbered
    <3>2. CASE <<u, n>> = new
      BY <3>2, <1>1 DEF Numbered
    <3> QED
      BY <2>1, <3>1, <3>2, <1>1 DEF SharedIInv, SharedTypeOK
  <2>2. \A e \in events' : Numbered(e.task, e.attempt)'
    BY <1>1, <1>3 DEF SharedIInv, NothingUnnumbered
  <2> QED
    BY <2>1, <2>2 DEF NothingUnnumbered
<1>5. \A d \in Clients : new \notin holds[d]
  BY <1>1 DEF SharedIInv, NothingUnnumbered, Numbered
<1>6. \A e \in events : <<e.task, e.attempt>> # new
  BY <1>1 DEF SharedIInv, NothingUnnumbered, Numbered, SharedTypeOK, SharedRecords
<1>7. AttemptsHaveOneOwner'
  <2>1. \A d \in Clients : holds'[d] = holds[d] \/ (d = c /\ holds'[d] = holds[d] \cup {new})
    BY <1>1 DEF SharedIInv, SharedTypeOK
  <2>2. \A d1, d2 \in Clients : d1 # d2 => holds'[d1] \cap holds'[d2] = {}
    BY <2>1, <1>5 DEF SharedIInv, AttemptsHaveOneOwner
  <2>3. \A d \in Clients : \A h \in holds'[d] :
          \A e \in events : e.type \in Outcomes => <<e.task, e.attempt>> # h
    BY <2>1, <1>6 DEF SharedIInv, AttemptsHaveOneOwner
  <2> QED
    BY <1>1, <2>2, <2>3 DEF SharedIInv, AttemptsHaveOneOwner
<1> QED
  BY <1>1, <1>2, <1>4, <1>7 DEF SharedIInv, SuccessIsCompletion, OneCompletion

-----------------------------------------------------------------------------
(* Settling an attempt. *)

\* Whatever events settle a held attempt, it was open until then, and
\* afterwards nobody holds it.
LEMMA SettlesStep ==
  ASSUME SharedIInv, NEW c \in Clients, NEW t \in Tasks, NEW n \in 1 .. MaxNumber,
         NEW S \in SUBSET SharedRecords, Settles(c, t, n, S),
         \A e \in S : e.task = t /\ e.attempt = n,
         \A e, f \in S : e.type \in Outcomes /\ f.type \in Outcomes => e = f
  PROVE  /\ SharedTypeOK' /\ NothingUnnumbered' /\ AttemptsHaveOneOwner'
         /\ \A e \in events : e.type \in Outcomes => ~(e.task = t /\ e.attempt = n)
<1>1. /\ <<t, n>> \in holds[c]
      /\ events' = events \cup S
      /\ holds' = [holds EXCEPT ![c] = @ \ {<<t, n>>}]
      /\ calls' = calls
  BY DEF Settles, Appends
<1>2. Numbered(t, n)
  BY <1>1 DEF SharedIInv, NothingUnnumbered
<1>3. SharedTypeOK'
  BY <1>1 DEF SharedIInv, SharedTypeOK
<1>4. \A d \in Clients : holds'[d] \subseteq holds[d]
  BY <1>1 DEF SharedIInv, SharedTypeOK
<1>5. NothingUnnumbered'
  <2>1. \A e \in S : Numbered(e.task, e.attempt)
    BY <1>2
  <2> QED
    BY <1>1, <1>4, <2>1 DEF SharedIInv, NothingUnnumbered, Numbered
<1>6. \A e \in events : e.type \in Outcomes => ~(e.task = t /\ e.attempt = n)
  BY <1>1 DEF SharedIInv, AttemptsHaveOneOwner
<1>7. \A d \in Clients : <<t, n>> \notin holds'[d]
  BY <1>1 DEF SharedIInv, AttemptsHaveOneOwner, SharedTypeOK
<1>8. AttemptsHaveOneOwner'
  <2>1. \A d1, d2 \in Clients : d1 # d2 => holds'[d1] \cap holds'[d2] = {}
    BY <1>4 DEF SharedIInv, AttemptsHaveOneOwner
  <2>2. ASSUME NEW e \in events', NEW f \in events',
               e.type \in Outcomes, f.type \in Outcomes,
               e.task = f.task, e.attempt = f.attempt
        PROVE  e = f
    <3>1. CASE e \in events /\ f \in events
      BY <2>2, <3>1 DEF SharedIInv, AttemptsHaveOneOwner
    <3>2. CASE e \in S /\ f \in S
      BY <2>2, <3>2
    <3>3. CASE e \in events /\ f \in S
      BY <2>2, <3>3, <1>6
    <3>4. CASE e \in S /\ f \in events
      BY <2>2, <3>4, <1>6
    <3> QED
      BY <1>1, <3>1, <3>2, <3>3, <3>4
  <2>3. ASSUME NEW d \in Clients, NEW h \in holds'[d], NEW e \in events',
               e.type \in Outcomes
        PROVE  <<e.task, e.attempt>> # h
    <3>1. CASE e \in events
      BY <2>3, <3>1, <1>4 DEF SharedIInv, AttemptsHaveOneOwner
    <3>2. CASE e \in S
      BY <2>3, <3>2, <1>7
    <3> QED
      BY <1>1, <3>1, <3>2
  <2> QED
    BY <2>1, <2>2, <2>3 DEF AttemptsHaveOneOwner
<1> QED
  BY <1>3, <1>5, <1>6, <1>8

\* A completion wins its task: the identifier was free, so no other attempt
\* of the task had succeeded.
LEMMA CompletesStep ==
  ASSUME SharedIInv, NEW c \in Clients, NEW t \in Tasks, NEW n \in 1 .. MaxNumber,
         Completes(c, t, n)
  PROVE  SharedIInv'
<1> DEFINE S == Completion(t, n)
<1>0. n \in Nat \ {0}
  BY SharedAssumption
<1>1. /\ Settles(c, t, n, S)
      /\ events' = events \cup S
      /\ \A e \in S : ~Conflicts(e)
  BY DEF Completes, Settles, Appends
<1>2. /\ S \in SUBSET SharedRecords
      /\ \A e \in S : e.task = t /\ e.attempt = n
      /\ \E e \in S : e.type = "attempt_succeeded"
      /\ \E e \in S : e.type = "completed"
      /\ \A e, f \in S : e.type = f.type => e = f
  BY <1>0, CompletionRecords
<1>3. \A e, f \in S : e.type \in Outcomes /\ f.type \in Outcomes => e = f
  BY DEF Completion, Event, Outcomes
<1> HIDE DEF S
<1>4. SharedTypeOK' /\ NothingUnnumbered' /\ AttemptsHaveOneOwner'
  BY <1>1, <1>2, <1>3, SettlesStep
<1>5. OneCompletion'
  <2>1. ASSUME NEW e \in S, NEW f \in events, e.type = "completed",
               f.type = "completed", e.task = f.task
        PROVE  f = e
    <3>1. Id(f) = Id(e)
      BY <2>1, <1>2, CompletionId DEF SharedIInv, SharedTypeOK
    <3> QED
      BY <3>1, <1>1, NoConflict
  <2> QED
    BY <1>1, <1>2, <2>1 DEF SharedIInv, OneCompletion
<1>6. SuccessIsCompletion'
  BY <1>1, <1>2 DEF SharedIInv, SuccessIsCompletion
<1> QED
  BY <1>4, <1>5, <1>6 DEF SharedIInv

\* A failure or cancellation leaves successes and completions alone.
LEMMA FailsStep ==
  ASSUME SharedIInv, NEW c \in Clients, NEW t \in Tasks, NEW n \in 1 .. MaxNumber,
         Fails(c, t, n)
  PROVE  SharedIInv'
<1>1. PICK outcome \in Outcomes \ {"attempt_succeeded"},
           retryable \in {"retryable", "final"} :
             Settles(c, t, n, {Event(outcome, t, n, retryable)})
  BY DEF Fails
<1> DEFINE e == Event(outcome, t, n, retryable)
<1>2. /\ e \in SharedRecords /\ e.task = t /\ e.attempt = n /\ e.type = outcome
      /\ e.type # "attempt_succeeded" /\ e.type # "completed"
  BY SharedAssumption DEF Event, SharedRecords, SharedBodies, Outcomes
<1>3. events' = events \cup {e}
  BY <1>1 DEF Settles, Appends
<1> HIDE DEF e
<1>4. SharedTypeOK' /\ NothingUnnumbered' /\ AttemptsHaveOneOwner'
  <2>1. Settles(c, t, n, {e})
    BY <1>1 DEF e
  <2>2. {e} \in SUBSET SharedRecords
    BY <1>2
  <2> QED
    BY <2>1, <2>2, <1>2, SettlesStep
<1>5. OneCompletion' /\ SuccessIsCompletion'
  BY <1>2, <1>3 DEF SharedIInv, OneCompletion, SuccessIsCompletion
<1> QED
  BY <1>4, <1>5 DEF SharedIInv

-----------------------------------------------------------------------------
(* The theorems about shared stores. *)

\* An attempt that is given up, by a lost race or a death, is only forgotten.
LEMMA ForgetsStep ==
  ASSUME SharedIInv, UNCHANGED <<calls, events>>, NEW c \in Clients, NEW H \in SUBSET holds[c],
         holds' = [holds EXCEPT ![c] = H]
  PROVE  SharedIInv'
<1>1. \A d \in Clients : holds'[d] \subseteq holds[d]
  BY DEF SharedIInv, SharedTypeOK
<1>2. SharedTypeOK'
  BY DEF SharedIInv, SharedTypeOK
<1>3. NothingUnnumbered'
  BY <1>1 DEF SharedIInv, NothingUnnumbered, Numbered
<1>4. AttemptsHaveOneOwner'
  BY <1>1 DEF SharedIInv, AttemptsHaveOneOwner
<1> QED
  BY <1>2, <1>3, <1>4 DEF SharedIInv, SuccessIsCompletion, OneCompletion

\* Every reachable state satisfies the inductive invariant.
THEOREM SharedInvariance == SharedSpec => []SharedIInv
<1>1. SharedInit => SharedIInv
  BY SharedAssumption DEF SharedInit, StoreInit, SharedIInv, SharedTypeOK, NothingUnnumbered,
     SuccessIsCompletion, OneCompletion, AttemptsHaveOneOwner
<1>2. SharedIInv /\ [SharedNext]_sharedVars => SharedIInv'
  <2> SUFFICES ASSUME SharedIInv, [SharedNext]_sharedVars PROVE SharedIInv'
    OBVIOUS
  <2>1. CASE UNCHANGED sharedVars
    BY <2>1 DEF sharedVars, storeVars, SharedIInv, SharedTypeOK, NothingUnnumbered, Numbered,
       SuccessIsCompletion, OneCompletion, AttemptsHaveOneOwner
  <2>2. ASSUME NEW c \in Clients, NEW t \in Tasks, Starts(c, t) PROVE SharedIInv'
    BY <2>2, StartsStep
  <2>3. ASSUME NEW c \in Clients, NEW t \in Tasks, NEW n \in 1 .. MaxNumber,
               Completes(c, t, n)
        PROVE  SharedIInv'
    BY <2>3, CompletesStep
  <2>4. ASSUME NEW c \in Clients, NEW t \in Tasks, NEW n \in 1 .. MaxNumber,
               Fails(c, t, n)
        PROVE  SharedIInv'
    BY <2>4, FailsStep
  <2>5. ASSUME NEW c \in Clients, NEW t \in Tasks, NEW n \in 1 .. MaxNumber,
               LosesTheRace(c, t, n)
        PROVE  SharedIInv'
    <3>1. holds' = [holds EXCEPT ![c] = holds[c] \ {<<t, n>>}]
      BY <2>5 DEF LosesTheRace
    <3>2. holds[c] \ {<<t, n>>} \in SUBSET holds[c]
      OBVIOUS
    <3> QED
      BY <2>5, <3>1, <3>2, ForgetsStep DEF LosesTheRace
  <2>6. ASSUME NEW c \in Clients, Dies(c) PROVE SharedIInv'
    <3>1. {} \in SUBSET holds[c]
      OBVIOUS
    <3> QED
      BY <2>6, <3>1, ForgetsStep DEF Dies
  <2> QED
    BY <2>1, <2>2, <2>3, <2>4, <2>5, <2>6 DEF SharedNext
<1> QED
  BY <1>1, <1>2, PTL DEF SharedSpec

\* However many clients share a run without a lease, its ledger decides between
\* them: one owner and one outcome for each attempt, one completion for each
\* task, and that of the attempt that succeeded.
THEOREM LedgerArbitrates == SharedSpec => []TheLedgerArbitrates
<1>1. SharedIInv => CompletionIsTheSuccess
  <2> SUFFICES ASSUME SharedIInv PROVE CompletionIsTheSuccess
    OBVIOUS
  <2>1. 1 .. MaxNumber \subseteq Nat
    BY SharedAssumption
  <2> QED
    BY <2>1 DEF SharedIInv, OneCompletion, SuccessIsCompletion, CompletionIsTheSuccess
<1>2. SharedIInv => TheLedgerArbitrates
  BY <1>1 DEF SharedIInv, TheLedgerArbitrates
<1> QED
  BY <1>2, SharedInvariance, PTL

-----------------------------------------------------------------------------
(* The resource ledger and its replay. *)

LedgerState == [Attempts -> Vectors \cup {None}]

\* What is spent and held of a state, which may be the replayed one.
Sound(s, act, term) ==
  /\ s \in Vectors
  /\ act \in LedgerState
  /\ term \in [Attempts -> Fates \cup {None}]
  /\ \A a \in Attempts : act[a] = None \/ term[a] = None
  /\ FitsWithin(Plus(s, Held(act)), Capacity)

-----------------------------------------------------------------------------
(* What is held *)

\* The amount of one unit that is held is a sum over the active attempts.
LEMMA HeldUnfolds ==
  ASSUME NEW act, NEW u \in Units
  PROVE  Held(act)[u] = SumFunctionOnSet([a \in ActiveIn(act) |-> act[a][u]], ActiveIn(act))
BY DEF Held, SumFunction

\* What is held is a vector of natural numbers.
LEMMA HeldType ==
  ASSUME NEW act \in LedgerState
  PROVE  Held(act) \in Vectors
<1>1. ASSUME NEW u \in Units PROVE Held(act)[u] \in Nat
  <2> DEFINE f == [a \in ActiveIn(act) |-> act[a][u]]
  <2>1. IsFiniteSet(ActiveIn(act))
    BY LedgerAssumption, FS_Subset DEF ActiveIn
  <2>2. \A a \in ActiveIn(act) : f[a] \in Nat
    BY DEF ActiveIn, LedgerState, Vectors
  <2> HIDE DEF f
  <2>3. SumFunctionOnSet(f, ActiveIn(act)) \in Nat
    BY <2>1, <2>2, SumNatural
  <2> QED
    BY <2>3, HeldUnfolds DEF f
<1> QED
  BY <1>1 DEF Held, Vectors

\* An attempt that is retired no longer holds its reservation.
LEMMA HeldReleases ==
  ASSUME NEW act \in LedgerState, NEW a \in Attempts, act[a] # None, NEW u \in Units
  PROVE  Held(act)[u] = act[a][u] + Held([act EXCEPT ![a] = None])[u]
<1> DEFINE rest == [act EXCEPT ![a] = None]
           f == [b \in ActiveIn(act) |-> act[b][u]]
           g == [b \in ActiveIn(rest) |-> rest[b][u]]
<1>1. IsFiniteSet(ActiveIn(act)) /\ IsFiniteSet(ActiveIn(rest))
  BY LedgerAssumption, FS_Subset DEF ActiveIn
<1>2. /\ a \in ActiveIn(act) /\ ActiveIn(rest) = ActiveIn(act) \ {a}
      /\ f[a] = act[a][u]
  BY DEF ActiveIn, LedgerState
<1>3. /\ \A b \in ActiveIn(act) : f[b] \in Int
      /\ \A b \in ActiveIn(rest) : f[b] = g[b]
  BY DEF ActiveIn, LedgerState, Vectors
<1>4. Held(act)[u] = SumFunctionOnSet(f, ActiveIn(act))
  BY HeldUnfolds
<1>5. Held(rest)[u] = SumFunctionOnSet(g, ActiveIn(rest))
  BY HeldUnfolds
<1> HIDE DEF f, g, rest
<1>6. SumFunctionOnSet(f, ActiveIn(act)) = f[a] + SumFunctionOnSet(f, ActiveIn(act) \ {a})
  BY <1>1, <1>2, <1>3, SumRemove
<1>7. SumFunctionOnSet(f, ActiveIn(rest)) = SumFunctionOnSet(g, ActiveIn(rest))
  BY <1>1, <1>3, SumSame
<1> QED
  BY <1>2, <1>4, <1>5, <1>6, <1>7 DEF rest

\* An attempt that becomes active holds its reservation.
LEMMA HeldReserves ==
  ASSUME NEW act \in LedgerState, NEW a \in Attempts, act[a] = None,
         NEW v \in Vectors, NEW u \in Units
  PROVE  Held([act EXCEPT ![a] = v])[u] = v[u] + Held(act)[u]
<1> DEFINE more == [act EXCEPT ![a] = v]
<1>1. more \in LedgerState /\ more[a] = v /\ v # None
  BY LedgerAssumption DEF LedgerState
<1>2. [more EXCEPT ![a] = None] = act
  BY DEF LedgerState
<1> HIDE DEF more
<1>3. Held(more)[u] = more[a][u] + Held([more EXCEPT ![a] = None])[u]
  BY <1>1, HeldReleases
<1> QED
  BY <1>1, <1>2, <1>3 DEF more

\* Nothing is held when no attempt is active.
LEMMA HeldNothing ==
  FitsWithin(Plus(Zero, Held([a \in Attempts |-> None])), Capacity)
<1> DEFINE act == [a \in Attempts |-> None]
<1>1. ActiveIn(act) = {}
  BY DEF ActiveIn
<1> HIDE DEF act
<1>2. \A u \in Units : Held(act)[u] = 0
  BY <1>1, HeldUnfolds, SumEmpty
<1> QED
  BY <1>2, LedgerAssumption DEF FitsWithin, Plus, Zero, Vectors, act

-----------------------------------------------------------------------------
(* The three ways a sound state moves *)

\* A reservation that fits the balance keeps the capacity.
LEMMA ReservingIsSound ==
  ASSUME NEW s, NEW act, NEW term, Sound(s, act, term),
         NEW a \in Attempts, act[a] = None, term[a] = None,
         NEW v \in Vectors, FitsWithin(v, Available(s, act))
  PROVE  Sound(s, [act EXCEPT ![a] = v], term)
<1> DEFINE more == [act EXCEPT ![a] = v]
<1>1. more \in LedgerState /\ \A b \in Attempts : more[b] = None \/ term[b] = None
  BY DEF Sound, LedgerState
<1>2. Held(act) \in Vectors /\ s \in Vectors /\ Capacity \in Vectors
  BY HeldType, LedgerAssumption DEF Sound
<1>3. \A u \in Units : Held(more)[u] = v[u] + Held(act)[u]
  BY HeldReserves DEF Sound
<1> HIDE DEF more
<1>4. FitsWithin(Plus(s, Held(more)), Capacity)
  BY <1>2, <1>3 DEF FitsWithin, Plus, Available, Minus, Vectors
<1> QED
  BY <1>1, <1>4 DEF Sound, more

\* A settlement of at most the reservation, or of nothing, keeps the capacity.
LEMMA RetiringIsSound ==
  ASSUME NEW s, NEW act, NEW term, Sound(s, act, term),
         NEW a \in Attempts, act[a] # None, NEW fate \in Fates,
         NEW v \in Vectors, FitsWithin(v, act[a])
  PROVE  /\ Sound(Plus(s, v), [act EXCEPT ![a] = None], [term EXCEPT ![a] = fate])
         /\ Sound(s, [act EXCEPT ![a] = None], [term EXCEPT ![a] = fate])
<1> DEFINE rest == [act EXCEPT ![a] = None]
           gone == [term EXCEPT ![a] = fate]
<1>1. /\ rest \in LedgerState /\ gone \in [Attempts -> Fates \cup {None}]
      /\ \A b \in Attempts : rest[b] = None \/ gone[b] = None
  BY DEF Sound, LedgerState
<1>2. /\ Held(act) \in Vectors /\ Held(rest) \in Vectors /\ s \in Vectors
      /\ Capacity \in Vectors /\ act[a] \in Vectors
  BY <1>1, HeldType, LedgerAssumption DEF Sound, LedgerState
<1>3. \A u \in Units : Held(act)[u] = act[a][u] + Held(rest)[u]
  BY HeldReleases DEF Sound
<1> HIDE DEF rest, gone
<1>4. \A u \in Units : Plus(s, Held(act))[u] <= Capacity[u]
  BY DEF Sound, FitsWithin
<1>5. Plus(s, v) \in Vectors
  BY <1>2 DEF Plus, Vectors
<1>6. FitsWithin(Plus(Plus(s, v), Held(rest)), Capacity)
  BY <1>2, <1>3, <1>4 DEF FitsWithin, Plus, Vectors
<1>7. FitsWithin(Plus(s, Held(rest)), Capacity)
  BY <1>2, <1>3, <1>4 DEF FitsWithin, Plus, Vectors
<1> QED
  BY <1>1, <1>2, <1>5, <1>6, <1>7 DEF Sound, rest, gone

\* A refused reservation only uses up its attempt id.
LEMMA RefusingIsSound ==
  ASSUME NEW s, NEW act, NEW term, Sound(s, act, term),
         NEW a \in Attempts, act[a] = None, NEW fate \in Fates
  PROVE  Sound(s, act, [term EXCEPT ![a] = fate])
BY DEF Sound

-----------------------------------------------------------------------------
(* The ledger *)

SoundLedger == Sound(spent, active, terminal)

\* A new ledger is sound.
LEMMA InitIsSound ==
  ASSUME LedgerInit
  PROVE  SoundLedger
<1>1. Zero \in Vectors
  BY DEF Zero, Vectors
<1>2. /\ [a \in Attempts |-> None] \in LedgerState
      /\ [a \in Attempts |-> None] \in [Attempts -> Fates \cup {None}]
  BY DEF LedgerState
<1> QED
  BY <1>1, <1>2, HeldNothing DEF LedgerInit, SoundLedger, Sound

\* Every call keeps the ledger sound.
LEMMA CallIsSound ==
  ASSUME SoundLedger, NEW a \in Attempts, Call(a)
  PROVE  SoundLedger'
<1> USE DEF SoundLedger
<1>1. CASE UNCHANGED ledger
  BY <1>1 DEF ledger, Sound, FitsWithin, Plus, Held, ActiveIn
<1>2. ASSUME NEW v \in Amounts, ReserveRefused(a, v) PROVE SoundLedger'
  BY <1>2, RefusingIsSound DEF ReserveRefused, Known, Fates
<1>3. ASSUME NEW v \in Amounts, Reserve(a, v) PROVE SoundLedger'
  <2>1. v \in Vectors
    BY LedgerAssumption
  <2> QED
    BY <1>3, <2>1, ReservingIsSound DEF Reserve, Known
<1>4. ASSUME NEW v \in Amounts, Settle(a, v) PROVE SoundLedger'
  <2>1. v \in Vectors
    BY LedgerAssumption
  <2> QED
    BY <1>4, <2>1, RetiringIsSound DEF Settle, Retire, Fates
<1>5. ASSUME Cancel(a) PROVE SoundLedger'
  <2>1. active[a] \in Vectors /\ FitsWithin(active[a], active[a])
    BY <1>5 DEF Cancel, Sound, LedgerState, FitsWithin, Vectors
  <2> QED
    BY <1>5, <2>1, RetiringIsSound DEF Cancel, Retire, Fates
<1>6. \/ UNCHANGED ledger
      \/ \E v \in Amounts : ReserveRefused(a, v) \/ Reserve(a, v) \/ Settle(a, v)
      \/ Cancel(a)
  BY DEF Call, ReserveConflicts, SettleAbsent, SettleOverrun, CancelAbsent, Refuse
<1> QED
  BY <1>1, <1>2, <1>3, <1>4, <1>5, <1>6

\* A retired attempt stays retired, and only a settlement is charged.
LEMMA CallRetiresForGood ==
  ASSUME SoundLedger, NEW a \in Attempts, Call(a)
  PROVE  ChargesOnlySettlements
<1>1. CASE UNCHANGED ledger
  BY <1>1 DEF ledger, ChargesOnlySettlements, SoundLedger, Sound
<1>2. ASSUME NEW v \in Amounts, ReserveRefused(a, v) \/ Reserve(a, v)
      PROVE  ChargesOnlySettlements
  BY <1>2 DEF ReserveRefused, Reserve, Known, ChargesOnlySettlements, SoundLedger, Sound,
              LedgerState
<1>3. ASSUME NEW v \in Amounts, Settle(a, v) PROVE ChargesOnlySettlements
  <2>1. v \in Vectors /\ spent \in Vectors
    BY LedgerAssumption DEF SoundLedger, Sound
  <2>2. /\ active' = [active EXCEPT ![a] = None] /\ terminal' = [terminal EXCEPT ![a] = "settled"]
        /\ active[a] # None /\ FitsWithin(v, active[a]) /\ spent' = Plus(spent, v)
    BY <1>3 DEF Settle, Retire
  <2>3. Minus(spent', spent) = v
    BY <2>1, <2>2 DEF Plus, Minus, Vectors
  <2>4. active'[a] = None /\ terminal'[a] = "settled"
    BY <2>2 DEF SoundLedger, Sound, LedgerState
  <2>5. \A b \in Attempts : terminal[b] # None => terminal'[b] = terminal[b] /\ active'[b] = None
    BY <2>2 DEF SoundLedger, Sound, LedgerState
  <2> QED
    BY <2>2, <2>3, <2>4, <2>5 DEF ChargesOnlySettlements
<1>4. ASSUME Cancel(a) PROVE ChargesOnlySettlements
  BY <1>4 DEF Cancel, Retire, ChargesOnlySettlements, SoundLedger, Sound, LedgerState
<1>5. \/ UNCHANGED ledger
      \/ \E v \in Amounts : ReserveRefused(a, v) \/ Reserve(a, v) \/ Settle(a, v)
      \/ Cancel(a)
  BY DEF Call, ReserveConflicts, SettleAbsent, SettleOverrun, CancelAbsent, Refuse
<1> QED
  BY <1>1, <1>2, <1>3, <1>4, <1>5

\* A step that leaves the ledger alone changes nothing of it.
LEMMA StutterIsSound ==
  ASSUME SoundLedger, UNCHANGED ledger
  PROVE  SoundLedger' /\ ChargesOnlySettlements
BY DEF ledger, ChargesOnlySettlements, SoundLedger, Sound, FitsWithin, Plus, Held, ActiveIn

\* Whatever the capacity, the attempts and their amounts: what is spent and what
\* is held fit the capacity, and no attempt is both active and retired.
THEOREM LedgerInvariance == LedgerSpec => []SoundLedger
<1>1. LedgerInit => SoundLedger
  BY InitIsSound
<1>2. SoundLedger /\ [LedgerNext]_ledgerVars => SoundLedger'
  BY CallIsSound, StutterIsSound DEF LedgerNext, ledgerVars
<1> QED
  BY <1>1, <1>2, PTL DEF LedgerSpec

\* The ledger never overcommits.
THEOREM NeverOvercommitted == LedgerSpec => []Conserved
<1>1. SoundLedger => Conserved
  BY DEF SoundLedger, Sound, Conserved
<1> QED
  BY <1>1, LedgerInvariance, PTL

\* A retired attempt id never comes back, and only settlements are charged.
THEOREM RetiredIsForGood == LedgerSpec => RetiredForGood
<1>1. SoundLedger /\ [LedgerNext]_ledgerVars => [ChargesOnlySettlements]_ledgerVars
  BY CallRetiresForGood DEF LedgerNext
<1> QED
  BY <1>1, LedgerInvariance, PTL DEF LedgerSpec, RetiredForGood

-----------------------------------------------------------------------------
(* The replay *)

SoundReplay == Sound(vspent, vactive, vterminal)

\* The invariant of a log that is recorded or forged, and read.
ReplayInv ==
  /\ SoundLedger
  /\ RecordedLogsPass
  /\ ~failed => SoundReplay

\* The decision on an event, as the ledger takes it, moves the replayed state as
\* the ledger's own.
LEMMA BalanceIsTheLedgers ==
  ASSUME SoundReplay
  PROVE  ReplayAvailable = Available(vspent, vactive)
BY DEF SoundReplay, Sound, ReplayAvailable, Available

\* A refusal the ledger records is the one the replay expects.
LEMMA RecordedRefusal ==
  ASSUME SoundLedger, replayed = ledger, NEW e, NEW why \in Refusals, why # "capacity_exceeded",
         Advance(e), UNCHANGED ledger,
         e.reservation = ExpectedReservation(e),
         e.reason = why, ExpectedReason(e) = why,
         e.post = Snapshot(spent', active', terminal')
  PROVE  replayed' = ledger' /\ Agrees(e)
<1>1. why # None
  BY LedgerAssumption DEF Refusals
<1>2. UNCHANGED replayed
  BY <1>1 DEF Advance, SoundLedger, Sound, replayed, ledger
<1>3. FitsWithin(Plus(spent, Held(active)), Capacity)
  BY DEF SoundLedger, Sound
<1>4. FitsWithin(Plus(vspent', Held(vactive')), Capacity)
  BY <1>2, <1>3 DEF replayed, ledger
<1> QED
  BY <1>2, <1>4 DEF Agrees, replayed, ledger

\* A step of the ledger is repeated by the replay of its event.
LEMMA RecordedStep ==
  ASSUME SoundLedger, replayed = ledger, NEW a \in Attempts, Call(a), Advance(event')
  PROVE  replayed' = ledger' /\ Agrees(event')
<1> DEFINE e == event'
<1>a. /\ vspent = spent /\ vactive = active /\ vterminal = terminal
      /\ SoundReplay /\ ReplayAvailable = Available(spent, active)
  BY BalanceIsTheLedgers DEF replayed, ledger, SoundLedger, SoundReplay
<1>b. /\ None \notin Amounts
      /\ \A why \in Refusals : why # None
      /\ active \in LedgerState /\ terminal \in [Attempts -> Fates \cup {None}]
  BY LedgerAssumption DEF Refusals, SoundLedger, Sound
<1>c. SoundLedger'
  BY CallIsSound
<1>d. ASSUME replayed' = ledger', e.reservation = ExpectedReservation(e),
             e.reason = ExpectedReason(e), e.post = Snapshot(spent', active', terminal')
      PROVE  Agrees(e)
  BY <1>c, <1>d DEF Agrees, replayed, ledger, SoundLedger, Sound
<1>1. ASSUME NEW v \in Amounts, ReserveConflicts(a, v)
      PROVE  replayed' = ledger' /\ Agrees(e)
  <2>1. /\ e.operation = "reserve" /\ e.attempt = a /\ e.reservation = v /\ e.actual = None
        /\ e.reason = "identity_conflict" /\ e.post = Snapshot(spent', active', terminal')
        /\ UNCHANGED ledger /\ Known(a)
    BY <1>1 DEF ReserveConflicts, Refuse, Record
  <2> HIDE DEF e
  <2>2. ExpectedReason(e) = "identity_conflict" /\ ExpectedReservation(e) = v
    BY <1>a, <1>b, <2>1 DEF ExpectedReason, ReserveReason, ExpectedReservation, Known
  <2> QED
    BY <2>1, <2>2, RecordedRefusal DEF Refusals, e
<1>2. ASSUME NEW v \in Amounts, ReserveRefused(a, v)
      PROVE  replayed' = ledger' /\ Agrees(e)
  <2>1. /\ e.operation = "reserve" /\ e.attempt = a /\ e.reservation = v /\ e.actual = None
        /\ e.reason = "capacity_exceeded" /\ e.post = Snapshot(spent', active', terminal')
        /\ ~Known(a) /\ ~FitsWithin(v, Available(spent, active))
        /\ terminal' = [terminal EXCEPT ![a] = "reservation_refused"]
        /\ UNCHANGED <<spent, active>>
    BY <1>2 DEF ReserveRefused, Record
  <2> HIDE DEF e
  <2>2. ExpectedReason(e) = "capacity_exceeded" /\ ExpectedReservation(e) = v
    BY <1>a, <1>b, <2>1 DEF ExpectedReason, ReserveReason, ExpectedReservation, Known
  <2>3. replayed' = ledger'
    BY <1>a, <1>b, <2>1, <2>2 DEF Advance, replayed, ledger, Refusals, e
  <2> QED
    BY <1>d, <2>1, <2>2, <2>3
<1>3. ASSUME NEW v \in Amounts, Reserve(a, v)
      PROVE  replayed' = ledger' /\ Agrees(e)
  <2>1. /\ e.operation = "reserve" /\ e.attempt = a /\ e.reservation = v /\ e.actual = None
        /\ e.reason = None /\ e.post = Snapshot(spent', active', terminal')
        /\ ~Known(a) /\ FitsWithin(v, Available(spent, active))
        /\ active' = [active EXCEPT ![a] = v]
        /\ UNCHANGED <<spent, terminal>>
    BY <1>3 DEF Reserve, Record
  <2> HIDE DEF e
  <2>2. ExpectedReason(e) = None /\ ExpectedReservation(e) = v
    BY <1>a, <1>b, <2>1 DEF ExpectedReason, ReserveReason, ExpectedReservation, Known
  <2>3. replayed' = ledger'
    BY <1>a, <1>b, <2>1, <2>2 DEF Advance, replayed, ledger, Refusals, e
  <2> QED
    BY <1>d, <2>1, <2>2, <2>3
<1>4. ASSUME NEW v \in Amounts, SettleAbsent(a, v)
      PROVE  replayed' = ledger' /\ Agrees(e)
  <2>1. /\ e.operation = "settle" /\ e.attempt = a /\ e.reservation = None /\ e.actual = v
        /\ e.reason = Absent(a) /\ e.post = Snapshot(spent', active', terminal')
        /\ UNCHANGED ledger /\ active[a] = None
    BY <1>4 DEF SettleAbsent, Refuse, Record
  <2> HIDE DEF e
  <2>2. ExpectedReason(e) = Absent(a) /\ ExpectedReservation(e) = None
    BY <1>a, <1>b, <2>1 DEF ExpectedReason, SettleReason, ExpectedReservation, Absent, AbsentReason
  <2> QED
    BY <2>1, <2>2, RecordedRefusal DEF Refusals, Absent, e
<1>5. ASSUME NEW v \in Amounts, SettleOverrun(a, v)
      PROVE  replayed' = ledger' /\ Agrees(e)
  <2>1. /\ e.operation = "settle" /\ e.attempt = a /\ e.reservation = active[a] /\ e.actual = v
        /\ e.reason = "actual_over_reservation" /\ e.post = Snapshot(spent', active', terminal')
        /\ UNCHANGED ledger /\ active[a] # None /\ ~FitsWithin(v, active[a])
    BY <1>5 DEF SettleOverrun, Refuse, Record
  <2> HIDE DEF e
  <2>2. ExpectedReason(e) = "actual_over_reservation" /\ ExpectedReservation(e) = active[a]
    BY <1>a, <1>b, <2>1 DEF ExpectedReason, SettleReason, ExpectedReservation
  <2> QED
    BY <2>1, <2>2, RecordedRefusal DEF Refusals, e
<1>6. ASSUME NEW v \in Amounts, Settle(a, v)
      PROVE  replayed' = ledger' /\ Agrees(e)
  <2>1. /\ e.operation = "settle" /\ e.attempt = a /\ e.reservation = active[a] /\ e.actual = v
        /\ e.reason = None /\ e.post = Snapshot(spent', active', terminal')
        /\ active[a] # None /\ FitsWithin(v, active[a])
        /\ spent' = Plus(spent, v) /\ active' = [active EXCEPT ![a] = None]
        /\ terminal' = [terminal EXCEPT ![a] = "settled"]
    BY <1>6 DEF Settle, Retire, Record
  <2> HIDE DEF e
  <2>2. ExpectedReason(e) = None /\ ExpectedReservation(e) = active[a]
    BY <1>a, <1>b, <2>1 DEF ExpectedReason, SettleReason, ExpectedReservation
  <2>3. replayed' = ledger'
    BY <1>a, <1>b, <2>1, <2>2 DEF Advance, replayed, ledger, Refusals, e
  <2> QED
    BY <1>d, <2>1, <2>2, <2>3
<1>7. ASSUME CancelAbsent(a)
      PROVE  replayed' = ledger' /\ Agrees(e)
  <2>1. /\ e.operation = "cancel" /\ e.attempt = a /\ e.reservation = None /\ e.actual = None
        /\ e.reason = Absent(a) /\ e.post = Snapshot(spent', active', terminal')
        /\ UNCHANGED ledger /\ active[a] = None
    BY <1>7 DEF CancelAbsent, Refuse, Record
  <2> HIDE DEF e
  <2>2. ExpectedReason(e) = Absent(a) /\ ExpectedReservation(e) = None
    BY <1>a, <1>b, <2>1 DEF ExpectedReason, CancelReason, ExpectedReservation, Absent, AbsentReason
  <2> QED
    BY <2>1, <2>2, RecordedRefusal DEF Refusals, Absent, e
<1>8. ASSUME Cancel(a)
      PROVE  replayed' = ledger' /\ Agrees(e)
  <2>1. /\ e.operation = "cancel" /\ e.attempt = a /\ e.reservation = active[a] /\ e.actual = None
        /\ e.reason = None /\ e.post = Snapshot(spent', active', terminal')
        /\ active[a] # None /\ UNCHANGED spent
        /\ active' = [active EXCEPT ![a] = None]
        /\ terminal' = [terminal EXCEPT ![a] = "cancelled"]
    BY <1>8 DEF Cancel, Retire, Record
  <2> HIDE DEF e
  <2>2. ExpectedReason(e) = None /\ ExpectedReservation(e) = active[a]
    BY <1>a, <1>b, <2>1 DEF ExpectedReason, CancelReason, ExpectedReservation
  <2>3. replayed' = ledger'
    BY <1>a, <1>b, <2>1, <2>2 DEF Advance, replayed, ledger, Refusals, e
  <2> QED
    BY <1>d, <2>1, <2>2, <2>3
<1> QED
  BY <1>1, <1>2, <1>3, <1>4, <1>5, <1>6, <1>7, <1>8 DEF Call

\* The operators of the replayed ledger are the ledger's.
LEMMA SameOperators ==
  /\ \A S : Replayed!Cardinality(S) = Cardinality(S)
  /\ \A f : Replayed!SumFunction(f) = SumFunction(f)
<1>1. \A S : Replayed!Cardinality(S) = Cardinality(S)
  BY DEF Replayed!Cardinality, Cardinality
<1>2. \A f : Replayed!SumFunction(f) = SumFunction(f)
  BY DEF Replayed!SumFunction, Replayed!SumFunctionOnSet, Replayed!FoldFunctionOnSet,
         Replayed!MapThenFoldSet, SumFunction, SumFunctionOnSet, FoldFunctionOnSet,
         MapThenFoldSet
<1> QED
  BY <1>1, <1>2

\* A forged event that the replay accepts is a call of the ledger, or malformed.
LEMMA AcceptedStep ==
  ASSUME SoundReplay,
         NEW op \in Operations, NEW a \in Attempts, NEW r \in Amounts \cup {None},
         NEW x \in Amounts \cup {None}, NEW why \in Claims, NEW post,
         NEW e, e = [operation |-> op, attempt |-> a, reservation |-> r, actual |-> x,
                     reason |-> why, post |-> post],
         read' = e, Advance(e), Agrees(e)
  PROVE  Replayed!LedgerNext \/ Malformed
<1>a. /\ e.operation = op /\ e.attempt = a /\ e.reservation = r /\ e.actual = x
      /\ e.reason = why /\ e.post = post
  OBVIOUS
<1>b. /\ r = ExpectedReservation(e) /\ why = ExpectedReason(e)
      /\ post = Snapshot(vspent', vactive', vterminal')
  BY <1>a DEF Agrees
<1>c. /\ \A reason \in Refusals \cup {"malformed_input"} : reason # None
      /\ ReplayAvailable = Available(vspent, vactive)
      /\ vactive \in LedgerState /\ vterminal \in [Attempts -> Fates \cup {None}]
  BY LedgerAssumption, ReplayAssumption, BalanceIsTheLedgers DEF SoundReplay, Sound
<1>d. /\ post = Replayed!Snapshot(vspent', vactive', vterminal')
      /\ \A v, w : Replayed!FitsWithin(v, w) <=> FitsWithin(v, w)
      /\ Replayed!Available(vspent, vactive) = Available(vspent, vactive)
      /\ \A v, w : Replayed!Plus(v, w) = Plus(v, w)
  BY <1>b, SameOperators
     DEF Replayed!Snapshot, Snapshot, Replayed!Held, Held, Replayed!ActiveIn, ActiveIn,
              Replayed!FitsWithin, FitsWithin, Replayed!Available, Available,
              Replayed!Plus, Plus, Replayed!Minus, Minus
<1>e. /\ why = None => op \in {"reserve", "settle", "cancel"}
      /\ op \in {"reserve", "settle", "cancel"}
  BY DEF Operations
<1>f. ASSUME why # None, why # "capacity_exceeded"
      PROVE  UNCHANGED replayed
  BY <1>a, <1>b, <1>c, <1>f DEF Advance, replayed
<1> DEFINE recorded == [operation |-> op, attempt |-> a, reservation |-> r, actual |-> x,
                        reason |-> why,
                        post |-> Replayed!Snapshot(vspent', vactive', vterminal')]
<1>g. read' = recorded
  BY <1>d
<1> HIDE DEF recorded
<1>1. CASE why = "malformed_input"
  <2>1. read'.reason = "malformed_input"
    BY <1>a, <1>1
  <2> QED
    BY <1>1, <1>c, <1>f, <2>1 DEF Malformed
<1>2. CASE op = "reserve" /\ why # "malformed_input"
  <2>1. /\ x = None /\ r \in Amounts /\ r # None
        /\ why = ReserveReason(e)
    BY <1>2, <1>a, <1>b DEF ExpectedReason, ReserveReason
  <2>2. CASE vactive[a] # None \/ vterminal[a] # None
    <3>1. why = "identity_conflict"
      BY <1>a, <2>1, <2>2 DEF ReserveReason
    <3>2. UNCHANGED replayed
      BY <1>c, <1>f, <3>1 DEF Refusals
    <3>3. Replayed!ReserveConflicts(a, r)
      BY <1>2, <1>g, <2>1, <2>2, <3>1, <3>2
         DEF Replayed!ReserveConflicts, Replayed!Known, Replayed!Refuse, Replayed!Record,
             Replayed!ledger, replayed, recorded
    <3> QED
      BY <2>1, <3>3 DEF Replayed!LedgerNext, Replayed!Call
  <2>3. CASE /\ ~(vactive[a] # None \/ vterminal[a] # None)
             /\ ~FitsWithin(r, Available(vspent, vactive))
    <3>1. why = "capacity_exceeded"
      BY <1>a, <1>c, <2>1, <2>3 DEF ReserveReason
    <3>2. /\ vterminal' = [vterminal EXCEPT ![a] = "reservation_refused"]
          /\ UNCHANGED <<vspent, vactive>>
      BY <1>a, <1>b, <1>c, <3>1 DEF Advance, Refusals
    <3>3. Replayed!ReserveRefused(a, r)
      BY <1>2, <1>d, <1>g, <2>1, <2>3, <3>1, <3>2
         DEF Replayed!ReserveRefused, Replayed!Known, Replayed!Record, recorded
    <3> QED
      BY <2>1, <3>3 DEF Replayed!LedgerNext, Replayed!Call
  <2>4. CASE /\ ~(vactive[a] # None \/ vterminal[a] # None)
             /\ FitsWithin(r, Available(vspent, vactive))
    <3>1. why = None
      BY <1>a, <1>c, <2>1, <2>4 DEF ReserveReason
    <3>2. vactive' = [vactive EXCEPT ![a] = r] /\ UNCHANGED <<vspent, vterminal>>
      BY <1>2, <1>a, <1>b, <1>c, <3>1 DEF Advance, Refusals
    <3>3. Replayed!Reserve(a, r)
      BY <1>2, <1>d, <1>g, <2>1, <2>4, <3>1, <3>2
         DEF Replayed!Reserve, Replayed!Known, Replayed!Record, recorded
    <3> QED
      BY <2>1, <3>3 DEF Replayed!LedgerNext, Replayed!Call
  <2> QED
    BY <2>2, <2>3, <2>4
<1>3. CASE op = "settle" /\ why # "malformed_input"
  <2>1. /\ x \in Amounts /\ x # None /\ r = vactive[a]
        /\ why = SettleReason(e)
    BY <1>3, <1>a, <1>b DEF ExpectedReason, SettleReason, ExpectedReservation
  <2>2. CASE vactive[a] = None
    <3>1. why = AbsentReason(a) /\ why = Replayed!Absent(a)
      BY <1>a, <2>1, <2>2 DEF SettleReason, AbsentReason, Replayed!Absent
    <3>2. UNCHANGED replayed
      BY <1>c, <1>f, <3>1 DEF AbsentReason, Refusals
    <3>3. Replayed!SettleAbsent(a, x)
      BY <1>3, <1>g, <2>1, <2>2, <3>1, <3>2
         DEF Replayed!SettleAbsent, Replayed!Refuse, Replayed!Record, Replayed!ledger,
             replayed, recorded
    <3> QED
      BY <2>1, <3>3 DEF Replayed!LedgerNext, Replayed!Call
  <2>3. CASE vactive[a] # None /\ ~FitsWithin(x, vactive[a])
    <3>1. why = "actual_over_reservation"
      BY <1>a, <2>1, <2>3 DEF SettleReason
    <3>2. UNCHANGED replayed
      BY <1>c, <1>f, <3>1 DEF Refusals
    <3>3. Replayed!SettleOverrun(a, x)
      BY <1>3, <1>d, <1>g, <2>1, <2>3, <3>1, <3>2
         DEF Replayed!SettleOverrun, Replayed!Refuse, Replayed!Record, Replayed!ledger,
             replayed, recorded
    <3> QED
      BY <2>1, <3>3 DEF Replayed!LedgerNext, Replayed!Call
  <2>4. CASE vactive[a] # None /\ FitsWithin(x, vactive[a])
    <3>1. why = None
      BY <1>a, <2>1, <2>4 DEF SettleReason
    <3>2. /\ vspent' = Plus(vspent, x) /\ vactive' = [vactive EXCEPT ![a] = None]
          /\ vterminal' = [vterminal EXCEPT ![a] = "settled"]
      BY <1>3, <1>a, <1>b, <1>c, <3>1 DEF Advance, Refusals
    <3>3. Replayed!Settle(a, x)
      BY <1>3, <1>d, <1>g, <2>1, <2>4, <3>1, <3>2
         DEF Replayed!Settle, Replayed!Retire, Replayed!Record, recorded
    <3> QED
      BY <2>1, <3>3 DEF Replayed!LedgerNext, Replayed!Call
  <2> QED
    BY <2>2, <2>3, <2>4
<1>4. CASE op = "cancel" /\ why # "malformed_input"
  <2>1. x = None /\ r = vactive[a] /\ why = CancelReason(e)
    BY <1>4, <1>a, <1>b DEF ExpectedReason, CancelReason, ExpectedReservation
  <2>2. CASE vactive[a] = None
    <3>1. why = AbsentReason(a) /\ why = Replayed!Absent(a)
      BY <1>a, <2>1, <2>2 DEF CancelReason, AbsentReason, Replayed!Absent
    <3>2. UNCHANGED replayed
      BY <1>c, <1>f, <3>1 DEF AbsentReason, Refusals
    <3>3. Replayed!CancelAbsent(a)
      BY <1>4, <1>g, <2>1, <2>2, <3>1, <3>2
         DEF Replayed!CancelAbsent, Replayed!Refuse, Replayed!Record, Replayed!ledger,
             replayed, recorded
    <3> QED
      BY <3>3 DEF Replayed!LedgerNext, Replayed!Call
  <2>3. CASE vactive[a] # None
    <3>1. why = None
      BY <1>a, <2>1, <2>3 DEF CancelReason
    <3>2. /\ vactive' = [vactive EXCEPT ![a] = None] /\ UNCHANGED vspent
          /\ vterminal' = [vterminal EXCEPT ![a] = "cancelled"]
      BY <1>4, <1>a, <1>b, <1>c, <3>1 DEF Advance, Refusals
    <3>3. Replayed!Cancel(a)
      BY <1>4, <1>g, <2>1, <2>3, <3>1, <3>2
         DEF Replayed!Cancel, Replayed!Retire, Replayed!Record, recorded
    <3> QED
      BY <3>3 DEF Replayed!LedgerNext, Replayed!Call
  <2> QED
    BY <2>2, <2>3
<1> QED
  BY <1>1, <1>2, <1>3, <1>4, <1>e

\* A call of the ledger, made on the replayed state, keeps that state sound.
LEMMA ReplayedCallIsSound ==
  ASSUME SoundReplay, NEW a \in Attempts, Replayed!Call(a)
  PROVE  SoundReplay'
<1> USE DEF SoundReplay
<1>a. /\ \A v, w : Replayed!FitsWithin(v, w) <=> FitsWithin(v, w)
      /\ Replayed!Available(vspent, vactive) = Available(vspent, vactive)
      /\ \A v, w : Replayed!Plus(v, w) = Plus(v, w)
  BY SameOperators
     DEF Replayed!Held, Held, Replayed!ActiveIn, ActiveIn,
         Replayed!FitsWithin, FitsWithin, Replayed!Available, Available,
         Replayed!Plus, Plus, Replayed!Minus, Minus
<1>1. CASE UNCHANGED replayed
  BY <1>1 DEF replayed, Sound, FitsWithin, Plus, Held, ActiveIn
<1>2. ASSUME NEW v \in Amounts, Replayed!ReserveRefused(a, v) PROVE SoundReplay'
  BY <1>2, RefusingIsSound DEF Replayed!ReserveRefused, Replayed!Known, Fates
<1>3. ASSUME NEW v \in Amounts, Replayed!Reserve(a, v) PROVE SoundReplay'
  <2>1. v \in Vectors
    BY LedgerAssumption
  <2> QED
    BY <1>3, <1>a, <2>1, ReservingIsSound DEF Replayed!Reserve, Replayed!Known
<1>4. ASSUME NEW v \in Amounts, Replayed!Settle(a, v) PROVE SoundReplay'
  <2>1. v \in Vectors
    BY LedgerAssumption
  <2> QED
    BY <1>4, <1>a, <2>1, RetiringIsSound DEF Replayed!Settle, Replayed!Retire, Fates
<1>5. ASSUME Replayed!Cancel(a) PROVE SoundReplay'
  <2>1. vactive[a] \in Vectors /\ FitsWithin(vactive[a], vactive[a])
    BY <1>5 DEF Replayed!Cancel, Sound, LedgerState, FitsWithin, Vectors
  <2> QED
    BY <1>5, <2>1, RetiringIsSound DEF Replayed!Cancel, Replayed!Retire, Fates
<1>6. \/ UNCHANGED replayed
      \/ \E v \in Amounts : \/ Replayed!ReserveRefused(a, v) \/ Replayed!Reserve(a, v)
                            \/ Replayed!Settle(a, v)
      \/ Replayed!Cancel(a)
  BY DEF Replayed!Call, Replayed!ReserveConflicts, Replayed!SettleAbsent,
         Replayed!SettleOverrun, Replayed!CancelAbsent, Replayed!Refuse, Replayed!ledger,
         replayed
<1> QED
  BY <1>1, <1>2, <1>3, <1>4, <1>5, <1>6

\* The replayed state is sound if it is the same.
LEMMA ReplayUnmoved ==
  ASSUME SoundReplay, UNCHANGED replayed
  PROVE  SoundReplay'
BY DEF SoundReplay, replayed, Sound, FitsWithin, Plus, Held, ActiveIn

\* What one step of the log and its replay establishes.
LEMMA ReplayStep ==
  ASSUME ReplayInv, ReplayNext
  PROVE  ReplayInv' /\ AcceptedIsLedgerStep /\ [LedgerNext]_ledgerVars
<1>1. CASE ReadRecorded
  <2>1. /\ evidence = "ledger" /\ evidence' = "ledger" /\ LedgerNext /\ Advance(event')
        /\ failed' = (failed \/ ~Agrees(event'))
    BY <1>1 DEF ReadRecorded, ReadEvent
  <2>2. replayed = ledger /\ ~failed /\ SoundLedger
    BY <2>1 DEF ReplayInv, RecordedLogsPass
  <2>3. PICK a \in Attempts : Call(a)
    BY <2>1 DEF LedgerNext
  <2>4. replayed' = ledger' /\ Agrees(event') /\ SoundLedger'
    BY <2>1, <2>2, <2>3, RecordedStep, CallIsSound
  <2>5. SoundReplay'
    BY <2>4 DEF SoundReplay, SoundLedger, replayed, ledger
  <2>6. AcceptedIsLedgerStep
    BY <2>1 DEF AcceptedIsLedgerStep
  <2> QED
    BY <2>1, <2>2, <2>4, <2>5, <2>6 DEF ReplayInv, RecordedLogsPass
<1>2. CASE ReadForged
  <2>1. evidence = "forgery" /\ UNCHANGED ledgerVars /\ UNCHANGED evidence
    BY <1>2 DEF ReadForged, ReadEvent
  <2>2. PICK op \in Operations, a \in Attempts, r \in Amounts \cup {None},
             x \in Amounts \cup {None}, why \in Claims,
             post \in {Snapshot(vspent', vactive', vterminal'),
                       Snapshot(vspent, vactive, vterminal)} :
          ReadEvent([operation |-> op, attempt |-> a, reservation |-> r, actual |-> x,
                     reason |-> why, post |-> post])
    BY <1>2 DEF ReadForged
  <2> DEFINE e == [operation |-> op, attempt |-> a, reservation |-> r, actual |-> x,
                   reason |-> why, post |-> post]
  <2>3. /\ read' = e /\ Advance(e) /\ failed' = (failed \/ ~Agrees(e))
    BY <2>2 DEF ReadEvent
  <2>4. ~failed /\ SoundReplay
    BY <1>2 DEF ReadForged, ReplayInv
  <2>5. SoundLedger' /\ RecordedLogsPass'
    BY <2>1, StutterIsSound DEF ReplayInv, RecordedLogsPass, ledgerVars
  <2>6. ASSUME Agrees(e) PROVE (Replayed!LedgerNext \/ Malformed) /\ SoundReplay'
    <3>1. Replayed!LedgerNext \/ Malformed
      BY <2>3, <2>4, <2>6, AcceptedStep
    <3>2. SoundReplay'
      BY <2>4, <3>1, ReplayedCallIsSound, ReplayUnmoved DEF Replayed!LedgerNext, Malformed
    <3> QED
      BY <3>1, <3>2
  <2>7. AcceptedIsLedgerStep
    BY <2>3, <2>6 DEF AcceptedIsLedgerStep
  <2> QED
    BY <2>1, <2>3, <2>4, <2>5, <2>6, <2>7 DEF ReplayInv
<1> QED
  BY <1>1, <1>2 DEF ReplayNext

\* A step that changes nothing of the log and its replay.
LEMMA ReplayStutter ==
  ASSUME ReplayInv, UNCHANGED allVars
  PROVE  ReplayInv'
<1>1. SoundLedger' /\ RecordedLogsPass' /\ failed' = failed
  BY StutterIsSound DEF ReplayInv, RecordedLogsPass, allVars, ledgerVars, replayed, ledger
<1>2. SoundReplay => SoundReplay'
  BY DEF SoundReplay, Sound, FitsWithin, Plus, Held, ActiveIn, allVars, replayed
<1> QED
  BY <1>1, <1>2 DEF ReplayInv

\* Whatever log is recorded or forged: the ledger is sound, its own log passes,
\* and as long as no failure is found the replayed state is sound.
THEOREM ReplayInvariance == ReplaySpec => []ReplayInv
<1>1. ReplayInit => ReplayInv
  <2> SUFFICES ASSUME ReplayInit PROVE ReplayInv
    OBVIOUS
  <2>1. SoundLedger
    BY InitIsSound DEF ReplayInit
  <2>2. vspent = spent /\ vactive = active /\ vterminal = terminal /\ ~failed
    BY DEF ReplayInit, LedgerInit
  <2> QED
    BY <2>1, <2>2 DEF ReplayInv, RecordedLogsPass, replayed, ledger, SoundReplay, SoundLedger
<1>2. ReplayInv /\ [ReplayNext]_allVars => ReplayInv'
  BY ReplayStep, ReplayStutter
<1> QED
  BY <1>1, <1>2, PTL DEF ReplaySpec

\* The ledger whose log is recorded never overcommits.
THEOREM CapacityIsConserved == ReplaySpec => []Conserved
<1>1. ReplayInv => Conserved
  BY DEF ReplayInv, SoundLedger, Sound, Conserved
<1> QED
  BY <1>1, ReplayInvariance, PTL

\* In the ledger whose log is recorded a retired attempt id never comes back, and
\* only settlements are charged.
THEOREM RetirementIsFinal == ReplaySpec => RetiredForGood
<1>1. ReplayInv /\ [ReplayNext]_allVars => [ChargesOnlySettlements]_ledgerVars
  <2> SUFFICES ASSUME ReplayInv, [ReplayNext]_allVars PROVE [ChargesOnlySettlements]_ledgerVars
    OBVIOUS
  <2>1. [LedgerNext]_ledgerVars
    BY ReplayStep DEF allVars
  <2> QED
    BY <2>1, CallRetiresForGood DEF ReplayInv, LedgerNext
<1> QED
  BY <1>1, ReplayInvariance, PTL DEF ReplaySpec, RetiredForGood

\* The condition of ReplayIsExact on one step.
ExactStep == RecordedLogsPass' /\ AcceptedIsLedgerStep

\* The replay passes a log exactly if a ledger could have recorded it.
THEOREM ReplayAcceptsExactly == ReplaySpec => ReplayIsExact
<1>1. ReplayInv /\ [ReplayNext]_allVars => [ExactStep]_allVars
  BY ReplayStep DEF ExactStep, ReplayInv
<1>2. ReplaySpec => [][ExactStep]_allVars
  BY <1>1, ReplayInvariance, PTL DEF ReplaySpec
<1> QED
  BY <1>2 DEF ExactStep, ReplayIsExact
=============================================================================
