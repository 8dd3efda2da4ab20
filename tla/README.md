# Finite Agent Physics: a verification project

TLA+ specifications of the core logic of this repository, the TLC configurations
that model-check them on small instances, and theorems about eight components (effect
kernel, run store, executor, resource ledger, provider quota, artifact store, control plane,
adaptive run)
that TLAPS checks for every value of the constants. All source paths below are under
`src/agent_physics/` of the repository unless they start with `docs/`.

Contents: [the system](#the-system), [hard behaviours](#what-is-hard),
[modules](#modules), [runs](#runs), [properties](#what-the-properties-say),
[bounds](#bounds), [fairness](#fairness), [proofs](#proofs),
[disagreements](#where-the-code-and-its-documents-disagree),
[met while modelling](#met-while-modelling),
[what is not modelled](#what-is-not-modelled), [plan](#plan).

## The system

The program runs graphs of tasks ("workflows") under declared finite limits:
deadlines, budgets, provider rates, permissions and effects. It is a Python
library with a command line, an HTTP control API and SQLite files as its only
durable state. Each SQLite file is written in `BEGIN IMMEDIATE` transactions;
one transaction is one atomic step in every module here.

| Component | State it keeps | Operations | Talks to |
|---|---|---|---|
| **Effect kernel** `effects.py` | intent rows (lifecycle state, fence owner and version, grant), spent grants, outbox, the simulated target | propose, prepare, acquire_fence, approve, commit, compensate, abort | called by the executor (propose), the MCP server, the control API and recovery scripts |
| **Run store** `run_store.py` | run definitions, append-only events with unique ids | get_or_create_run, append_event, start_attempt, complete_attempt, completed_tasks | every executor of the run; two processes may share the file |
| **Fixture executor** `executor.py` | in memory: the coroutine of each task, permits, a shared cancellation signal; durable: the run store and the effect kernel | execute (also to resume) | run store, effect broker, workers (awaited, may never return) |
| **Scheduler** `scheduler.py`, `feasibility.py`, `graph.py` | of one call: clock, running tasks, usage, log | schedule, analyze | its result feeds the verifier, the admissions, the explanations |
| **Conservation ledger** `ledger.py`, `events.py` | none | verify_conservation over a result | scheduler, executor admission |
| **Admission** `executor.py`, `adapter_capabilities.py`, `profile_snapshot.py`, `physical_resources.py` | none | what stands between a schedule and the first call | executor, adaptive controller |
| **Replanning** `replanning.py` | a durable state: completed, skipped, sealed effects, settled usage, limits | replan: one disturbance and one snapshot | scheduler |
| **Adaptive controller** `adaptive_runtime.py` | a pure reducer's state in a log of revisions; dispatches and outputs in the run store | reduce an event, dispatch_next, recover_unknown_inflight, cancel | the control service drives it |
| **Control service and API** `control_service.py`, `control_api.py` | per run: a session (gate, change event, cancellation, lock), the drive task; accepted control events | execute, resume_existing, adaptive_control, cancel, approve, event stream | adaptive controller, run store, effect broker, HTTP clients |
| **Resource ledger** `resource_ledger.py` | spent, active and terminal attempts, a hash-chained log | reserve, settle, cancel, replay_and_verify | a budget the schedulers' claims are tested against |
| **Provider quota** `provider_quota.py` | four token buckets, leases, retry state per call, the provider's reset | acquire, complete, fail_retryable, provider_429, replay_quota_events | callers that move its clock |
| **Artifact store, claims, contexts** `artifact_store.py`, `artifacts.py`, `context.py` | content-addressed artifacts with lineage and provenance | put, get, verify_all; assess a claim; pack a context | executor outputs, context obligations |
| **Whole-run verifier** `whole_run_verifier.py` | none | verify a sealed package of a run's evidence | packages from a producer who is not trusted |
| **Explanations** `decision_explanations.py` | none | explain_schedule, verify | the scheduler's log |
| Workflow documents, wrappers, harnesses, command line, MCP server, evidence bundles, console | none of their own | parse, drive, report | everything |

`PROJECT.json` lists all 26 components with their files and status.

### What makes each component correct

* *Effect kernel*: a target is changed at most once per intent, however commits
  crash, are retried and are taken over; a change that cannot be undone happens
  only under an authentic, unexpired, single-use approval of exactly that
  effect; stale brokers cannot act; what consumers read in the outbox is what
  happened to the row.
* *Run store*: an attempt belongs to one process; a task is completed once and
  by an attempt that succeeded.
* *Executor*: calls are bounded across restarts; a task starts after its
  dependencies; nothing is called after a verdict; a run is only continued by a
  process that was given the definition it was admitted with; each attempt gets at
  most one outcome; completed means settled effects; every execution returns even
  if a worker ignores its cancellation.
* *Scheduler and its readers*: the loop returns; each schedule passes a verifier that
  shares no code with it; promised work stays affordable at every step; what is admitted
  fits every limit whichever tasks run together; every event can be explained from the
  log alone.
* *Replanning*: no revision loses a fact, repeats an effect that may be under way, or
  offers a plan that breaks a promise or a limit of the original run.
* *Adaptive run*: each task is called at most once in the life of the run, all
  calls are charged once, completion implies all mandatory outputs, a restarted
  runtime can replay whatever was recorded, a driven run ends unless something holds it up.
* *Control plane*: one driver per run and a bounded number of them, control events
  accepted in order, in their place and within their limit, streams without gaps,
  requests vetted before anything is read.
* *Resource ledger*: spent plus reserved stays within the budget in every unit,
  ids are never reused, and the replay accepts exactly the logs of a ledger.
* *Provider quota*: no window admits more than its limits whatever is settled
  late, slots are leases, retries obey deadline, backoff and reset, and the
  replay accepts exactly the logs of a quota.
* *Evidence*: what is stored stays with its ancestry; an audit passes exactly what is
  intact; a packed context is enough; a package that is accepted tells a run that could
  have happened.

### What is hard

`PROJECT.json` "hazards" lists these at the lines where they bite; in groups:

1. *Process death between two durable steps.* A commit dies behind the target
   (`effects.py:939`), a compensation likewise (`effects.py:990`); an executor dies between a proposal and its event
   (`executor.py:1187`) or leaves attempts open (`executor.py:963`); a
   coordinator dies between dispatch, start, output and settlement
   (`adaptive_runtime.py:1684`) or before `run.started` (`control_service.py:469`).
2. *Interleaving.* Two brokers with stale tokens or one grant; two processes that
   number attempts of one task; two clients that initialize one store
   (`artifact_store.py:202`), an audit beside puts (`artifact_store.py:456`); coroutines that share a
   cancellation signal (`executor.py:712`); a control event that waits for the lock of a session a
   recovery has replaced (`control_service.py:564`); a wake-up cleared outside the lock
   (`control_service.py:434`); a stream that reads the events and then the status (`control_api.py:1366`).
3. *Time.* A grant that expires between approval, application and recovery; deadlines
   of tasks and of the run; evidence that expires while a run is down; a grace period that
   leaves workers running; a retry promised before a provider's reset moved.
4. *Stale input.* A run continued with another graph or configuration
   (`run_store.py:487`); a snapshot or a schedule of an earlier revision (`replanning.py:883`);
   profiles chosen on evidence for others (`executor.py:421`).
5. *Partial failure.* One task fails while siblings are calling; an optional
   failure records `run.failed` although the run goes on; one fact of an explanation does not
   hold and the whole is refused (`decision_explanations.py:1239`).
6. *Numbers at a boundary.* The cheapest future of the mandatory tasks
   (`scheduler.py:445`); overruns, refunds into a refilled window, the last slot, caps
   cut below what is committed; 64-bit totals (`physical_resources.py:346`).
7. *Replays and verifiers.* Validators that decide again what a log claims: one forgotten rule
   accepts a log with an altered, dropped or moved event, or refuses a genuine one.

## Modules

| Module | Models | State | Role |
|---|---|---|---|
| `EffectKernel` | `effects.py` | rows (`state`, `op`, `fence`, `owner`, `grantId`), `outbox`, `spent` grants, the target (`applied`, `applies`, `undone`, `highest`), `token` per broker, issued grants, clock | one action per broker method, one per way `commit` and `compensate` can end |
| `EffectPromise` | – | `outcome`, `applied`, `authorised` per effect | abstract specification the kernel implements |
| `RunStore` | `run_store.py` | `calls`, `events` | operators of the ledger, used by the next two |
| `SharedRunStore` | `run_store.py` under two processes | + `holds` per client | what the ledger alone guarantees |
| `Executor` | `executor.py` over `RunStore` and the kernel's answers | durable: ledger, `created`, `manifest`, `intent`; volatile: `phase`, `outputs`, `job`, signals; the `setup` of the process | every stretch between two awaits is one action |
| `ExecutionPromise` | – | `plan`, `tried`, `done`, `verdict` | abstract specification the executor implements |
| `WorkGraph` | `contracts.py`, `graph.py` | | graphs, envelopes, usage |
| `Conservation` | `ledger.py`, `feasibility.py` | | the verifier of a schedule and the certificate |
| `Scheduler` | `scheduler.py` | clock, pass, running tasks, entries, usage, log | one action per decision of the loop |
| `Admission`, `PhysicalResources`, `ProfileSnapshots` | admission in `executor.py` and `adaptive_runtime.py`; `adapter_capabilities.py`, `physical_resources.py`, `profile_snapshot.py` | | functions of a finished schedule |
| `Explanations` | `decision_explanations.py` | | functions of a schedule's log |
| `ScheduleReports` | – | | composes the scheduler with the last two rows, states what they must agree on |
| `Replanning` | `replanning.py` over `Scheduler` | + `origin`, `durable`, `request`, `decision` | accepts or refuses a disturbance, decides when the schedule returns |
| `AdaptiveController` | the reducer in `adaptive_runtime.py` | operators over a controller state | |
| `AdaptiveService` | runtime, `control_service.py`, control part of `control_api.py` | durable `ctl`, `began`, `called`, `output`, `verdicts`; volatile `drive` and its flags | coordinator, worker, operator, crash |
| `AdaptiveReplay` | parsers and replay in `adaptive_runtime.py` | | what a restarted runtime accepts, over every step of the service |
| `ControlApi` | `control_api.py`, sessions of `control_service.py` | durable `log`, `reduced`, `intent`; in memory `session`, `registered`, `active`; `stream` per client | submissions, control events, recoveries, cancellation, approval, streams, crash |
| `HttpFront` | `control_api.py`, `__call__` | | the vetting of one request, as a function |
| `ResourceLedger` | `resource_ledger.py` | `spent`, `active`, `terminal`, last `event` | one action per operation and refusal |
| `LedgerReplay` | `replay_and_verify` beside a ledger | + replayed state, `failed` | replay of a genuine or a forged log, refined to `ResourceLedger` |
| `ProviderQuota` | `provider_quota.py` | `quota`, clock, history `calls` | one action per operation and refusal |
| `QuotaReplay` | `replay_quota_events` beside a quota | + `vquota`, `vnow`, `raised` | replay in lock-step, and of forged next events |
| `Evidence` | `artifacts.py`, `context.py` | | identity, lineage, claims, packing, as functions |
| `ArtifactStore` | `artifact_store.py` | `version`, `rows`, `links`, `origins`; clients' `session`, `audit`, `packed` | opening, put, get, audit, packing, alteration of the file |
| `WholeRun` | `whole_run_verifier.py` | the package as far as it was read: `log`, `seal`, `phase` | the forger offers, the verifier reads |
| `EffectKernelProofs`, `ExecutorProofs`, `QuotaReplayProofs`, `ArtifactStoreProofs`, `ControlApiProofs`, `AdaptiveProofs` | – | | the theorems about the module each is named for and about those it extends; `ExecutorProofs` also those about `SharedRunStore` and `LedgerReplay`, `EffectKernelProofs` those about `WholeRun` |
| `ScheduleProofs` | – | | the theorems about `Scheduler` with its verifier, certificate and explanation, and about `Replanning` |
| `SumLemmas` | – | | what the community modules' sums compute, for all of these, and that there is a least set or number |
| `MC…` | – | | instances of the above |

Composition: `RunStore` is extended by `SharedRunStore` and `Executor`;
`Executor` composes the run ledger with the intents of the effect kernel, whose
other callers are the action `BrokerMoves` ("prepared" there stands for every
state between proposal and settlement). `Scheduler` extends `Conservation` and
`WorkGraph`; `ScheduleReports` and `Replanning` extend `Scheduler`, the first to read
what it returned, the second to run it between two decisions. `AdaptiveService` extends
`AdaptiveController`, and `AdaptiveReplay` extends both; `ArtifactStore` extends `Evidence`;
`ControlApi` extends `HttpFront`;
each replay extends the component whose log it reads. `WholeRun` judges the lives of effects by an
automaton of its own, which follows the lifecycle of `EffectKernel`.

### How state and actions correspond to the code

**EffectKernel.** One variable per column or table that matters; payloads are the
operation they ask for, an operation has an effect class. A broker object is its
process's token. `Commit` is a disjunction over how one call of `commit` ends: replayed,
reconciled after an ambiguous answer, applied, ambiguous (the armed faults lose the
acknowledgement before or after the application), or crashed - in which case SQLite
rolls back the row, the grant and the outbox row while the target keeps the
application. `compensate` writes to the target inside a transaction too, so it is a pair:
`Compensate`, and `CompensateCrashed`, which leaves the target undone and the row as it was. The
target takes the undoing of one application once and says of a repetition that it did nothing;
either way the row ends compensated. Grants are issued for any scope, signed for another issuer, or mis-scoped,
and age with the clock. `Lifecycle` in the module lists the transitions an outbox
consumer can see; docs/effect-kernel.md:6-13 does not list ambiguous to compensated,
which the code allows.

**Executor.** asyncio runs a coroutine without interruption between two awaits, so an
action is one such stretch of the main loop or of a task coroutine. The stretch that
makes several transactions has a companion action that dies between them. A process is
started with a `setup` of its own: graph, writes, retry policy, and until when its
profile evidence is valid. `SameRun` is what `get_or_create_run` compares with the
recorded definition, and `Refused` the call that raises on it, on expired evidence or on a
verdict. `Conflicts`
is the `EventConflict` a second, different body for one event id raises; it is what
makes a re-proposal after a crash or a second `run.awaiting_effects` fail. The crash of a
process between `get_or_create_run` and `run.started` is the same as one before,
because the next execution repeats both.

**Scheduler, Conservation.** The method is one loop; an action is one decision of it,
so that an invariant can look at the state between two of them. Probabilities are
powers of two, whose products are sums. The verifier is a conjunction of its checks over
the returned record and shares with the scheduler only the graph.

**Replanning.** A caller may hand in any disturbance with any snapshot of a small set. What
the code raises on leaves the state as it was and is no step; what it refuses is a
decision. Between acceptance and decision the steps of `Scheduler` compute the schedule
of the residual graph.

**AdaptiveService.** `ctl` is `AdaptiveState` without revision and digest. Tasks are
`1..N` in the controller's priority order. `Coordinator` is the drive loop with its awaits
(validation, gate, dispatch, settlement, park); `Worker` the awaited adapter;
`Operator` the HTTP handlers; `Crash` the loss of everything volatile. Recovery is
the control event `coordinator.recover` at a later time, possibly repeated.
`AdaptiveReplay` reads off each step the event `_append_transition` records with it and
asks whether parser and reducer would take it back.

**ControlApi.** Several runs, sessions that are created, retired and replaced, and
requests that wait for a session's lock. Of the reducer's state only the status and whether
a task is in flight are kept, and its transitions are counted; what they do is
`AdaptiveService`'s matter. `HttpFront` has no state: it is the function from a configuration,
a request and a body to a status and the number of bytes read: headers, lengths that are absent,
malformed or wrong, bodies that break off, and preflight requests included. `RequestsAreVetted`
quantifies over all of them; the formula says so of the initial states, so that it is evaluated once.
A client's `seen` is the sequence of what it was sent, repetitions included. `RecoverRefused` is
a recovery that is refused after its session was made; `ResumeOrphan` a `resume` sent to a
run without a session, which makes one, and adds to the log or is refused, but drives nothing.

**ResourceLedger, ProviderQuota.** The classes are sequential, so an action is a
method call; the event of the call is the record the replay reads. A quota step first
moves the clock by any amount, because the clock belongs to the caller.

**ArtifactStore.** A put is one transaction; opening is two steps, because the schema
script commits the transaction it is run in; `verify_all` is one step per query. The packer
sorts its candidates by density and breaks ties by name; in `Evidence` the selection is a fold
that takes the densest candidate last off and first in, and which of two equally dense ones comes
first is left to `CHOOSE`, because no property tells them apart.

**WholeRun.** Every check of the verifier is a conjunct of its verdict, so it is made as
soon as its outcome is fixed: a package is offered event by event and a reading that
fails stops. An accepted package is one that was read to its end.

## Runs

Each run checks the properties in its `.cfg`; `PROJECT.json` pairs every property
of a passing run with a mutation of a modelled definition that TLC finds to
violate it under the same `.cfg` (the mutated operators are in the modules, marked
"Mutant"). Run one with `tlc -workers 2 -config X.cfg M`.

| Run | Module, cfg | What it shows |
|---|---|---|
| `effect_kernel` | `MCEffectKernel`, `EffectKernel` | Two brokers contest one intent of any class, with stale tokens, takeovers, crashing commits and compensations, armed faults, two grants that may be mis-scoped or expired (703,797 states, about 2 min) |
| `run_store_shared` | `MCSharedRunStore`, `SharedRunStore` | Two processes without a lease on the run (185,758 states) |
| `executor` | `MCExecutor`, `Executor` | Two graphs: two fixtures that share one permit with a write after both, and a fixture with a circuit breaker beside one of two effects. Workers that may never answer, one process death at any await, and a process restarted with either graph and configuration (685,124 states, about 3 min) |
| `scheduler` | `MCScheduler`, `Scheduler` | Every plan of four shapes of three tasks with optional work, deadlines, effects and tight budgets, under three policies, scheduled to its end, verified, admitted or refused, and explained (145,442 states) |
| `replanning` | `MCReplanning`, `Replanning` | Two disturbances of a run, each with any snapshot a caller may hand in, stale ones included; the run may be bound with work that is over already (43,805 states) |
| `replanning_typed` | `MCReplanning`, `Replanning_typed` | Expects a violation, see [below](#where-the-code-and-its-documents-disagree) |
| `adaptive` | `MCAdaptive`, `Adaptive` | Three workflows, two control events, worker failures, cancellation, crash and recovery at every step, and the replay of what each step recorded (190,872 states) |
| `control_api` | `MCControlApi`, `ControlApi` | Two runs for one place, control events that queue behind a dispatch, recoveries, cancellation, an approval, a stream that reconnects, failures and crashes; and every request before it reaches a handler (2,119,910 states, about 2 min) |
| `resource_ledger` | `MCLedgerReplay`, `LedgerReplay` | Three attempts in every order, and the replay of a genuine or a forged log (20,736 states) |
| `provider_quota` | `MCProviderQuota`, `ProviderQuota` | Three calls, retries, resets and deadlines across windows of different length, with the replay in step (10,368 states, about 2 min) |
| `artifact_store` | `MCArtifactStore`, `ArtifactStore` | Clients open, fill, read and audit one store, crash and pack contexts, and someone alters the file once (804,574 states) |
| `whole_run` | `MCWholeRun`, `WholeRun` | Whatever package a forger offers: of effects and a grant, of a task with its context, of claims (330,812 states) |

## What the properties say

* **Effects.** `AppliedOnceAsProposed`: the rows and the target tell one story, of an
  effect that happened once: applied at most once and as proposed; undone only after it was applied,
  once, by a compensation that the row may not have kept; and undone whenever the row says
  compensated. `ApprovalIsBinding`: grants and irreversible intents are matched
  one to one, and nothing irreversible is at the target without its grant. `FencesAgree`,
  `OutboxIsTheHistory` (invariants); `AppliedWithinValidity` (action property);
  `KeepsPromise` (refinement of `EffectPromise`); `PolicyEffectsSettle` (liveness: a
  reversible or idempotent effect that reached the target is settled as long as its commit
  is retried).
* **Run store.** `TheLedgerArbitrates`: an attempt has one owner and one outcome, a task one
  completion, and it is that of an attempt that succeeded.
* **Executor.** `AttemptsSettleOnce`; `DoneIsDurable` (what the process believes done is in
  the ledger, and completed means settled effects); `KeepsPromise` (refinement of
  `ExecutionPromise`, whose calls are bounded by the plan the run was admitted with);
  `ExecuteReturns` (liveness).
* **Planning.** `SchedulesAreConserved`, `MandatoryStaysAffordable` (between any two
  decisions some choice of profiles pays for all promised work), `CertificateMeansItsStatus`,
  `AdmissionIsExact` (against unbounded arithmetic and every set of tasks that could run
  together), `EveryDecisionIsExplained`. The run also looks for deadlock: the loop has no
  other end than its returns, and its branch "scheduler deadlock" is never taken.
* **Replanning.** `PromisesAreKept`, `PlansFitTheRun` (invariants), `HistoryOnlyGrows`
  (action property).
* **Adaptive run.** `EveryCallIsPaid` (each task is called at most once in the life of the
  run and every call is charged once), `StopsForCause` (a drive sleeps only for a provider;
  completed means the mandatory outputs are there, and is the last word), `HistoryReplays` and
  `OwnProgressIsSafe` (action properties), `DriveEnds` (liveness).
* **Control plane.** `OneDriverEach`, `ControlsAreOrderly` (within the limit, and each directly
  behind the revision it named); `RequestsAreVetted` (no byte is read of a request that is
  refused for its origin, credential, route, method or query; of a body no more is kept than its
  limit and one piece, and what is served is a whole body within it); `StreamsTellAll` (action property: what a client was sent is what was
  recorded, in order and each event once, and all of it when its stream ends with a verdict).
* **Resource ledger.** `Conserved`; `RetiredForGood`, `ReplayIsExact` (action properties: a
  genuine log never fails, and each step the replay accepts of a forged one is a step of the ledger).
* **Provider quota.** `AccountsAreExact` (what is missing from a bucket is what the
  attempts of its own window hold or used, and slots are leases), `ReplayIsExact`;
  `RetriesKeepTheRules` (action property).
* **Evidence.** `AuditIsExact`, `PackedIsEnough`; `LineageIsForGood` (action property);
  `EffectsAreLives` and `WorkIsGrounded` of every package the verifier accepts.

The replay of the resource ledger accepts one thing a ledger does not record: an event
marked `malformed_input`, which has no effect. `ReplayIsExact` says so.

## Bounds

Every bound is a constant named as such in its module or a set of the MC module, and a guard uses it.

* *Effects*: one key, because rows, fences and outbox events of two keys do not touch
  each other; what they share are grants, and a grant that fits another key is among the
  mis-scoped grants of the instance (and theorem `ApprovalBinds` covers any set of keys).
  Two brokers make every stale-token order; three fences allow prepare and two
  takeovers; times 0..2 with lifetime 1 let a grant be issued, valid and expired at
  each step.
* *Executor*: three tasks give concurrency, a dependency and two effects of one run; a
  run is created only while its deadline is still within the clock's bound, so
  deadlines are always reached; one crash makes one lost and one resumed execution. One setup has
  two attempts, the other three, so that a threshold of two reaches the circuit in one of them
  before the limit; one's evidence expires early, the other's never, and each may be handed to a
  run the other began.
* *Run store*: two clients, two tasks, three attempts: the race for a number and the race
  for a completion need two of each.
* *Scheduler*: four shapes (independent, fork, join, chain) with every pattern of optional work
  that matters to protection, two profiles per task that trade one unit for another, budgets that
  are exact or one short for some plan. Totals are held to 14 so that 64-bit overflow is reached
  by sums of three.
* *Replanning*: a run is bound to its graph with any of the snapshots that validate, so with
  completed, skipped, sealed and settled work; two revisions, since a stale snapshot needs an earlier revision; snapshots and
  disturbances are sets that contain consistent, stale and contradictory ones.
* *Ledger*: vectors that fit in one unit and not in the other; three attempts reach
  exhaustion, refund and refusal. Forgeries are arbitrary event sequences.
* *Quota*: windows 1 and 2 so that they roll together and apart; room for two
  concurrent leases and two to three requests against three calls; reports under and
  over the cap; one reset shorter than the other, so that a later reset can be the shorter
  one; a deadline that a backoff or a reset may pass. A forged event is one next event
  after any genuine log, not a forged log: the state before it is then known.
* *Adaptive*: three tasks in priority order, as a chain with an optional task, as an
  optional task protected by a mandatory write, and as an optional task that depends on a
  less valuable one; deadlines and caps without slack; two control events, recovery
  included.
* *Control plane*: one place and two runs, of which the second never starts and gives its place up
  again; two sessions per process, the second made by a recovery; two control events, so that
  one can be refused for the limit. Bodies come in up to three pieces of one or two bytes for a
  limit of two, so that a body can pass the limit with its first, second or third piece.
* *Artifact store*: a parent that ages, its child, and an unrelated artifact; two clients, one
  alteration; budgets that hold everything, just the required, or less.
* *Whole run*: six events are enough for an effect with its grant from start to end, for a task
  with two attempts, and for a completion that owes two validations; the artifact sets and times are
  of size two. An event may have whichever causes some check reads; others would be ignored.

Calls that raise or return without a write change nothing and are stuttering steps.

## Fairness

* *Effects* (`Retries`): weak fairness of reading the current token and strong fairness
  of `Commit`. The kernel has no scheduler of its own; recovering callers read the intent
  and repeat the commit, as production_survival.py:585-592 and mcp_server.py:413 do.
  Strong fairness, because a takeover or a crash may disable the commit in between.
* *Executor*: the event loop runs what is runnable (weak fairness of the main loop and of
  the ready coroutines), the clock and the timers go on. Nothing is assumed of workers,
  of permits, of other actors or of the supervisor that restarts a process.
* *Adaptive*: the coordinator task proceeds when nothing it awaits is missing, and a
  worker that was called returns. The second is an assumption about the adapters: nothing
  in this runtime ends a call that does not return. The formula is `WF_vars(Coordinator)`
  and `WF_vars(Worker)` with the enabling conditions written out as `CanProceed` and
  `drive = "working"`; that `CanProceed` is `ENABLED Coordinator` was model-checked on
  the same instance.
* The scheduler's termination is an absence of deadlock in an acyclic state graph and needs no fairness.
* The other modules carry safety properties only.

## Proofs

Seven modules named for the component they are about, and `SumLemmas`, are checked by TLAPS
(`tlapm M.tla`; each takes a few minutes), for all values of the constants that satisfy the named assumptions of the
modules. Every inductive invariant below was first checked by TLC on the instance of the
component's run.

The assumptions say what the constants are, as the code makes sure of it or Python's types do:
`ConstantsAssumption` (effects: operations have classes, lifetimes are positive, null values
lie outside their sets), `StoreAssumption`, `SharedAssumption` and `ExecutorAssumption`
(tasks are numbered, every setup is one of a validated graph, with positive limits),
`LedgerAssumption` (attempts and units are finitely many, amounts are vectors of natural numbers),
`ReplayAssumption`, `QuotaAssumption` (the four limits and the retry policy are as
`provider_quota.py` validates them), `EvidenceAssumption` and `RequestsAssumption` (sizes are
positive, values are not negative, an obligation names finitely many things),
`ControlAssumption` and `FrontAssumption` (limits are positive, sizes of pieces are natural
numbers); for planning, `PlansAssumption`,
`SnapshotsAssumption` and `DisturbancesAssumption`, which give fields their Python types only (a
deadline is an integer, tasks are finitely many) and leave what the code validates to the guards
that model it; `ForgersAssumption` likewise (amounts and times are integers). TLC evaluates each of them in some run.

### Effect kernel

    IInv == TypeOK /\ RowsWellFormed /\ TargetHoldsTheIntent /\ PhysicalAtMostOnce
            /\ GrantsBindOneIntent /\ IrreversibleIsGranted /\ FencesAgree

The invariants the run checks are not inductive alone. `RowsWellFormed` is the missing
part: exactly the absent rows have no operation, no fence is taken before `prepare`,
before approval there is neither a grant nor an application, and only the null token has
version zero. `PhysicalAtMostOnce` says of the target that an intent is applied once at most,
undone once at most and only if it was applied and is reversible, and undone if its row is
compensated. It does not say that the row is compensated if the target is undone: a
compensation may be rolled back behind the target. It needs `TargetHoldsTheIntent`, since the target refuses a
second application only because it holds the first, and a crashed commit relies on that too;
`IrreversibleIsGranted` needs `RowsWellFormed`. One lemma per conjunct goes through the
actions one by one; `StepIInv` combines them. The outbox has an invariant of its own,
`HistoryInv`: the history of each row, and no event of a row that was never proposed.

| Theorem | Statement |
|---|---|
| `TypeCorrect`, `TargetAgrees`, `AtMostOnce`, `GrantsMatch`, `NoUngrantedApplication` | the conjuncts of `IInv`, always |
| `OnceAsProposed` | `Spec => []AppliedOnceAsProposed` |
| `ApprovalBinds` | `Spec => []ApprovalIsBinding` |
| `FencingCoherent` | `Spec => []FencesAgree` |
| `OutboxFaithful` | `Spec => []OutboxIsTheHistory` |
| `AuthorisedWhenApplied` | `Spec => AppliedWithinValidity` |
| `Refinement` | `Spec => KeepsPromise`: every step of the kernel is a step of `EffectPromise` or a stutter |

### Whole-run verifier

`ReadingInv` is what the verifier knows of what it has read, a package of any length from any
forger: of each event its shape, that its causes are earlier and its evidence was emitted
before it (`ChainKept`); that the totals fit (`MoneyKept`); and of each record what it was held to
(`SealKept`). `EffectsAreLives` needs two arguments on top of it, both at the moment of acceptance.
A grant for an effect is *its* grant, because every grant has a record, every record has exactly one
user, and the user is the effect the record names (`GrantsAreUsed`); so the proposal, the grant
and the ends that the record names are all events of the effect (`RecordsNameAll`), and their order is that of
the causes. Then the life, a recursion over the log, is at every position what the
milestones say (`LifeIsLed`, by a least position at which it is not).

| Theorem | Statement |
|---|---|
| `ReadingIsSound` | `VerifySpec => []ReadingInv` |
| `LivesAreTold` | `VerifySpec => []EffectsAreLives` |
| `WorkStandsOnGround` | `VerifySpec => []WorkIsGrounded` |

### Run store and executor

The last part of `ExecutorProofs` is about the store alone (`SharedRunStore`, whose specification
is `SharedSpec`), for any number of clients. Its invariant adds that no event names an attempt that
was not numbered and that a success and its completion are one transaction's.

The executor has one invariant of nine parts for its three results: a process on a run
has the setup it was admitted with; coroutines exist only inside the loop; nothing follows a
verdict; the ledger's completions are those the loop has or is about to collect
(`LedgerIsCollected`); what a coroutine has left of its retries is what the durable attempts leave
of its plan (`CallsAreCounted`); one outcome per attempt; at most one attempt of a task is
lost per process death (`FewAreLost`); a completed run has its effects settled. The 30 actions
fall into a few shapes by what they do to the ledger and to the coroutines, each with a lemma.

| Theorem | Statement |
|---|---|
| `LedgerArbitrates` | `SharedSpec => []TheLedgerArbitrates` |
| `OutcomesAreUnique` | `Spec => []AttemptsSettleOnce` |
| `CompletionIsDurable` | `Spec => []DoneIsDurable` |
| `Refinement` | `Spec => KeepsPromise`: every step of the executor is a step of `ExecutionPromise` or a stutter |

### Resource ledger and quota

What is held or charged is a sum over a set of attempts, which the community modules define by
recursion over sets. No prover here can instantiate an induction theorem, so `SumLemmas`
shows what the sums of the library are (a sum exists, does not depend on the set it is cut out
of, loses an element's value with the element, is monotone) from the smallest counterexample
there would be: a nonempty family of finite sets has a minimal member.

The ledger's state is `Sound` if it is typed, no attempt is both active and retired, and what is
spent and held fits the capacity; the replayed state is sound as well, and where the log is
genuine both are equal. The quota is `Sound` at time *t* with history *c* if its
windows are those of *t* (`Timed`), each bucket lacks what its window took (`Accounted`), slots are
leases of a call's latest attempt (`Lent`), a lease knows the windows it was charged to
(`Matched`), and attempts were admitted in turn (`InTurn`). `Matched` is what late settlements need: an
overrun is taken from, and a refund given to, a window only if the lease was charged to that window.

| Theorem | Statement |
|---|---|
| `NeverOvercommitted`, `CapacityIsConserved` | `[]Conserved`, of the ledger alone and beside a replay |
| `RetiredIsForGood`, `RetirementIsFinal` | `RetiredForGood`, of the ledger alone and beside a replay |
| `ReplayAcceptsExactly` | `ReplaySpec => ReplayIsExact` of the ledger |
| `AccountsAreKept` | `Spec => []AccountsAreExact` |
| `RetriesAreRuled` | `Spec => RetriesKeepTheRules` |
| `ReplayBelievesExactly` | `ReplaySpec => []ReplayIsExact` of the quota |
| `ReplayedIsAQuota` | `ReplaySpec => Spec`, so that the two theorems above it hold beside a replay |

### Artifact store

`IInv` says what is intact in a file nobody altered (`IntactUnlessAltered`), that one auditor at
most is at work, and what its audit knows after each query (`AuditKnows`): what it listed and has
read is intact, and so is everything put since, which it never looks at. The last part is the argument
for an audit that does not hold a transaction over its queries. What `Pack` selects is a fold over
the candidates; that the fold follows its recursion, and that what was left out did not fit, are
again shown by smallest counterexample.

| Theorem | Statement |
|---|---|
| `LineageIsKept` | `Spec => LineageIsForGood` |
| `AuditsAreExact` | `Spec => []AuditIsExact` |
| `PackedContextsAreEnough` | `Spec => []PackedIsEnough` |

### Planning and replanning

`SInv` is the scheduler's invariant, for any plan the scheduler does not reject: any number of
tasks, profiles, units, resources and effects, each policy. It ties together what is decided at
different places of the loop:

* *Entries* (`Books`, `Runs`, `SlotsKept`, `EffectsApart`). An entry is of a task whose dependencies
  ended before it started, uses a qualified profile and keeps to the deadlines; `running` lists
  the entries that run; no more run at once than there are slots, and nothing that overlaps a writer
  of a resource touches it.
* *Accounts* (`AccountsKept`). `used` and `risk` are the sums over the entries, in every unit, and
  within the envelope. The sums are those of `SumLemmas`.
* *The pass* (`Passed`, `SkipsSound`). What is still to be looked at is ready, neither started nor
  skipped, and named once; what is skipped has not started and nothing mandatory needs it.
* *The log* (`Logged`). Every start, end and skip is there once, in the order of the clock and of a
  task's life, and the run's own events enclose them. That is what the verifier reads.
* *The promise* (`Affordable`). Some choice of profiles pays for the mandatory work that has not
  started with what is left of every unit and of the risk. A start keeps it because the code
  asked, with the reservation taken off, for the cheapest choice; that its recursion finds one
  whenever there is one, over any number of tasks, is shown by a smallest counterexample.

`SchedulesAreConserved` claims the verifier's approval only of plans in which no pure task names a
resource (`PureTasksAreFree`), since for others the code disagrees with its own verifier (see
[Scheduler](#met-while-modelling)); the accounts and slots hold in any case.

`EveryDecisionIsExplained` needs more than `SInv`. The explanation recomputes at each event, from
the events before it alone, how many tasks run, of its provider too, what has completed and what was planned; while
`SInv` speaks of the state the scheduler is in now. `Explaining` therefore says it of every prefix of the
log (`Paced`): no more run there than may, there is room for one more at an event that selects or
starts a task, and what a task needed has completed before anything else is said of it. That a
step keeps this is one lemma about logs that grow (`PaceContinues`); the link between the two sides
is that whoever runs according to the whole log is in `running` (`LogTellsWhoRuns`). `InTime` keeps
what was planned at the start of an entry, which a cancellation overwrites in the entry itself.

For replanning the scheduler runs between two decisions, on a graph that is not the run's. `RInv`
says that this graph and envelope are what the accepted snapshot and event leave of the run
(`Planned`), so that `SInv` holds of them; that a durable state counts its
revisions and events and leaves conditions a scheduler can work under (`DurableFacts`); and the two invariants of the run.
`PromisesAreKept` rests on a closure argument. The mandatory work of the run is the closure of its
promised tasks under dependencies; the residual graph has lost completed producers and sealed
effects, so the closure the scheduler protects is smaller. What is shown is that
completed and sealed tasks together with that smaller closure are closed under the run's own
dependencies, so that they contain the run's. For `PlansFitTheRun` the limits left (`LimitsLeft`) are
what the envelope in force leaves after what was settled, so that the new plan and the past together fit it.

| Theorem | Statement |
|---|---|
| `SchedulesKeep` | `ScheduleSpec => []SInv` |
| `SchedulesConserve` | `ScheduleSpec => []SchedulesAreConserved` |
| `MandatoryIsAffordable` | `ScheduleSpec => []MandatoryStaysAffordable` |
| `CertificatesMeanTheirStatus` | `ScheduleSpec => []CertificateMeansItsStatus` |
| `SchedulesExplain` | `ScheduleSpec => [](SInv /\ Explaining)` |
| `DecisionsAreExplained` | `ScheduleSpec => []EveryDecisionIsExplained` |
| `ReplanningIsSound` | `RSpec => []RInv` |
| `PromisesStayKept` | `RSpec => []PromisesAreKept` |
| `PlansFit` | `RSpec => []PlansFitTheRun` |
| `HistoryIsKept` | `RSpec => HistoryOnlyGrows` |

### Control plane

`IInv` is made of: which sessions `_active` and `_sessions` name, and that a task that goes on is
the one of its run (`Drivers`); a session starts on an empty log (`Begun`); the markers in the log and
the requests that wait for a lock are together within the limit (`Counted`), which is why a limit
that is checked before the wait holds after it; a marker is behind its transition (`Placed`);
a client has what is before its cursor, and nothing twice (`Told`, of a sequence, from
which `StreamsTellAll` follows step by step). `RequestsAreVetted` depends on no state; its proof goes
through the checks in their order.

| Theorem | Statement |
|---|---|
| `DriversAreSingle` | `Spec => []OneDriverEach` |
| `ControlsKeepOrder` | `Spec => []ControlsAreOrderly` |
| `ClientsAreToldAll` | `Spec => StreamsTellAll` |
| `RequestsAreAllVetted` | `Spec => []RequestsAreVetted` |

### Adaptive run

The accounts of a run are sums over sets of tasks, one for each unit of a usage, and the reducer is
one long function. What a proof needs of it is little: whatever `_reconcile` decides, it changes
nothing but `shed`, which grows, and `status`, which never becomes `running` again
(`ReconcileSheds`). The accounts are `Books`, a predicate of a controller state that each event
keeps before reconciling and `Reconcile` keeps after: what is settled, lost and promised is
within the envelope, a task of unknown fate is charged once and is neither done nor under way, and a run
that goes on has given it up, which is why it is never dispatched again. `Grounded` ties what is
settled to the durable outputs, `DriveKnows` says what the coordinator may rely on between the steps
of a call. A dispatch stays within the envelope because `Dispatchable` fits the task together with
all that is still mandatory into the caps, and sums over fewer tasks are smaller (`CostMonotone`).

That is `IInv`. What the run owes to its plan is a second invariant on top of it, `OnPlan`. Its
heart is `Planned`: in a state that goes on, the mandatory work and every optional task that is not
shed, after the task in flight at its 95th percentile, fit one after the other into all
deadlines (`SerialFits`), and their reservations into the caps. The lemmas about that schedule are
about a recursion over sets of tasks, so again by a smallest set at which they would fail: an
earlier start fits as well, and so do fewer tasks, if what they depend on is among them; the rest fits
after the first that is ready; a schedule that fits has its first task ready now. With them:

* *Reconciling makes a plan* (`NewPlan`). A greedy selection exists (`GreedyExists`); what was
  kept last fits together with all that was kept before it (`LastOfTasks`); and when those that depend
  on shed tasks are taken back, what is left still fits, being fewer.
* *A dispatch and a settlement keep it* (`DispatchStands`, `SettleStands`): `Reconcile`
  selects again what was selected before, and in between nothing is later or dearer than planned.
* *A run without a dispatchable task waits for a provider* (`OnlyBlocked`): the schedule's first task has
  its dependencies, its deadlines and its budget.

`DriveFits` and `LastWord` tie the drive and the verdicts to the recorded state. For the replay, the
event that `Recorded` reads off a step is shown to be accepted and to derive the same state, one
kind of event at a time; one that changed only the time is replayed as a notice of the capacity
some provider has (`TimeReplays`), and of two rejections the later reset may be recorded for both
(`RejectionReplays`).

| Theorem | Statement |
|---|---|
| `CallsArePaid` | `Spec => []EveryCallIsPaid` |
| `PlanInvariance` | `Spec => []OnPlan` |
| `StopsAreForCause` | `Spec => []StopsForCause` |
| `PlanIsKept` | `Spec => OwnProgressIsSafe` |
| `HistoryIsReplayable` | `Spec => HistoryReplays` |

### Only model-checked

* All liveness (`PolicyEffectsSettle`, `ExecuteReturns`, `DriveEnds`): the prover has neither
  fairness nor `ENABLED`.
* `AdmissionIsExact`, a function of a finished schedule. It compares folds over sorted 64-bit
  values, a longest path that reports its overflows and an order of dispatch with what
  they compute, over all sets of tasks; each is an induction over the schedule's data.

## Where the code and its documents disagree

`replanning_typed` checks `AcceptedEventsArePlanned`, that a snapshot and an event that are
accepted leave a residual graph that can be planned: the first lines of `replanning.py` say the replanner "constructs the
causally correct residual graph, and asks FINITE's existing Scheduler for a new plan".
`_build_residual` (`replanning.py:1232`) removes completed producers from a task's
dependencies but keeps its `input_ports`, so that the residual graph of every run in which a
completed task feeds a typed input fails to validate ("has missing producer") and `replan` raises.

Smaller disagreements, found with earlier instances of the same modules and contained in them
(no run of their own; the executor and adaptive ones were confirmed by running the code):

| The document says | The code does |
|---|---|
| `effects.py:1003`: abort happens before target application | A commit that dies behind the target leaves the row approved; abort accepts it without probing the target, and an aborted reversible effect can no longer be compensated |
| docs/effect-kernel.md:24: post-apply crashes reconcile through the target's idempotency | Only ambiguous rows are probed. After a process death the row is approved, the grant is verified again, and once it has expired the applied effect is never recorded as committed |
| docs/limitations.md:91: an uncommitted effect reports `awaiting_effects` | The event has one id and a body that lists what is pending (`executor.py:1559`); after one of two effects is settled the next execution raises `EventConflict` until both are |
| `executor.py:55`: cooperative cancellation was requested | A task's own deadline sets the shared signal (`executor.py:712`); a sibling that sees it first makes the run `run.cancelled` |
| `adaptive_runtime.py:11-12`, docs/production-survival.md:13: ambiguous work is charged in full | A control event on a run nobody drives can refuse the run with the ambiguous reservation neither settled nor charged (`control_service.py:564-591`); recovery is then refused as terminal |

## Met while modelling

What the models contain and no sentence of the repository contradicts:

* *Effects.* A process that dies in `compensate` behind the target leaves an effect undone whose
  row says committed or ambiguous (`effects.py:390-408`, `527-529`, `990-1000`). Repeating the
  compensation repairs it. An ambiguous row may instead be committed: its application is found at
  the target, which keeps it, and a commit is recorded of an effect that is undone.
* *Executor.* A run resumed after the deadline of a task whose output is durable cannot
  complete: the revalidation raises before the executor's `try` (`executor.py:1470`). A run that
  crashed and whose profile snapshots have expired cannot be resumed at all: the old snapshot is
  refused as stale (`executor.py:406-453`), and a fresh one changes the manifest's digest, which
  `get_or_create_run` refuses (`run_store.py:486-495`); the run stays without a verdict. A
  snapshot is held to the identity of its profile, never to the profile's figures.
* *Scheduler.* A pure task that names a resource may start while a writer of it is active
  (`_effect_conflicts`), and `verify_conservation` then rejects the schedule; the
  instance gives pure tasks no resource.
* *Admission.* Retries multiply tokens, cost and context but not the physical totals; a transfer
  whose bits overflow 64 bits is refused even if it would fit.
* *Replanning.* An old capacity event overrides the limits of a later envelope change; the success
  floor is applied undivided to the residual graph.
* *Control service.* Reading an optional worker's failure, the coordinator records `run.failed` and a
  later recovery may record `run.completed` (`control_service.py:478`); `resume_existing` handles
  no failure of a worker (`control_service.py:495`). Death between `_new_session` and
  `_persist_run_start` leaves a run that exists for the controller and not for the ledger, and
  cannot be recovered. A request that waited for a session's lock appends after a recovery
  replaced that session; the recovered drive then finds a conflict and ends (`Overtaken` in `ControlApi`).
  A recovery that is refused for its revision or its time has already replaced the registered
  session by one that nobody drives and whose gate is open (`control_service.py:234-235`, `556-597`).
* *Control API.* A run that failed and was recovered is still reported failed, its stream ends, and
  it can no longer be cancelled (`control_api.py:858`). A cancellation is accepted between the end
  of the drive and its done-callback. A crash between a control transition and its marker leaves the
  event uncounted. Recovery counts against the limit of control events; repeated at the same
  revision with another time it conflicts instead of resuming.
* *Quota.* A retry directive may become impossible: a later provider reset may move past the call's
  deadline, and the promised attempt is refused for ever (`provider_quota.py:743`).
* *Artifact store.* Provenance is checked against its own seal only; the count of provenances
  `verify_all` returns may exceed that of artifacts when puts run beside it; the packer reports an
  optional artifact that is in the context already as lost.
* *Whole run.* The verifier never looks at `task.attempt_succeeded`; an attempt may have several
  different ends; a grant after an abort is accepted.
* *Bob lifecycle.* `verify` asks for exactly one terminal event and counts `run.awaiting_effects`
  as one (`bob_lifecycle.py:45`, `:415`), so a run that awaited its effects and completed later does not pass.

## What is not modelled

Inside the modelled components:

* Effects: relaying and acknowledging the outbox, digests of payload bytes, several actions
  under one key. Brokers' transactions are atomic; SQLite itself is trusted.
* Executor: usage vectors (an overrun is one way a call fails), the length of a backoff, a graph
  with a write but no broker, the injected crash used by tests, a second cancellation during the
  grace period. `opened_until_ms` of a circuit is recorded and never consulted, so it is not a variable.
* Scheduler: floating-point products of probabilities, trace attributes nobody reads.
* Resource ledger: the claimed final snapshot, sequence numbers and digests, which only
  compare what the model compares as records.
* Quota: validation of field types and names, digests, the burst corpus generator.
* Adaptive run: revision chains and their digests, `run_until_blocked`
  (only a mutant: it dispatches at a later time, and a tight plan then blocks); in its module
  `runtime.resume` of a run without a session, which is in `ControlApi`.
* Control API: the read-only reports, the parsing of grants and of a control event's details.
* Evidence: content beyond identity, size and freshness; the document structure of a package and the
  recomputation of its digests; rule names of explanations and their texts.

Components without a module: workflow parsing, the Bob and watsonx wrappers, StormShift and its
semantic checks, benchmarks and drills, the MCP server and command line, release evidence and the
console. They are input checking, I/O, formatting or harnesses; their
state, where they have any, is that of a modelled component. The list with reasons is
`PROJECT.json` "components".

## Plan

Done: effect kernel with promise and proofs; run store; executor with promise; resource
ledger and replay; adaptive controller, service and replay; provider quota and replay; scheduler,
verifier, admissions and explanations; replanning; artifact store and contexts; whole-run
verifier; control plane.

Modelling that is left: the outbox relay in `EffectKernel`; a composition of `Executor` with the
real `EffectKernel` in place of `BrokerMoves`; a budget that `ResourceLedger` implements as an
abstract specification.

Next theorems, in this order. Those of a component without proofs need their lemmas beside an
existing proof module whose names do not clash with theirs, as those about `SharedRunStore` are:

1. `ScheduleReports`: `AdmissionIsExact`, beside `ScheduleProofs`, whose invariant it needs.
2. `LedgerReplay`: a budget as the abstract specification of `ResourceLedger`.
