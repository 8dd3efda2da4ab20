-------------------------- MODULE AdaptiveController --------------------------
(***************************************************************************)
(* The pure reducer of adaptive_runtime.py (_AdaptiveControllerModel): how *)
(* every control event changes the controller's state, how the state is    *)
(* reconciled after each of them, and which task may be dispatched next.   *)
(*                                                                         *)
(* A state is a record of the fields of AdaptiveState that decide          *)
(* anything.  Revisions and digests, which chain the recorded states, and  *)
(* the ids of events are left out; a provider's capacity is kept only as   *)
(* being zero or not, and the one reservation in flight as its task.       *)
(***************************************************************************)
EXTENDS Integers, FiniteSetsExt, Functions

CONSTANTS
  N,            \* tasks are numbered in dispatch order: by value, then by id
  Providers,
  Units,        \* the units of a Usage
  RunDeadline,  \* envelope.deadline_ms
  Envelope,     \* the usage caps of the envelope
  Plans,        \* the admitted workflows, see IsPlan
  None

Task     == 1..N
Time     == 0..RunDeadline
Usages   == [Units -> Nat]

\* A workflow with the profiles the scheduler selected for it.  "due" is the
\* earlier of the task's and the run's deadline; "skipped" holds the optional
\* tasks the scheduler left out, "writes" those that declare an effect.
IsPlan(p) ==
  /\ p.deps \in [Task -> SUBSET Task]
  /\ p.optional \subseteq Task /\ p.skipped \subseteq p.optional /\ p.writes \subseteq Task
  /\ p.provider \in [Task -> Providers]
  /\ p.cost \in [Task -> Usages]
  /\ p.p50 \in [Task -> Nat] /\ p.p95 \in [Task -> Nat] /\ p.due \in [Task -> Time]
  /\ \A t \in Task : p.p50[t] <= p.p95[t]

ASSUME ControllerAssumption ==
  /\ N \in Nat /\ RunDeadline \in Nat
  /\ Envelope \in Usages
  /\ \A p \in Plans : IsPlan(p)
  /\ None \notin Nat \cup Usages

VARIABLE plan   \* the workflow of the run

Zero           == [u \in Units |-> 0]
Plus(v, w)     == [u \in Units |-> v[u] + w[u]]
Minus(v, w)    == [u \in Units |-> v[u] - w[u]]
Fits(v, limit) == \A u \in Units : v[u] <= limit[u]

\* What the tasks of a set reserve, and how long they take at the 95th percentile.
Reservation == [p \in Plans |-> [S \in SUBSET Task |->
                 [u \in Units |-> SumFunctionOnSet([t \in Task |-> p.cost[t][u]], S)]]]
Duration    == [p \in Plans |-> [S \in SUBSET Task |-> SumFunctionOnSet(p.p95, S)]]
CostOf(S)   == Reservation[plan][S]
P95Of(S)    == Duration[plan][S]
Admitted    == Task \ plan.skipped

\* The tasks of a set with all they depend on, directly or not.
Closure == [p \in Plans |-> [S \in SUBSET Task |->
  {t \in Task : \A C \in SUBSET Task :
     S \subseteq C /\ (\A x \in C : p.deps[x] \subseteq C) => t \in C}]]

\* _protected_task_ids: no optional task, and nothing one of the others needs, is sacrificed.
Protected == Closure[plan][Task \ plan.optional]

InFlight(s) == {s.inflight} \ {None}

\* _serial_deadlines_fit: run one after the other from time now, always the
\* first that is ready, the tasks of S all meet the deadlines of workflow p.
InSeries(p, done, S, now) ==
  LET todo == S \ done
      fits[rest \in SUBSET todo] ==
        LET ready == {t \in rest : p.deps[t] \subseteq done \cup (todo \ rest)}
            t == Min(ready)
        IN \/ rest = {}
           \/ /\ ready # {}
              /\ now + Duration[p][todo \ rest] + p.p95[t] <= p.due[t]
              /\ fits[rest \ {t}]
  IN fits[todo]

SerialFits(done, S, now) == InSeries(plan, done, S, now)

-----------------------------------------------------------------------------
(* _reconcile: refuse the run or shed what no longer fits. *)

Underway(s) == s.completed \cup InFlight(s)

\* When the task in flight is through, at the latest.
Horizon(s) == s.now + P95Of(InFlight(s))

\* Usage that is spent or promised, and the reserve of the mandatory work to come.
Committed(s) == Plus(Plus(s.settled, s.unknownUsage), CostOf(InFlight(s)))
Mandatory(s) == CostOf(Protected \ Underway(s))

Hopeless(s) ==
  \/ Protected \cap s.shed # {}
  \/ s.now > RunDeadline /\ ~(Protected \subseteq s.completed)
  \/ \E t \in InFlight(s) : Horizon(s) > plan.due[t]

Unschedulable(s) == ~SerialFits(Underway(s), Protected \ Underway(s), Horizon(s))

Unaffordable(s) == ~Fits(Plus(Committed(s), Mandatory(s)), s.caps)

\* The optional tasks that are still wanted, and the greedy choice among them:
\* in dispatch order a task is kept if it fits with those kept before it.  One
\* that depends on a shed task is taken back.
Candidates(s) == Admitted \ (Protected \cup Underway(s) \cup s.shed)

Fitting(s, S) ==
  /\ Fits(CostOf(S), Minus(s.caps, Plus(Committed(s), Mandatory(s))))
  /\ SerialFits(Underway(s), (Protected \ Underway(s)) \cup S, Horizon(s))

Greedy(s, S) ==
  \A t \in Candidates(s) : t \in S <=> Fitting(s, (S \cap 1..t - 1) \cup {t})

Kept(s) ==
  LET selected == CHOOSE S \in SUBSET Candidates(s) : Greedy(s, S)
      dropped  == s.shed \cup (Candidates(s) \ selected)
  IN {t \in selected : Closure[plan][{t}] \cap dropped = {}}

Reconcile(s) ==
  IF s.status = "cancelled" THEN s
  ELSE IF Hopeless(s) THEN [s EXCEPT !.status = "refused"]
  ELSE IF Unschedulable(s)
  THEN [s EXCEPT !.status = "refused", !.shed = @ \cup (Admitted \ (Protected \cup s.completed))]
  ELSE IF Unaffordable(s)
  THEN [s EXCEPT !.status = "refused", !.shed = @ \cup (Task \ (Protected \cup Underway(s)))]
  ELSE LET shed == s.shed \cup (Candidates(s) \ Kept(s))
       IN [s EXCEPT !.shed = shed,
                    !.status = IF /\ InFlight(s) = {} /\ Task \subseteq s.completed \cup shed
                                  /\ Protected \subseteq s.completed
                               THEN "completed" ELSE @]

InitialState ==
  Reconcile([caps |-> Envelope, settled |-> Zero, unknownUsage |-> Zero,
             completed |-> {}, shed |-> plan.skipped, unknown |-> {}, inflight |-> None,
             resets |-> [p \in Providers |-> None], closed |-> {},
             now |-> 0, status |-> "running"])

\* runtime.started, the first recorded transition, changes nothing else.
RuntimeStarted == Reconcile(InitialState)

-----------------------------------------------------------------------------
(* _dispatch_choices and next_dispatch. *)

\* _require_provider
ProvidersOfRun == {plan.provider[t] : t \in Admitted}

Blocked(s, p) == s.resets[p] # None \/ p \in s.closed

\* Mutant: it is not checked that the rest still meets its deadlines.
DispatchableNow(s, t, at) ==
  /\ plan.deps[t] \subseteq s.completed
  /\ ~Blocked(s, plan.provider[t])
  /\ Fits(Plus(Plus(s.settled, s.unknownUsage),
               CostOf({t} \cup (Protected \ s.completed))), s.caps)
  /\ at + plan.p95[t] <= plan.due[t]

Dispatchable(s, t, at) ==
  LET rest == Admitted \ (s.completed \cup s.shed \cup {t})
  IN /\ plan.deps[t] \subseteq s.completed
     /\ ~Blocked(s, plan.provider[t])
     /\ Fits(Plus(Plus(s.settled, s.unknownUsage),
                  CostOf({t} \cup (Protected \ s.completed))), s.caps)
     /\ at + plan.p95[t] <= plan.due[t]
     /\ SerialFits(s.completed \cup {t}, rest, at + plan.p95[t])

Eligible(s, at) ==
  IF s.status # "running" \/ s.inflight # None THEN {}
  ELSE {t \in Admitted \ (s.completed \cup s.shed) : Dispatchable(s, t, at)}

\* Mutant: one time unit goes by before the dispatch, as in run_until_blocked.
NextDispatchLater(s) == IF Eligible(s, s.now + 1) = {} THEN None ELSE Min(Eligible(s, s.now + 1))

NextDispatch(s) == IF Eligible(s, s.now) = {} THEN None ELSE Min(Eligible(s, s.now))

-----------------------------------------------------------------------------
(* apply: the state after each kind of event, at time "at". *)

Provider429(s, p, at, reset) ==
  Reconcile([s EXCEPT !.now = at, !.resets[p] = IF @ = None THEN reset ELSE Max({@, reset})])

ProviderReset(s, p, at) == Reconcile([s EXCEPT !.now = at, !.resets[p] = None])

ProviderCapacity(s, p, at, open) ==
  Reconcile([s EXCEPT !.now = at, !.closed = IF open THEN @ \ {p} ELSE @ \cup {p}])

BudgetCut(s, caps, at) == Reconcile([s EXCEPT !.now = at, !.caps = caps])

TaskDispatched(s, t) == Reconcile([s EXCEPT !.inflight = t])

UsageSettled(s, t, actual, at) ==
  Reconcile([s EXCEPT !.now = at, !.inflight = None, !.completed = @ \cup {t},
                      !.settled = Plus(@, actual)])

\* Mutant: an optional task of unknown fate is left to be tried again.
UnknownRetried(s, t, at) ==
  Reconcile([s EXCEPT !.now = at, !.inflight = None, !.unknown = @ \cup {t},
                      !.unknownUsage = Plus(@, plan.cost[t]),
                      !.status = IF t \in Protected THEN "refused" ELSE @])

\* Mutant: the reservation of unknown fate is released.
UnknownReleased(s, t, at) ==
  Reconcile([s EXCEPT !.now = at, !.inflight = None, !.unknown = @ \cup {t},
                      !.shed = IF t \in Protected THEN @ ELSE @ \cup {t},
                      !.status = IF t \in Protected THEN "refused" ELSE @])

\* The whole reservation is charged; a mandatory task cannot be tried again.
UnknownInflight(s, t, at) ==
  Reconcile([s EXCEPT !.now = at, !.inflight = None, !.unknown = @ \cup {t},
                      !.unknownUsage = Plus(@, plan.cost[t]),
                      !.shed = IF t \in Protected THEN @ ELSE @ \cup {t},
                      !.status = IF t \in Protected THEN "refused" ELSE @])

Cancellation(s) ==
  [s EXCEPT !.status = "cancelled", !.inflight = None,
            !.unknown = @ \cup InFlight(s), !.shed = @ \cup (InFlight(s) \ Protected),
            !.unknownUsage = Plus(@, CostOf(InFlight(s)))]
=============================================================================
