------------------------------ MODULE Scheduler ------------------------------
(***************************************************************************)
(* Scheduler.schedule (scheduler.py): a simulation that lists ready tasks, *)
(* gives each the cheapest profile that leaves the protected work          *)
(* affordable, and moves its clock from one completion to the next.        *)
(*                                                                         *)
(* The method is a loop of passes.  At the head of the loop tasks behind   *)
(* skipped ones are skipped, or a pass over the ready tasks is opened; in  *)
(* the pass each ready task is started, held back, skipped or refused;     *)
(* after it the clock moves.  Each of these is an action.                  *)
(***************************************************************************)
EXTENDS Conservation

CONSTANT Plans  \* the plans to schedule: [graph, envelope, policy]

ASSUME PlansAssumption == \A p \in Plans : GraphShape(p.graph) /\ EnvelopeShape(p.envelope)

VARIABLES
  plan,     \* [graph, envelope, policy], fixed during one schedule
  phase,    \* "planning", "completed" or "failed"
  time,
  pass,     \* the ready tasks still to be looked at; <<>> outside a pass
  opened,   \* a pass has been opened and the clock has not moved since
  moved,    \* that pass started or skipped something
  running,  \* sequence of [task, profile, end] in the order of their starts
  entries, skipped, used, risk, log

vars == <<plan, phase, time, pass, opened, moved, running, entries, skipped, used, risk, log>>

G == plan.graph
E == plan.envelope

-----------------------------------------------------------------------------
\* What is computed once.

Protected == WithAncestors(G, G.tasks \ G.optional)

\* The first of the qualified profiles by duration, then cost.
Reference(t) ==
  CHOOSE p \in Qualified(G, t) : \A q \in Qualified(G, t) :
    p = q \/ LexLess(<<p.p95, p.use["cost"], p.id>>, <<q.p95, q.use["cost"], q.id>>)

Pinned == [t \in G.tasks |-> Reference(t).p95]

\* Remaining length below a task; protected tasks count protected work only.
Rank(t) ==
  IF t \in Protected THEN UpwardRanks(G, Pinned, Protected)[t]
  ELSE UpwardRanks(G, Pinned, G.tasks)[t]

DurationLowerBound(length, provider) ==
  LET S == DOMAIN length
      ranks == UpwardRanks(G, length, S)
      slots(p) == Least(ProviderLimit(E, p), E.parallelism)
  IN Largest({ranks[t] : t \in S}
             \union {CeilDiv(SumOver(S, length), E.parallelism)}
             \union {CeilDiv(SumOver({t \in S : provider[t] = p}, length), slots(p))
                     : p \in {provider[t] : t \in S}})

ProfileLowerBound ==
  DurationLowerBound([t \in Protected |-> Pinned[t]],
                     [t \in Protected |-> Reference(t).provider])

EntryLowerBound ==
  LET S == {e.task : e \in entries}
      of(t) == CHOOSE e \in entries : e.task = t
  IN DurationLowerBound([t \in S |-> of(t).end - of(t).start], [t \in S |-> of(t).provider])

-----------------------------------------------------------------------------
\* Who goes first.

Started == {e.task : e \in entries}
Completed == {e.task : e \in {f \in entries : f.outcome = "completed"}}
Skipped == ToSet(skipped)

Urgency(t) == Least(DueBy(G, E, t) - time - Pinned[t], E.deadline - time - Rank(t))

SortKey(t) ==
  IF plan.policy = "adaptive"
  THEN <<IF t \in Protected THEN 0 ELSE 1, Urgency(t), -Rank(t), -G.value[t], t>>
  ELSE <<t>>

Ready == {t \in G.tasks \ (Started \union Skipped) : G.deps[t] \subseteq Completed}
SortReady ==
  Listed(Ready, {p \in Ready \X Ready : LexLess(SortKey(p[1]), SortKey(p[2]))})

Behind == {t \in G.tasks \ (Started \union Skipped) : G.deps[t] \cap Skipped # {}}

-----------------------------------------------------------------------------
\* Which profile: the joint plan of the protected work must still fit.

Dominates(v, w) == Within(v.use, w.use) /\ v.risk <= w.risk
ParetoMinimal(S) == {v \in S : ~\E w \in S : w # v /\ Dominates(w, v)}

\* The undominated joint demands of the tasks that fit the room, as if each began now.
Frontier(tasks, room) ==
  LET order == Listed(tasks, Increasing(tasks))
      add(sofar, t) ==
        LET profiles == {p \in Qualified(G, t) : time + p.p95 <= DueBy(G, E, t)}
            sums == {[use |-> Plus(s.use, p.use), risk |-> s.risk + p.risk]
                     : s \in sofar, p \in profiles}
        IN ParetoMinimal({s \in sums : Within(s.use, room)})
      states[n \in 0..Cardinality(tasks)] ==
        IF n = 0 THEN {[use |-> Zero, risk |-> 0]} ELSE add(states[n - 1], order[n])
  IN states[Cardinality(tasks)]

\* Mutant: risk is not accumulated over the run.
FuturePlanFitsTwice(tasks, room, riskRoom) ==
  Within(Zero, room) /\ Frontier(tasks, room) # {}

FuturePlanFits(tasks, room, riskRoom) ==
  /\ Within(Zero, room)
  /\ riskRoom >= 0
  /\ \E s \in Frontier(tasks, room) : s.risk <= riskRoom

RemainingProtected(t) == Protected \ (Started \union {t})

\* Mutant: the profile's own demand is forgotten when the rest is checked.
FeasibleForgetful(t) ==
  {p \in Qualified(G, t) :
    LET room == Minus(E.caps, used)
    IN /\ Within(Plus(used, p.use), E.caps)
       /\ time + p.p95 <= DueBy(G, E, t)
       /\ FuturePlanFits(RemainingProtected(t), room, E.risk - risk - p.risk)}

Feasible(t) ==
  {p \in Qualified(G, t) :
    LET room == Minus(E.caps, Plus(used, p.use))
    IN /\ Within(Plus(used, p.use), E.caps)
       /\ time + p.p95 <= DueBy(G, E, t)
       /\ FuturePlanFits(RemainingProtected(t), room, E.risk - risk - p.risk)}

\* The path below a task must still reach the deadline.
OnTime(t) ==
  {p \in Feasible(t) : p.p95 <= E.deadline - time - Largest({0, Rank(t) - Pinned[t]})}

ProfileKey(p) ==
  <<p.use["cost"], p.use["tokens"], p.use["context"], p.risk, -p.quality, p.p95, p.id>>

ChooseProfile(candidates) ==
  CHOOSE p \in candidates : \A q \in candidates : p = q \/ LexLess(ProfileKey(p), ProfileKey(q))

\* One qualified profile for each of the tasks, and what they come to.
JointPlans(g, tasks) ==
  {f \in [tasks -> UNION {Qualified(g, t) : t \in tasks}] : \A t \in tasks : f[t] \in Qualified(g, t)}
UseOf(f, tasks) == [u \in Units |-> SumOver(tasks, [t \in tasks |-> f[t].use[u]])]
RiskOf(f, tasks) == SumOver(tasks, [t \in tasks |-> f[t].risk])

-----------------------------------------------------------------------------
\* Who has to wait.

Capacity == IF plan.policy = "sequential" THEN 1 ELSE E.parallelism

ProviderFull(p) ==
  Cardinality({i \in DOMAIN running : running[i].profile.provider = p}) >= ProviderLimit(E, p)

ActiveEffects(resource) ==
  {G.effect[running[i].task].kind : i \in {j \in DOMAIN running :
                                              G.effect[running[j].task].resource = resource}}

\* Mutant: readers do not wait for writers.
EffectConflictsAmongWriters(t) ==
  LET effect == G.effect[t]  active == ActiveEffects(effect.resource)
  IN Writes(effect.kind) /\ active # {}

EffectConflicts(t) ==
  LET effect == G.effect[t]  active == ActiveEffects(effect.resource)
  IN /\ effect.resource # "none" /\ effect.kind # "pure"
     /\ IF effect.kind = "read" THEN \E k \in active : Writes(k) ELSE active # {}

-----------------------------------------------------------------------------
Event(t, type) == [time |-> time, type |-> type, task |-> t]

\* The state in which a graph is about to be scheduled.
Fresh ==
  /\ phase = "planning" /\ time = 0
  /\ pass = <<>> /\ opened = FALSE /\ moved = FALSE
  /\ running = <<>> /\ entries = {} /\ skipped = <<>>
  /\ used = Zero /\ risk = 0
  /\ log = <<[time |-> 0, type |-> "run.started", task |-> NoTask]>>

AtHead == phase = "planning" /\ ~opened
InPass == phase = "planning" /\ opened /\ pass # <<>> /\ Len(running) < Capacity
Unended == Completed \union Skipped # G.tasks

\* A task behind skipped work is skipped; what it blocks is never mandatory.
SkipBlocked ==
  /\ AtHead /\ Unended /\ Behind # {} /\ Behind \subseteq G.optional
  /\ LET order == Listed(Behind, Increasing(Behind))
     IN /\ skipped' = skipped \o order
        /\ log' = log \o [i \in DOMAIN order |-> Event(order[i], "skipped")]
  /\ UNCHANGED <<plan, phase, time, pass, opened, moved, running, entries, used, risk>>

OpenPass ==
  /\ AtHead /\ Unended /\ Behind = {}
  /\ pass' = SortReady /\ opened' = TRUE /\ moved' = FALSE
  /\ UNCHANGED <<plan, phase, time, running, entries, skipped, used, risk, log>>

Entry(t, p) ==
  [task |-> t, backend |-> p.id, provider |-> p.provider, start |-> time, end |-> time + p.p95,
   use |-> p.use, risk |-> p.risk, optional |-> t \in G.optional, outcome |-> "running"]

\* The reservation: budget, provider slot and effect are taken together.
Start ==
  /\ InPass
  /\ LET t == Head(pass)  c == OnTime(t) IN
     /\ c # {}
     /\ LET p == ChooseProfile(c) IN
        /\ ~ProviderFull(p.provider) /\ ~EffectConflicts(t)
        /\ used' = Plus(used, p.use) /\ risk' = risk + p.risk
        /\ running' = Append(running, [task |-> t, profile |-> p, end |-> time + p.p95])
        /\ entries' = entries \union {Entry(t, p)}
        /\ log' = log \o <<Event(t, "selected"), Event(t, "started")>>
  /\ pass' = Tail(pass) /\ moved' = TRUE
  /\ UNCHANGED <<plan, phase, time, opened, skipped>>

\* Ready, but its provider or its resource is taken: looked at again later.
Hold ==
  /\ InPass
  /\ LET t == Head(pass)  c == OnTime(t) IN
     c # {} /\ (ProviderFull(ChooseProfile(c).provider) \/ EffectConflicts(t))
  /\ pass' = Tail(pass)
  /\ UNCHANGED <<plan, phase, time, opened, moved, running, entries, skipped, used, risk, log>>

SkipUnaffordable ==
  /\ InPass
  /\ LET t == Head(pass) IN
     /\ OnTime(t) = {} /\ t \notin Protected
     /\ skipped' = Append(skipped, t)
     /\ log' = Append(log, Event(t, "skipped"))
  /\ pass' = Tail(pass) /\ moved' = TRUE
  /\ UNCHANGED <<plan, phase, time, opened, running, entries, used, risk>>

\* A protected task without an admissible profile ends the run; running work is cancelled.
Refuse ==
  /\ InPass
  /\ OnTime(Head(pass)) = {} /\ Head(pass) \in Protected
  /\ LET byEnd == Listed(DOMAIN running, {p \in (DOMAIN running) \X (DOMAIN running) :
                       LexLess(<<running[p[1]].end, p[1]>>, <<running[p[2]].end, p[2]>>)})
     IN log' = log \o [i \in DOMAIN byEnd |-> Event(running[byEnd[i]].task, "cancelled")]
                   \o <<Event(NoTask, "run.failed")>>
  /\ entries' = {IF e.outcome = "running" THEN [e EXCEPT !.outcome = "cancelled", !.end = time]
                 ELSE e : e \in entries}
  /\ running' = <<>> /\ phase' = "failed"
  /\ UNCHANGED <<plan, time, pass, opened, moved, skipped, used, risk>>

PassEnds == phase = "planning" /\ opened /\ (pass = <<>> \/ Len(running) >= Capacity)

\* The clock moves to the next end; everything that ends there completes.
Advance ==
  /\ PassEnds /\ running # <<>>
  /\ LET next == Min({running[i].end : i \in DOMAIN running})
         ended == Picked(running, {i \in DOMAIN running : running[i].end = next})
         done == {ended[i].task : i \in DOMAIN ended}
     IN /\ time' = next
        /\ running' = Picked(running, {i \in DOMAIN running : running[i].end # next})
        /\ entries' = {IF e.task \in done THEN [e EXCEPT !.outcome = "completed", !.end = next]
                       ELSE e : e \in entries}
        /\ log' = log \o [i \in DOMAIN ended |->
                            [time |-> next, type |-> "completed", task |-> ended[i].task]]
  /\ pass' = <<>> /\ opened' = FALSE
  /\ UNCHANGED <<plan, phase, moved, skipped, used, risk>>

\* Nothing runs, but the pass skipped something: look again.
PassAgain ==
  /\ PassEnds /\ running = <<>> /\ moved
  /\ pass' = <<>> /\ opened' = FALSE
  /\ UNCHANGED <<plan, phase, time, moved, running, entries, skipped, used, risk, log>>

Complete ==
  /\ AtHead /\ ~Unended
  /\ phase' = "completed"
  /\ log' = Append(log, Event(NoTask, "run.completed"))
  /\ UNCHANGED <<plan, time, pass, opened, moved, running, entries, skipped, used, risk>>

ScheduleStep ==
  \/ SkipBlocked \/ OpenPass \/ Start \/ Hold \/ SkipUnaffordable
  \/ Refuse \/ Advance \/ PassAgain \/ Complete

\* What schedule returns.
Result ==
  [success |-> phase = "completed", makespan |-> time, used |-> used, risk |-> risk,
   bound |-> IF phase = "completed" THEN EntryLowerBound ELSE ProfileLowerBound,
   entries |-> entries, skipped |-> skipped, events |-> log]

-----------------------------------------------------------------------------
\* schedule refuses a graph or an envelope that does not validate.
Admitted == {p \in Plans : ValidGraph(p.graph) /\ ValidEnvelope(p.envelope)}

ScheduleInit == plan \in Admitted /\ Fresh
Returned == phase # "planning" /\ UNCHANGED vars

\* TLC looks for deadlocks: the loop ends although it has no other exit than its returns.
\* The branch "scheduler deadlock" and the late end behind it are thus never reached.
ScheduleSpec == ScheduleInit /\ [][ScheduleStep \/ Returned]_vars

-----------------------------------------------------------------------------
\* Every schedule, finished or refused, passes the verifier, which shares only the graph
\* with the scheduler: precedence, budgets, slots, effects, deadlines, lifecycle, bound.
\* Effects are verified of pure tasks as well, for which the scheduler does not wait: where
\* one names a resource, only the rest is sure.
SchedulesAreConserved ==
  phase # "planning" =>
    /\ AccountsHold(G, E, Result)
    /\ PureTasksAreFree(G) => VerifyConservation(G, E, Result)

\* After the first start the protected tasks that have not started can still be paid for
\* together: some choice of profiles fits what is left of every unit and of the risk.
MandatoryStaysAffordable ==
  LET left == Protected \ Started
  IN (phase = "planning" /\ entries # {}) =>
       \E f \in JointPlans(G, left) :
         /\ Within(Plus(used, UseOf(f, left)), E.caps)
         /\ risk + RiskOf(f, left) <= E.risk

\* A certificate is refused exactly when one of its checks fails, and one that is not
\* names a profile for all mandatory work and skips the rest of the graph, if anything.
CertificateMeansItsStatus ==
  LET c == Certificate(E, Result)
      work == {pair[1] : pair \in c.chosen}
  IN phase # "planning" =>
       /\ c.status = "refused" <=>
            ~(c.checks.deadline /\ c.checks.success /\ c.checks.work
              /\ \A u \in Units : c.checks.budget[u])
       /\ c.status # "refused" => Protected \subseteq work /\ G.tasks \ work = ToSet(c.skipped)
       /\ c.status = "feasible" => work = G.tasks
=============================================================================
