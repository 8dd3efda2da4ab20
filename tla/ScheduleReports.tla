--------------------------- MODULE ScheduleReports ---------------------------
(* What is said and decided about a schedule once scheduling has returned. *)
EXTENDS Scheduler, Admission, Explanations

CONSTANTS
  Workers,      \* by task, the manifest of its worker
  Requirements, \* by task, what it asks of its worker
  Evidence      \* the profile snapshots an executor may be given, see ExecutorAdmits

\* Every path of dependencies inside the selection, as the set of its tasks.
Chains(sel) ==
  {S \in SUBSET DOMAIN sel :
     S # {} /\ \A t, s \in S : t = s \/ t \in WithAncestors(G, {s}) \/ s \in WithAncestors(G, {t})}

\* A task that must have evidence has it, it is about the profile chosen for the task, what
\* it claims to have observed was observed, and no source is older than two periods or
\* younger than the snapshot when the run is admitted.
Substantiated(ev, t, p) ==
  LET d == ev.given[t]
  IN (ev.required \/ t \in DOMAIN ev.pins \union DOMAIN ev.given) =>
       /\ t \in DOMAIN ev.given
       /\ d.task = t /\ d.profile = p.id /\ {d.name["provider"], d.domains["provider"]} = {p.provider}
       /\ \A s \in d.observed : d.samples[s] > 0
       /\ \A s \in Sources :
            d.sampled[s] <= d.at /\ d.sampled[s] <= ev.now /\ ev.now <= d.sampled[s] + 2 * MaxFreshness
       /\ t \in DOMAIN ev.pins => ev.pins[t] = d

\* Some order of the selected tasks respects every dependency and every deadline when one
\* task runs at a time and each takes as long as it may.
OneAtATime(sel) ==
  LET S == DOMAIN sel
  IN \E at \in [S -> 1..Cardinality(S)] :
       /\ \A t, s \in S : t # s => at[t] # at[s]
       /\ \A t \in S : \A s \in G.deps[t] : at[s] < at[t]
       /\ \A t \in S :
            MapThenSumSet(LAMBDA s : sel[s].p95, {s \in S : at[s] <= at[t]}) <= DueBy(G, E, t)

\* The admission against unbounded arithmetic and every set of tasks there is: what it lets
\* through stays within the envelope whichever tasks run together and however often calls
\* are repeated, and it refuses nothing for an overflow that would fit, except a transfer
\* whose bits cannot be counted.  What the controller admits can be run one task at a time.
AdmissionIsExact ==
  LET sel == SelectedProfiles(G, Result)
      S == DOMAIN sel
      sum(T, d) == MapThenSumSet(LAMBDA t : sel[t].phys[d], T)
      bytes(t) == sum({t}, "ingress") + sum({t}, "egress")
      ms(t) == IF bytes(t) = 0 THEN 0 ELSE CeilDiv(bytes(t) * BitRate, E.phys["bandwidth"])
      countable == \A t \in S : bytes(t) * BitRate <= MaxUnits
      linked == E.phys["bandwidth"] > 0 \/ \A t \in S : bytes(t) = 0
      fits ==
        /\ \A d \in Additive : sum(S, d) <= E.phys[d]
        /\ \A d \in Peaks : \A T \in SUBSET S :
             Cardinality(T) <= E.parallelism => sum(T, d) <= E.phys[d]
        /\ \A t \in S : sel[t].phys["rtt"] <= E.phys["rtt"]
        /\ linked /\ \A T \in Chains(sel) :
             MapThenSumSet(LAMBDA t : ms(t) + sel[t].phys["rtt"], T) <= E.deadline
      retried ==
        \A u \in Units : \A f \in [S -> 1..MaxAttempts] :
          (\A t \in S : Writes(G.effect[t].kind) => f[t] = 1) =>
             MapThenSumSet(LAMBDA t : f[t] * sel[t].use[u], S) <= E.caps[u]
  IN (phase = "completed" /\ plan.policy = "adaptive") =>
       /\ ValidSelection(G, E, sel) /\ PhysicallyAdmitted(G, E, sel) => fits
       /\ ValidSelection(G, E, sel) /\ fits /\ countable => PhysicallyAdmitted(G, E, sel)
       /\ \A ev \in Evidence :
            ExecutorAdmits(G, E, Result, Workers, Requirements, ev) =>
              fits /\ retried /\ \A t \in S : Substantiated(ev, t, sel[t])
       /\ \A broker \in BOOLEAN :
            ControllerAdmits(G, E, Result, Workers, Requirements, broker) =>
              /\ fits /\ OneAtATime(sel)
              /\ \A t \in G.tasks : G.effect[t].kind \in {"pure", "read"} \/ broker

\* Whatever the scheduler returns, finished or refused, can be explained: each of its events
\* follows from those before it, and every number recomputed from them keeps the limit it is
\* compared with.  A run is told to have been degraded exactly if some task was not given
\* the best quality it could have had.
EveryDecisionIsExplained ==
  phase # "planning" =>
    /\ EntriesExplained(G, Result) /\ BundleVerifies(Records(G, Result))
    /\ Degradations(Records(G, Result)) = {} <=>
         \A e \in entries : \A p \in Qualified(G, e.task) : p.quality <= ProfileOf(G, e).quality
    /\ \A i \in DOMAIN log : Explained(G, E, plan.policy, Result, i)
=============================================================================
