----------------------------- MODULE MCScheduler -----------------------------
(* Every graph of a few shapes over three tasks, under tight envelopes. *)
EXTENDS ScheduleReports

Use(k, c, x) == "tokens" :> k @@ "cost" :> c @@ "context" :> x

\* Ingress and egress, memory, bandwidth and round trip of a profile, or their limits.
Phys(i, o, m, b, r) ==
  "ingress" :> i @@ "egress" :> o @@ "memory" :> m @@ "bandwidth" :> b @@ "rtt" :> r

\* Slow and cheap at one provider, fast and dear at another; the second trades units.
Profile(id, provider, p95, use, quality, exponent, phys) ==
  [id |-> id, provider |-> provider, p95 |-> p95, use |-> use, quality |-> quality,
   risk |-> exponent, phys |-> phys]

Menu == <<
  {Profile(1, "a", 2, Use(1, 1, 1), 1, 1, Phys(1, 5, 3, 1, 0)),
   Profile(2, "b", 1, Use(1, 2, 0), 1, 0, Phys(3, 2, 1, 1, 1))},
  {Profile(1, "a", 1, Use(2, 0, 1), 1, 0, Phys(0, 3, 2, 1, 0)),
   Profile(2, "a", 0, Use(0, 2, 0), 0, 1, Phys(0, 0, 4, 0, 0))},
  {Profile(1, "a", 2, Use(1, 1, 0), 0, 1, Phys(0, 7, 1, 2, 1)),
   Profile(2, "b", 1, Use(1, 1, 1), 1, 1, Phys(4, 4, 4, 0, 0))} >>

Shapes == {<<{}, {}, {}>>, <<{}, {1}, {1}>>, <<{}, {}, {1, 2}>>, <<{}, {1}, {2}>>}

NoEffect == [kind |-> "pure", resource |-> "none"]
On(kind) == [kind |-> kind, resource |-> "r"]
EffectSets == {<<NoEffect, NoEffect, NoEffect>>,
               <<On("idempotent_write"), On("read"), NoEffect>>,
               <<On("read"), On("read"), On("reversible_write")>>}

Graphs ==
  {[tasks |-> 1..3, deps |-> d, inputs |-> d, optional |-> o, value |-> <<0, 1, 0>>, minq |-> q,
    due |-> due, effect |-> f, profiles |-> Menu]
   : d \in Shapes, o \in {{}, {1}, {2}, {2, 3}}, q \in {<<0, 0, 0>>, <<0, 1, 0>>},
     due \in {<<0, 0, 0>>, <<0, 2, 3>>}, f \in EffectSets}

\* The physical limits vary with the others: exact, generous, without a link, near overflow.
Limits(deadline, exponent) ==
  IF deadline = 2 THEN (IF exponent = 1 THEN Phys(8, 14, 5, 14, 1) ELSE Phys(4, 7, 3, 14, 1))
  ELSE (IF exponent = 1 THEN Phys(5, 12, 14, 0, 0) ELSE Phys(14, 14, 3, 8, 1))

Envelopes ==
  {[deadline |-> d, caps |-> c, risk |-> r, parallelism |-> n, limits |-> l, phys |-> Limits(d, r)]
   : d \in {2, 4}, c \in {Use(4, 3, 2), Use(3, 5, 2)}, r \in {1, 3}, n \in {1, 3},
     l \in {"a" :> 1, "b" :> 1}}

SmallPlans ==
  {[graph |-> g, envelope |-> e, policy |-> p]
   : g \in Graphs, e \in Envelopes, p \in {"adaptive", "static_parallel", "sequential"}}

Sums == {"ingress", "egress"}
Held == {"memory", "bandwidth"}

Manifest(provider, rank, kinds) ==
  [provider |-> provider, semantics |-> "usage" :> rank, retries |-> 0, effects |-> kinds]

SmallWorkers == <<Manifest("b", 1, {"pure", "read"}), Manifest("a", 0, {"pure"}), NoManifest>>
SmallRequirements == <<[semantics |-> "usage" :> 1, retries |-> 0], NoManifest, NoManifest>>

\* Profile snapshots: whole evidence for the first task, and the ways it can be lacking.
Measured == [s \in Sources |-> -2]
Whole ==
  [task |-> 1, profile |-> 2, name |-> [c \in Components |-> IF c = "provider" THEN "b" ELSE c],
   version |-> [c \in Components |-> "1.0"], spread |-> [m \in Metrics |-> <<1, 2>>], quota |-> 1, prices |-> {0, 2},
   samples |-> [s \in Sources |-> IF s = "metrics" THEN 3 ELSE 0], observed |-> {"metrics"},
   sampled |-> Measured, priced |-> -1, at |-> 0, until |-> 3, maxAge |-> 2, region |-> "eu",
   domains |-> [c \in {"region", "provider", "model", "tool"} |->
                 IF c = "region" THEN "eu" ELSE IF c = "provider" THEN "b" ELSE c],
   intact |-> TRUE]

Lacking ==
  {[Whole EXCEPT !.sampled["quota"] = 1], [Whole EXCEPT !.sampled["metrics"] = -3],
   [Whole EXCEPT !.samples["quality calibration"] = 1], [Whole EXCEPT !.observed = {}],
   [Whole EXCEPT !.version["model"] = "latest"], [Whole EXCEPT !.until = 4],
   [Whole EXCEPT !.spread["failure"] = <<2, 1>>], [Whole EXCEPT !.domains["provider"] = "a"],
   [Whole EXCEPT !.priced = 1], [Whole EXCEPT !.intact = FALSE], [Whole EXCEPT !.profile = 1]}

Given(d, pinned, all, now) ==
  [given |-> 1 :> d, pins |-> pinned, required |-> all, now |-> now]
SmallEvidence ==
  {Given(d, <<>>, FALSE, 2) : d \in Lacking \union {Whole}}
    \union {Given(Whole, 1 :> Whole, all, now) : all \in BOOLEAN, now \in {-1, 0, 3, 4}}
    \union {Given(Whole, 2 :> Whole, FALSE, 0), [Given(Whole, <<>>, FALSE, 0) EXCEPT !.given = <<>>]}
=============================================================================
