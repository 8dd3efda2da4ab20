---------------------------- MODULE MCReplanning ----------------------------
(* A mandatory write behind an intake, and optional work beside and behind it. *)
EXTENDS Replanning, TLC

Use(k, c, x) == "tokens" :> k @@ "cost" :> c @@ "context" :> x

Profile(id, provider, p95, use) ==
  [id |-> id, provider |-> provider, p95 |-> p95, use |-> use, quality |-> 1, risk |-> 0]

Quick == Profile(1, "a", 2, Use(1, 1, 0))
Other == Profile(2, "b", 3, Use(2, 1, 0))

NoEffect == [kind |-> "pure", resource |-> "none"]
Write == [kind |-> "reversible_write", resource |-> "r"]

Workflow(deps, inputs, optional, due) ==
  [tasks |-> 1..3, deps |-> deps, inputs |-> inputs, optional |-> optional, value |-> <<0, 0, 0>>,
   minq |-> <<0, 0, 0>>, due |-> due, effect |-> <<NoEffect, Write, NoEffect>>,
   profiles |-> <<{Quick, Other}, {Quick, Other}, {Quick}>>]

Bounds(c, d) == [deadline |-> d, caps |-> Use(6, c, 0), risk |-> 0, parallelism |-> 2,
               limits |-> "a" :> 1]

Untyped == <<{}, {}, {}>>
Planned(g) == [graph |-> g, envelope |-> Bounds(3, 8), policy |-> "adaptive"]

Typed == {Planned(Workflow(<<{}, {1}, {1}>>, <<{}, {1}, {}>>, {3}, <<0, 6, 0>>))}

Runs ==
  Typed \union
  {Planned(g) : g \in {Workflow(<<{}, {1}, {1}>>, Untyped, {3}, <<0, 6, 0>>),
                       Workflow(<<{}, {1}, {2}>>, Untyped, {3}, <<0, 0, 7>>)}}

Steps ==
  {[id |-> i, kind |-> "slowdown", provider |-> "a", permille |-> 1500] : i \in {"e1"}}
  \union {[id |-> i, kind |-> "failure", task |-> t, provider |-> "a"] : t \in {2, 3}, i \in {"e1", "e2"}}
  \union {[id |-> i, kind |-> "capacity", provider |-> "a", capacity |-> c] : c \in {0, 2}, i \in {"e2"}}
  \union {[id |-> i, kind |-> "envelope", envelope |-> Bounds(2, 7)] : i \in {"e1", "e2"}}

Reports ==
  {[completed |-> c, skipped |-> k, seals |-> s, settled |-> Use(n, n, 0), elapsed |-> 3 * n]
   : c \in SUBSET {1, 2, 3}, k \in {{}, {3}, {2}}, s \in {<<>>, 2 :> "i", 2 :> "j"}, n \in 0..2}
=============================================================================
