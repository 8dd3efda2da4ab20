------------------------------ MODULE MCAdaptive ------------------------------
(* Three tasks under a deadline that leaves no slack. *)
EXTENDS AdaptiveReplay, TLC

Vec(t, c) == ("tokens" :> t @@ "context" :> c)

TwoUnits   == {"tokens", "context"}
Caps       == Vec(4, 3)
SmallerCaps == {Vec(3, 3), Vec(4, 1)}
Reports    == {Vec(0, 0), Vec(1, 1)}

\* An optional task between two mandatory ones, at a provider of its own.
Chain ==
  [deps |-> <<{}, {}, {1}>>, optional |-> {2}, skipped |-> {}, writes |-> {},
   provider |-> <<"bob", "watsonx", "bob">>,
   cost |-> <<Vec(2, 1), Vec(1, 1), Vec(1, 1)>>,
   p50 |-> <<1, 0, 1>>, p95 |-> <<2, 1, 1>>, due |-> <<2, 4, 4>>]

\* Two optional tasks, one needed by the mandatory one, which writes.
Protecting ==
  [deps |-> <<{}, {}, {2}>>, optional |-> {1, 2}, skipped |-> {}, writes |-> {3},
   provider |-> <<"watsonx", "bob", "bob">>,
   cost |-> <<Vec(1, 1), Vec(2, 1), Vec(0, 0)>>,
   p50 |-> <<1, 1, 0>>, p95 |-> <<2, 1, 1>>, due |-> <<4, 4, 4>>]

\* An optional task that depends on a less valuable one.
Inverted ==
  [deps |-> <<{2}, {}, {}>>, optional |-> {1, 2}, skipped |-> {}, writes |-> {},
   provider |-> <<"bob", "watsonx", "bob">>,
   cost |-> <<Vec(1, 0), Vec(1, 1), Vec(2, 1)>>,
   p50 |-> <<1, 1, 1>>, p95 |-> <<1, 1, 2>>, due |-> <<4, 4, 4>>]

Workflows == {Chain, Protecting, Inverted}
=============================================================================
