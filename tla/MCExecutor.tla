----------------------------- MODULE MCExecutor -----------------------------
(* A run executed, lost and taken up again, with two graphs. *)
EXTENDS Executor, TLC

\* Two fixtures that share the provider's one permit, and a write after
\* both.
Join == [deps |-> (1 :> {} @@ 2 :> {} @@ 3 :> {1, 2}), writes |-> {3},
         attempts |-> 2, until |-> 3]

\* A fixture beside a write and one more write after it, with calls enough
\* for the circuit to open, on evidence that expires during the run.
Pair == [deps |-> (1 :> {} @@ 2 :> {1} @@ 3 :> {}), writes |-> {2, 3},
         attempts |-> 3, until |-> 1]

JoinAndPair == {Join, Pair}

AnyProvider == [t \in Tasks |-> "p"]
OnePermit   == [p |-> 1]

\* The second task's own deadline is shorter than the run's.
ShortSecond == (1 :> 2 @@ 2 :> 1 @@ 3 :> 2)
=============================================================================
