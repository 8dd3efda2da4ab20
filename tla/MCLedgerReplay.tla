--------------------------- MODULE MCLedgerReplay ---------------------------
(* A budget of two units in which a vector can fit in one and not the other. *)
EXTENDS LedgerReplay, TLC

Vec(t, c) == ("tokens" :> t @@ "cost" :> c)

TwoUnits == {"tokens", "cost"}
SmallBudget == Vec(3, 1)
SomeAmounts == {Vec(1, 1), Vec(2, 0)}

AttemptSymmetry == Permutations(Attempts)
=============================================================================
