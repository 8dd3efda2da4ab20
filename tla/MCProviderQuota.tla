--------------------------- MODULE MCProviderQuota ---------------------------
(* Three calls, windows of different lengths, and less room than they ask for. *)
EXTENDS QuotaReplay, TLC

Limits ==
  [s \in Scopes |-> IF s = "provider"
                    THEN [rpm |-> 3, tpm |-> 4, concurrency |-> 3, window |-> 1]
                    ELSE [rpm |-> 4, tpm |-> 5, concurrency |-> 2, window |-> 2]]

CallSymmetry == Permutations(Calls)
=============================================================================
