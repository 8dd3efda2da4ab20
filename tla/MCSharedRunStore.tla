-------------------------- MODULE MCSharedRunStore --------------------------
(* Two processes contend for two tasks of one run. *)
EXTENDS SharedRunStore, TLC

CONSTANTS c1, c2

ClientSymmetry == Permutations(Clients)
=============================================================================
