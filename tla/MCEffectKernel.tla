--------------------------- MODULE MCEffectKernel ---------------------------
(***************************************************************************)
(* Instances of EffectKernel for TLC: the operations are named after their *)
(* effect class.                                                           *)
(***************************************************************************)
EXTENDS EffectKernel

CONSTANTS set, patch, alert  \* an idempotent, a reversible, an irreversible one

AllOperations == {set, patch, alert}

MCEffectClass ==
  [o \in Operations |-> CASE o = set   -> "idempotent_write"
                          [] o = patch -> "reversible_write"
                          [] o = alert -> "irreversible_write"]
=============================================================================
