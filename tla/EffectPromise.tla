---------------------------- MODULE EffectPromise ---------------------------
(***************************************************************************)
(* What the effect kernel of effects.py promises to someone who sees only  *)
(* the target, the approvals and the final word on each effect: an effect  *)
(* happens at most once and as proposed, an irreversible one only with an  *)
(* authorisation, "done" is never said of an effect that did not happen    *)
(* nor "undone" of one that was not reverted, only a reversible effect     *)
(* that was not abandoned is reverted, and the last word stands.  Brokers, *)
(* fences, crashes and the outbox are invisible here.                      *)
(***************************************************************************)
CONSTANTS Keys, Operations, EffectClass, NoOp

VARIABLES
  applied,    \* what the target holds for each effect
  reverted,   \* effects the target has undone, whatever the word on them
  outcome,    \* the word on each effect
  authorised  \* effects with an approval of their own

promiseVars == <<applied, reverted, outcome, authorised>>

Init ==
  /\ applied = [k \in Keys |-> NoOp]
  /\ reverted = {}
  /\ outcome = [k \in Keys |-> "open"]
  /\ authorised = {}

Authorise(k) ==
  /\ outcome[k] = "open"
  /\ applied[k] = NoOp
  /\ k \notin authorised
  /\ authorised' = authorised \cup {k}
  /\ UNCHANGED <<applied, reverted, outcome>>

\* The effect happens, and its caller may or may not hear of it.
Happen(k, o) ==
  /\ outcome[k] = "open"
  /\ applied[k] = NoOp
  /\ EffectClass[o] = "irreversible_write" => k \in authorised
  /\ applied' = [applied EXCEPT ![k] = o]
  /\ outcome' \in {outcome, [outcome EXCEPT ![k] = "done"]}
  /\ UNCHANGED <<reverted, authorised>>

Confirm(k) ==
  /\ outcome[k] = "open"
  /\ applied[k] # NoOp
  /\ outcome' = [outcome EXCEPT ![k] = "done"]
  /\ UNCHANGED <<applied, reverted, authorised>>

\* The effect is reverted, and its caller may or may not hear of it: then it
\* asks again, and an open effect may still be confirmed.
Undo(k) ==
  /\ outcome[k] \in {"open", "done"}
  /\ applied[k] # NoOp /\ EffectClass[applied[k]] = "reversible_write"
  /\ reverted' = reverted \cup {k}
  /\ outcome' \in {outcome, [outcome EXCEPT ![k] = "undone"]}
  /\ UNCHANGED <<applied, authorised>>

\* The kernel may abandon an effect whose application it never heard of.
Abandon(k) ==
  /\ outcome[k] = "open"
  /\ k \notin reverted
  /\ outcome' = [outcome EXCEPT ![k] = "abandoned"]
  /\ UNCHANGED <<applied, reverted, authorised>>

Next ==
  \E k \in Keys :
    \/ Authorise(k)
    \/ \E o \in Operations : Happen(k, o)
    \/ Confirm(k)
    \/ Undo(k)
    \/ Abandon(k)

Spec == Init /\ [][Next]_promiseVars
=============================================================================
