-------------------------- MODULE ExecutionPromise --------------------------
(***************************************************************************)
(* What execute promises for a run, whatever the process that executes it  *)
(* goes through and is given: the run keeps the plan it was admitted with, *)
(* calls of a task are bounded by it, a task is tried only after its       *)
(* dependencies are done and never again once it is done, and nothing is   *)
(* tried or done after the run has its verdict.                            *)
(***************************************************************************)
EXTENDS Integers

CONSTANTS
  Tasks,
  Plans    \* records: the dependencies of each task, the tasks that only
           \* propose an effect, and the calls allowed per task

VARIABLES
  plan,      \* what the run was admitted with, NoPlan before
  tried,     \* calls started for each task
  done,      \* tasks with a durable output
  verdict    \* "open", "awaiting", "completed", "failed" or "cancelled"

vars == <<plan, tried, done, verdict>>

NoPlan == [deps |-> [t \in Tasks |-> {}], writes |-> {}, attempts |-> 0]

Init ==
  /\ plan    = NoPlan
  /\ tried   = [t \in Tasks |-> 0]
  /\ done    = {}
  /\ verdict = "open"

Admit ==
  /\ plan = NoPlan
  /\ plan' \in Plans
  /\ UNCHANGED <<tried, done, verdict>>

Startable(t) ==
  plan # NoPlan /\ verdict = "open" /\ t \notin done /\ plan.deps[t] \subseteq done

Try(t) ==
  /\ Startable(t)
  /\ t \notin plan.writes
  /\ tried[t] < plan.attempts
  /\ tried' = [tried EXCEPT ![t] = @ + 1]
  /\ UNCHANGED <<plan, done, verdict>>

Accomplish(t) ==
  /\ Startable(t)
  /\ t \in plan.writes \/ tried[t] > 0
  /\ done' = done \cup {t}
  /\ UNCHANGED <<plan, tried, verdict>>

\* A run that awaits its effects may later be found complete, nothing else.
Decide(v) ==
  /\ \/ verdict = "open" /\ (v \in {"awaiting", "completed"} => done = Tasks)
     \/ verdict = "awaiting" /\ v = "completed"
  /\ verdict' = v
  /\ UNCHANGED <<plan, tried, done>>

Next ==
  \/ Admit
  \/ \E t \in Tasks : Try(t) \/ Accomplish(t)
  \/ \E v \in {"awaiting", "completed", "failed", "cancelled"} : Decide(v)

Spec == Init /\ [][Next]_vars
=============================================================================
