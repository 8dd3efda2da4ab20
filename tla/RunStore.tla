------------------------------ MODULE RunStore ------------------------------
(***************************************************************************)
(* The append-only run ledger of run_store.py, for one run.                *)
(*                                                                         *)
(* Every call is one BEGIN IMMEDIATE transaction, so it is one step.  The  *)
(* ledger is a set of events with unique identifiers; the order of two     *)
(* events is observable only through what was already there when the later *)
(* one was appended.  The task.attempt_started events are kept apart:      *)
(* start_attempt numbers them MAX + 1, so the ones of a task are exactly   *)
(* 1 .. calls[task].                                                       *)
(***************************************************************************)
EXTENDS Integers, FiniteSets

CONSTANTS
  Tasks,    \* task ids, as numbers in their sorted order
  NoTask    \* the task id of an event about the run

ASSUME StoreAssumption ==
  /\ Tasks \subseteq Nat \ {0}
  /\ NoTask \notin Tasks

VARIABLES
  calls,   \* task.attempt_started: the attempts of a task are 1 .. calls[t]
  events   \* the other events of the run

storeVars == <<calls, events>>

Outcomes == {"attempt_failed", "attempt_cancelled", "attempt_succeeded"}

\* The event identifiers that carry the attempt number.
PerAttempt == Outcomes \cup {"circuit_opened", "retry_scheduled"}

Event(type, t, n, body) == [type |-> type, task |-> t, attempt |-> n, body |-> body]

Id(e) == <<e.type, e.task, IF e.type \in PerAttempt THEN e.attempt ELSE 0>>

\* Mutant: an event identifier is not compared before it is inserted.
ConflictsNever(e) == FALSE

\* EventConflict: the identifier is taken by an event with other content.
Conflicts(e) == \E f \in events : Id(f) = Id(e) /\ f # e

\* Append once by identifier: an exact replay finds its event and adds nothing.
Appends(S) ==
  /\ \A e \in S : ~Conflicts(e)
  /\ events' = events \cup S

Has(type, t)  == \E e \in events : e.type = type /\ e.task = t
CompletedTasks == {t \in Tasks : Has("completed", t)}

\* start_attempt: the next number and its event in one transaction.
StartAttempt(t) == calls' = [calls EXCEPT ![t] = @ + 1]

\* complete_attempt: the outcome and the completion in one transaction.  The
\* completion is identified by its task, so it conflicts with that of any
\* other attempt and the transaction keeps neither event.
Completion(t, n) == {Event("attempt_succeeded", t, n, "output"),
                     Event("completed", t, n, "output")}

StoreInit ==
  /\ calls  = [t \in Tasks |-> 0]
  /\ events = {}
=============================================================================
