--------------------------- MODULE SharedRunStore ---------------------------
(***************************************************************************)
(* Processes that run the same run against one RunStore, with no other     *)
(* discipline than that each settles the attempts it started.  The store   *)
(* offers no execution lease, so what holds here is what the ledger alone  *)
(* guarantees to executors that do not know of each other.                 *)
(***************************************************************************)
EXTENDS RunStore

CONSTANTS
  Clients,     \* processes that share the database
  MaxNumber    \* bound: no attempt is numbered above MaxNumber

ASSUME SharedAssumption == MaxNumber \in Nat

VARIABLE
  holds   \* the attempts each client has started and not yet settled

sharedVars == <<storeVars, holds>>

SharedInit == StoreInit /\ holds = [c \in Clients |-> {}]

Starts(c, t) ==
  /\ calls[t] < MaxNumber
  /\ StartAttempt(t)
  /\ holds' = [holds EXCEPT ![c] = @ \cup {<<t, calls'[t]>>}]
  /\ UNCHANGED events

Settles(c, t, n, S) ==
  /\ <<t, n>> \in holds[c]
  /\ Appends(S)
  /\ holds' = [holds EXCEPT ![c] = @ \ {<<t, n>>}]
  /\ UNCHANGED calls

Completes(c, t, n) == Settles(c, t, n, Completion(t, n))

Fails(c, t, n) ==
  \E outcome \in Outcomes \ {"attempt_succeeded"}, retryable \in {"retryable", "final"} :
    Settles(c, t, n, {Event(outcome, t, n, retryable)})

\* complete_attempt raises EventConflict: the attempt stays open for ever.
LosesTheRace(c, t, n) ==
  /\ <<t, n>> \in holds[c]
  /\ \E e \in Completion(t, n) : Conflicts(e)
  /\ holds' = [holds EXCEPT ![c] = @ \ {<<t, n>>}]
  /\ UNCHANGED <<calls, events>>

\* The process dies; its attempts stay open in the ledger.
Dies(c) ==
  /\ holds[c] # {}
  /\ holds' = [holds EXCEPT ![c] = {}]
  /\ UNCHANGED <<calls, events>>

SharedNext ==
  \E c \in Clients :
    \/ Dies(c)
    \/ \E t \in Tasks :
         \/ Starts(c, t)
         \/ \E n \in 1 .. MaxNumber :
              Completes(c, t, n) \/ Fails(c, t, n) \/ LosesTheRace(c, t, n)

SharedSpec == SharedInit /\ [][SharedNext]_sharedVars

-----------------------------------------------------------------------------
(* Properties *)

\* The completion of a task is unique, and it is that of an attempt that
\* succeeded; an attempt that succeeded is the one that completed its task.
\* This is what lets a restarted executor skip the task whoever ran it
\* (idx_run_task_single_completion, run_events_completion_requires_source).
CompletionIsTheSuccess ==
  \A t \in Tasks :
    /\ \A e, f \in events :
         e.type = "completed" /\ f.type = "completed" /\ e.task = t /\ f.task = t => e = f
    /\ \A n \in 1 .. MaxNumber :
         (\E e \in events : e.type = "completed" /\ e.task = t /\ e.attempt = n)
           <=> (\E e \in events : e.type = "attempt_succeeded" /\ e.task = t /\ e.attempt = n)

\* An attempt is held by at most one client and settled at most once, however
\* the clients interleave: attempt numbers are allocated under the database's
\* write lock (start_attempt).
AttemptsHaveOneOwner ==
  /\ \A c, d \in Clients : c # d => holds[c] \cap holds[d] = {}
  /\ \A e, f \in events :
       /\ e.type \in Outcomes /\ f.type \in Outcomes
       /\ e.task = f.task /\ e.attempt = f.attempt
       => e = f
  /\ \A c \in Clients : \A h \in holds[c] :
       \A e \in events : e.type \in Outcomes => <<e.task, e.attempt>> # h

\* Without a lease on the run, the ledger's uniqueness arbitrates between its
\* clients, on attempts and on completions.
TheLedgerArbitrates == CompletionIsTheSuccess /\ AttemptsHaveOneOwner
=============================================================================
