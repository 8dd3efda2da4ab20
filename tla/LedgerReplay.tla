----------------------------- MODULE LedgerReplay -----------------------------
(***************************************************************************)
(* replay_and_verify of resource_ledger.py, reading event after event.  It *)
(* decides every operation again from the operation's inputs and compares  *)
(* its decision and its accounting state with what the event claims.       *)
(*                                                                         *)
(* The log it reads is either the one a ledger is recording or a forgery:  *)
(* any sequence of events, so every log with an altered, dropped, repeated *)
(* or swapped event is among them.                                         *)
(***************************************************************************)
EXTENDS ResourceLedger

\* The reason only the replay gives is not Python's None either.
ASSUME ReplayAssumption == None # "malformed_input"

VARIABLES
  vspent, vactive, vterminal,  \* the replayed state
  read,       \* the latest event that was read
  failed,     \* failures is not empty
  evidence    \* where the log comes from: "ledger" or "forgery"

replayed == <<vspent, vactive, vterminal>>
allVars  == <<ledgerVars, replayed, read, failed, evidence>>

ReplayInit ==
  /\ LedgerInit
  /\ vspent = Zero
  /\ vactive   = [a \in Attempts |-> None]
  /\ vterminal = [a \in Attempts |-> None]
  /\ read = None
  /\ failed = FALSE
  /\ evidence \in {"ledger", "forgery"}

\* _snapshot_from_replay: the balance is clamped at zero if the cap is breached.
ReplayAvailable ==
  IF FitsWithin(Plus(vspent, Held(vactive)), Capacity)
  THEN Minus(Capacity, Plus(vspent, Held(vactive))) ELSE Zero

\* The reason the replay expects a reservation to be refused with, or None.
ReserveReason(e) ==
  IF e.actual # None \/ e.reservation = None THEN "malformed_input"
  ELSE IF vactive[e.attempt] # None \/ vterminal[e.attempt] # None THEN "identity_conflict"
  ELSE IF FitsWithin(e.reservation, ReplayAvailable) THEN None ELSE "capacity_exceeded"

AbsentReason(a) == IF vterminal[a] # None THEN "terminal_attempt" ELSE "unknown_attempt"

SettleReason(e) ==
  IF e.actual = None THEN "malformed_input"
  ELSE IF vactive[e.attempt] = None THEN AbsentReason(e.attempt)
  ELSE IF FitsWithin(e.actual, vactive[e.attempt]) THEN None ELSE "actual_over_reservation"

CancelReason(e) ==
  IF e.actual # None THEN "malformed_input"
  ELSE IF vactive[e.attempt] = None THEN AbsentReason(e.attempt) ELSE None

ExpectedReason(e) ==
  IF e.operation = "reserve" THEN ReserveReason(e)
  ELSE IF e.operation = "settle" THEN SettleReason(e) ELSE CancelReason(e)

ExpectedReservation(e) ==
  IF e.operation = "reserve" THEN e.reservation ELSE vactive[e.attempt]

\* The replayed state moves by the expected decision, whatever the event says.
Advance(e) ==
  LET a == e.attempt
      reason == ExpectedReason(e)
      fate == IF reason = "capacity_exceeded" THEN "reservation_refused"
              ELSE IF reason # None \/ e.operation = "reserve" THEN vterminal[a]
              ELSE IF e.operation = "settle" THEN "settled" ELSE "cancelled"
  IN /\ vspent' = IF reason = None /\ e.operation = "settle"
                  THEN Plus(vspent, e.actual) ELSE vspent
     /\ vactive' = IF reason # None THEN vactive
                   ELSE [vactive EXCEPT ![a] =
                           IF e.operation = "reserve" THEN e.reservation ELSE None]
     /\ vterminal' = [vterminal EXCEPT ![a] = fate]

\* Mutant: only the decision is compared.
AgreesOnDecision(e) ==
  /\ e.reservation = ExpectedReservation(e)
  /\ e.reason = ExpectedReason(e)

\* No failure is found: the decision, the reservation and the state after the
\* event are the replayed ones and the capacity holds.
Agrees(e) ==
  /\ e.reservation = ExpectedReservation(e)
  /\ e.reason = ExpectedReason(e)
  /\ e.post = Snapshot(vspent', vactive', vterminal')
  /\ FitsWithin(Plus(vspent', Held(vactive')), Capacity)

ReadEvent(e) ==
  /\ read' = e
  /\ Advance(e)
  /\ failed' = (failed \/ ~Agrees(e))
  /\ UNCHANGED evidence

\* The ledger records an event and the replay reads it.
ReadRecorded ==
  /\ evidence = "ledger"
  /\ LedgerNext
  /\ ReadEvent(event')

\* The decisions a forged event may claim, whether or not they are the right
\* ones, and the states it may claim: a right one or the one before it.
Claims == Refusals \cup {None, "malformed_input"}

ReadForged ==
  /\ evidence = "forgery"
  /\ ~failed
  /\ \E op \in Operations, a \in Attempts, r, x \in Amounts \cup {None}, why \in Claims :
       LET e == [operation |-> op, attempt |-> a, reservation |-> r, actual |-> x, reason |-> why]
       IN /\ Advance(e)
          /\ \E post \in {Snapshot(vspent', vactive', vterminal'),
                          Snapshot(vspent, vactive, vterminal)} :
               ReadEvent([operation |-> op, attempt |-> a, reservation |-> r,
                          actual |-> x, reason |-> why, post |-> post])
  /\ UNCHANGED ledgerVars

ReplayNext == ReadRecorded \/ ReadForged

ReplaySpec == ReplayInit /\ [][ReplayNext]_allVars

-----------------------------------------------------------------------------
(* Properties *)

\* The replay of a ledger's own log finds no failure and arrives at the
\* ledger's state: the two implementations of the policy agree.
RecordedLogsPass ==
  evidence = "ledger" => ~failed /\ replayed = ledger

Replayed == INSTANCE ResourceLedger WITH
  spent <- vspent, active <- vactive, terminal <- vterminal, event <- read

\* A malformed event claims a refusal no ledger records; it has no effect.
Malformed == read'.reason = "malformed_input" /\ UNCHANGED replayed

\* The condition on one step.
AcceptedIsLedgerStep ==
  evidence = "forgery" /\ ~failed' => Replayed!LedgerNext \/ Malformed

\* The replay passes a log exactly if a ledger could have recorded it, apart from
\* malformed events without effect: a ledger's own log never fails, and no
\* alteration, omission or reordering that a ledger could not have produced goes
\* unnoticed.
ReplayIsExact == [][RecordedLogsPass' /\ AcceptedIsLedgerStep]_allVars
=============================================================================
