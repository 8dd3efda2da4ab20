---------------------------- MODULE ResourceLedger ----------------------------
(***************************************************************************)
(* ResourceBudgetLedger of resource_ledger.py: attempts reserve a share of *)
(* a finite budget and later settle or cancel it.  Every call, the refused *)
(* ones included, is recorded as one event that carries the decision and   *)
(* the accounting state after it.  The events' sequence numbers and digest *)
(* are abstracted: only the latest event is kept.                          *)
(***************************************************************************)
EXTENDS Integers, FiniteSets, Functions

CONSTANTS
  Attempts,   \* attempt ids
  Units,      \* the resource units of a ResourceVector
  Capacity,   \* the ledger's capacity
  Amounts,    \* bound: the vectors that are requested and settled
  None        \* Python's None: neither a vector nor a reason

Vectors == [Units -> Nat]

Operations == {"reserve", "settle", "cancel"}
Refusals   == {"identity_conflict", "capacity_exceeded", "unknown_attempt",
               "terminal_attempt", "actual_over_reservation"}
Fates      == {"settled", "cancelled", "reservation_refused"}

ASSUME LedgerAssumption ==
  /\ IsFiniteSet(Attempts) /\ IsFiniteSet(Units)
  /\ Capacity \in Vectors
  /\ Amounts \subseteq Vectors
  /\ None \notin Vectors \cup Refusals

VARIABLES
  spent,     \* _spent
  active,    \* _active: the reservation of each active attempt, else None
  terminal,  \* _terminal: what became of each other attempt, else None
  event      \* the latest recorded event

ledger == <<spent, active, terminal>>
ledgerVars == <<ledger, event>>

\* Mutant: only the first unit is compared.
FitsInOneUnit(v, limit) == \E u \in Units : v[u] <= limit[u]

FitsWithin(v, limit) == \A u \in Units : v[u] <= limit[u]

Plus(v, w)  == [u \in Units |-> v[u] + w[u]]
Minus(v, w) == [u \in Units |-> v[u] - w[u]]
Zero        == [u \in Units |-> 0]

ActiveIn(act) == {a \in Attempts : act[a] # None}

\* The sum of the reservations that are held.
Held(act) == [u \in Units |-> SumFunction([a \in ActiveIn(act) |-> act[a][u]])]

Available(s, act) == Minus(Capacity, Plus(s, Held(act)))

\* The accounting state an event carries: what it says beyond spent and held
\* is derived from them.
Snapshot(s, act, term) ==
  [spent |-> s, held |-> Held(act), active |-> Cardinality(ActiveIn(act)),
   terminal |-> Cardinality({a \in Attempts : term[a] # None})]

Known(a) == active[a] # None \/ terminal[a] # None

\* The event of a call, with the snapshot after it; reason is None if applied.
Record(op, a, reservation, actual, reason) ==
  event' = [operation |-> op, attempt |-> a, reservation |-> reservation,
            actual |-> actual, reason |-> reason,
            post |-> Snapshot(spent', active', terminal')]

Refuse(op, a, reservation, actual, reason) ==
  /\ UNCHANGED ledger
  /\ Record(op, a, reservation, actual, reason)

\* The attempt leaves _active for _terminal.
Retire(a, fate) ==
  /\ active'   = [active EXCEPT ![a] = None]
  /\ terminal' = [terminal EXCEPT ![a] = fate]

LedgerInit ==
  /\ spent    = Zero
  /\ active   = [a \in Attempts |-> None]
  /\ terminal = [a \in Attempts |-> None]
  /\ event    = None

ReserveConflicts(a, requested) ==
  /\ Known(a)
  /\ Refuse("reserve", a, requested, None, "identity_conflict")

\* A refused reservation uses up its attempt id.
ReserveRefused(a, requested) ==
  /\ ~Known(a)
  /\ ~FitsWithin(requested, Available(spent, active))
  /\ terminal' = [terminal EXCEPT ![a] = "reservation_refused"]
  /\ UNCHANGED <<spent, active>>
  /\ Record("reserve", a, requested, None, "capacity_exceeded")

\* Mutant: a retired attempt id may reserve again.
ReserveAgain(a, requested) ==
  /\ active[a] = None
  /\ FitsWithin(requested, Available(spent, active))
  /\ active' = [active EXCEPT ![a] = requested]
  /\ UNCHANGED <<spent, terminal>>
  /\ Record("reserve", a, requested, None, None)

Reserve(a, requested) ==
  /\ ~Known(a)
  /\ FitsWithin(requested, Available(spent, active))
  /\ active' = [active EXCEPT ![a] = requested]
  /\ UNCHANGED <<spent, terminal>>
  /\ Record("reserve", a, requested, None, None)

\* settle and cancel of an attempt that is not active.
Absent(a) == IF terminal[a] # None THEN "terminal_attempt" ELSE "unknown_attempt"

SettleAbsent(a, actual) ==
  /\ active[a] = None
  /\ Refuse("settle", a, None, actual, Absent(a))

\* The whole reservation stays held until a valid settlement or a cancel.
SettleOverrun(a, actual) ==
  /\ active[a] # None
  /\ ~FitsWithin(actual, active[a])
  /\ Refuse("settle", a, active[a], actual, "actual_over_reservation")

Settle(a, actual) ==
  /\ active[a] # None
  /\ FitsWithin(actual, active[a])
  /\ spent' = Plus(spent, actual)
  /\ Retire(a, "settled")
  /\ Record("settle", a, active[a], actual, None)

CancelAbsent(a) ==
  /\ active[a] = None
  /\ Refuse("cancel", a, None, None, Absent(a))

Cancel(a) ==
  /\ active[a] # None
  /\ Retire(a, "cancelled")
  /\ UNCHANGED spent
  /\ Record("cancel", a, active[a], None, None)

Call(a) ==
  \/ \E v \in Amounts :
       \/ ReserveConflicts(a, v) \/ ReserveRefused(a, v) \/ Reserve(a, v)
       \/ SettleAbsent(a, v) \/ SettleOverrun(a, v) \/ Settle(a, v)
  \/ CancelAbsent(a) \/ Cancel(a)

LedgerNext == \E a \in Attempts : Call(a)

LedgerSpec == LedgerInit /\ [][LedgerNext]_ledgerVars

-----------------------------------------------------------------------------
(* Properties *)

\* However reservations, overruns, settlements and refunds interleave, what is
\* spent and what is still held fit the capacity in every unit: the assertion
\* "internal ledger conservation failure" of _snapshot never fires, and the
\* balance that is shown as available is never negative.
Conserved == FitsWithin(Plus(spent, Held(active)), Capacity)

\* The condition on one step.
ChargesOnlySettlements ==
  /\ \A a \in Attempts : terminal[a] # None => terminal'[a] = terminal[a] /\ active'[a] = None
  /\ spent' # spent =>
       \E a \in Attempts : /\ active[a] # None /\ FitsWithin(Minus(spent', spent), active[a])
                           /\ active'[a] = None /\ terminal'[a] = "settled"

\* A retired attempt id never comes back, and the budget is charged only when
\* one active attempt retires as settled, by no more than it had reserved.
RetiredForGood == [][ChargesOnlySettlements]_ledgerVars
=============================================================================
