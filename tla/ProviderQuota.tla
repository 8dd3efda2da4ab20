---------------------------- MODULE ProviderQuota ----------------------------
(***************************************************************************)
(* ProviderQuotaPhysics of provider_quota.py: calls to a provider are      *)
(* admitted against token buckets that refill in fixed windows, against a  *)
(* number of concurrent leases and against resets the provider declares,   *)
(* for the provider and for an aggregate ("global") guard.  A failed call  *)
(* may be retried under its first deadline.                                *)
(*                                                                         *)
(* The clock is moved by the caller between two operations.  Every step    *)
(* moves it first, by any amount, and the operation then happens at now'.  *)
(* What an operation decides is written as functions of the quota's state  *)
(* and the time; each operation also has the event it records.             *)
(* An attempt id and the id of its lease are digests of the call and the   *)
(* attempt's number; both are that pair here.                              *)
(***************************************************************************)
EXTENDS Integers, FiniteSets, Functions

CONSTANTS
  Calls,         \* logical ids
  MaxAttempts,   \* RetryPolicy.max_attempts
  BaseBackoff,   \* RetryPolicy.base_backoff_ms
  MaxBackoff,    \* RetryPolicy.max_backoff_ms
  Limit,         \* per scope: rpm, tpm, concurrency and window (QuotaLimits)
  TokenCaps,     \* bound: the estimates of the requests
  Actuals,       \* bound: the tokens that are reported as used
  Deadlines,     \* bound: the deadlines that are requested
  Resets,        \* bound: how far ahead a provider declares its reset
  MaxTime,       \* bound: the last time at which an operation is called
  None           \* Python's None

Scopes   == {"provider", "global"}
Attempts == Calls \X (0..MaxAttempts - 1)

Buckets == [rpm : Nat, tpm : Nat, since : Nat]
Leases  == [tokens : Nat, since : [Scopes -> Nat], deadline : Nat \cup {None}]
\* retryable is retryAt # None: the two are assigned together.
Logical == [last : Nat, deadline : Nat \cup {None}, retryAt : Int \cup {None},
            terminal : BOOLEAN]
Charges == [at : Nat, charge : Nat]

ASSUME QuotaAssumption ==
  /\ IsFiniteSet(Calls)
  /\ MaxAttempts \in Nat \ {0} /\ BaseBackoff \in Nat /\ MaxBackoff \in Nat
  /\ BaseBackoff <= MaxBackoff
  /\ \A s \in Scopes :
       /\ Limit[s].rpm \in Nat \ {0} /\ Limit[s].tpm \in Nat \ {0}
       /\ Limit[s].concurrency \in Nat \ {0} /\ Limit[s].window \in Nat \ {0}
  /\ TokenCaps \subseteq Nat \ {0} /\ Actuals \subseteq Nat
  /\ Deadlines \subseteq Nat /\ Resets \subseteq Nat \ {0}
  /\ MaxTime \in Nat
  /\ None \notin Int \cup Leases \cup Logical \cup Charges

VARIABLES
  now,     \* the clock
  quota,   \* the state of ProviderQuotaPhysics, without its events
  calls    \* history: when each attempt was admitted and what it is charged

vars == <<now, quota, calls>>

\* The remaining requests and tokens per scope and the time they fill since,
\* the slots in use, the reset, _logical, _active and _admitted_attempt_ids.
States == [buckets : [Scopes -> Buckets], inUse : [Scopes -> Nat], resetUntil : Nat,
           logical : [Calls -> Logical \cup {None}],
           active : [Attempts -> Leases \cup {None}], admitted : SUBSET Attempts]

Smaller(a, b) == IF a < b THEN a ELSE b
Larger(a, b)  == IF a < b THEN b ELSE a

NoLaterThan(t, deadline) == deadline = None \/ t <= deadline

\* backoff_for: before attempt 1, 2, ...
Backoff(n) == IF BaseBackoff = 0 THEN 0
              ELSE Smaller(BaseBackoff * 2 ^ Smaller(n - 1, 62), MaxBackoff)

Configured ==
  [buckets |-> [s \in Scopes |-> [rpm |-> Limit[s].rpm, tpm |-> Limit[s].tpm, since |-> 0]],
   inUse |-> [s \in Scopes |-> 0], resetUntil |-> 0, logical |-> [c \in Calls |-> None],
   active |-> [a \in Attempts |-> None], admitted |-> {}]

Init == now = 0 /\ quota = Configured /\ calls = [a \in Attempts |-> None]

\* _refresh: the windows that have ended since refill the buckets, which hold
\* no more than their capacity.
Refreshed(q, at) ==
  [s \in Scopes |->
     LET b == q.buckets[s]
         periods == (at - b.since) \div Limit[s].window
     IN IF periods = 0 THEN b
        ELSE [rpm   |-> Smaller(Limit[s].rpm, b.rpm + periods * Limit[s].rpm),
              tpm   |-> Smaller(Limit[s].tpm, b.tpm + periods * Limit[s].tpm),
              since |-> b.since + periods * Limit[s].window]]

\* An operation that only looks.
Looked(q, at) == [q EXCEPT !.buckets = Refreshed(q, at)]

\* The counters every event carries, as they are after the operation.
Snapshot(q) ==
  [remaining |-> [s \in Scopes |-> <<q.buckets[s].rpm, q.buckets[s].tpm>>],
   inUse |-> q.inUse, resetUntil |-> q.resetUntil]

-----------------------------------------------------------------------------
(* acquire *)

\* A retry names the attempt it follows; an initial call names none.
Requests ==
  {r \in [call : Calls, attempt : 0..MaxAttempts, tokens : TokenCaps,
          previous : (0..MaxAttempts - 1) \cup {None}, deadline : Deadlines \cup {None}] :
     (r.attempt = 0) = (r.previous = None)}

\* Mutant: a retry may follow an attempt that has not failed.
FollowsAnyway(r, l) ==
  r.attempt = l.last + 1 /\ r.previous = l.last /\ r.deadline \in {None, l.deadline}

\* The request is the retry that was allowed to this call.
Follows(r, l) ==
  /\ l.retryAt # None
  /\ r.attempt = l.last + 1 /\ r.previous = l.last
  /\ r.deadline \in {None, l.deadline}

\* A reason is a pair: whose limit it is, and which.
IdentityReasons(q, r) ==
  LET l == q.logical[r.call]
      Because(why) == {<<"call", why>>}
  IN IF r.attempt = 0
     THEN IF l = None THEN {} ELSE Because(IF l.terminal THEN "terminal" ELSE "identity")
     ELSE IF l = None THEN Because("identity")
     ELSE IF r.attempt >= MaxAttempts THEN Because("retry_exhausted")
     ELSE IF l.terminal THEN Because("terminal")
     ELSE IF Follows(r, l) THEN {} ELSE Because("identity")

\* A call keeps the deadline it was first requested with.
DeadlineOf(q, r) ==
  IF q.logical[r.call] = None THEN r.deadline ELSE q.logical[r.call].deadline

RetryAtOf(q, r) == IF q.logical[r.call] = None THEN None ELSE q.logical[r.call].retryAt

TimingReasons(q, r, at) ==
  IF ~NoLaterThan(at, DeadlineOf(q, r)) THEN {<<"call", "deadline">>}
  ELSE IF at < q.resetUntil THEN {<<"provider", "reset">>}
  ELSE IF RetryAtOf(q, r) # None /\ at < RetryAtOf(q, r) THEN {<<"call", "backoff">>}
  ELSE {}

Exhausted(q, r, at, s, what) ==
  \/ what = "rpm" /\ Refreshed(q, at)[s].rpm < 1
  \/ what = "tpm" /\ Refreshed(q, at)[s].tpm < r.tokens
  \/ what = "concurrency" /\ q.inUse[s] >= Limit[s].concurrency

CapacityReasons(q, r, at) ==
  {x \in Scopes \X {"rpm", "tpm", "concurrency"} : Exhausted(q, r, at, x[1], x[2])}

\* Only the first kind of reason that applies is given.
Reasons(q, r, at) ==
  IF IdentityReasons(q, r) # {} THEN IdentityReasons(q, r)
  ELSE IF TimingReasons(q, r, at) # {} THEN TimingReasons(q, r, at)
  ELSE CapacityReasons(q, r, at)

\* When to try again, if the time is what is wrong.
RetryHint(q, r, at) ==
  CASE Reasons(q, r, at) = {<<"provider", "reset">>} -> q.resetUntil
    [] Reasons(q, r, at) = {<<"call", "backoff">>}   -> RetryAtOf(q, r)
    [] OTHER -> None

RefusalEvent(q, r, at) ==
  [kind |-> "admission_refused", at |-> at, request |-> r, deadline |-> DeadlineOf(q, r),
   reasons |-> Reasons(q, r, at), retryAt |-> RetryHint(q, r, at),
   after |-> Snapshot(Looked(q, at))]

\* One request, the estimated tokens and one slot are taken in both scopes.
Admitted(q, r, at) ==
  LET b == Refreshed(q, at)
      a == <<r.call, r.attempt>>
  IN [buckets |-> [s \in Scopes |-> [b[s] EXCEPT !.rpm = @ - 1, !.tpm = @ - r.tokens]],
      inUse |-> [s \in Scopes |-> q.inUse[s] + 1],
      resetUntil |-> q.resetUntil,
      logical |-> [q.logical EXCEPT ![r.call] =
                     [last |-> r.attempt, deadline |-> DeadlineOf(q, r), retryAt |-> None,
                      terminal |-> FALSE]],
      active |-> [q.active EXCEPT ![a] =
                    [tokens |-> r.tokens, since |-> [s \in Scopes |-> b[s].since],
                     deadline |-> DeadlineOf(q, r)]],
      admitted |-> q.admitted \cup {a}]

AdmissionEvent(q, r, at) ==
  [kind |-> "call_admitted", at |-> at, request |-> r, deadline |-> DeadlineOf(q, r),
   after |-> Snapshot(Admitted(q, r, at))]

-----------------------------------------------------------------------------
(* complete, fail_retryable and provider_429 *)

\* Mutant: unused tokens are returned whichever window is current.
RefundAlways(q, x, at) ==
  [s \in Scopes |-> Smaller(q.active[x.attempt].tokens - x.actual,
                            Limit[s].tpm - Refreshed(q, at)[s].tpm)]

\* refund_if_current: unused tokens go back to the window they were taken from.
Refund(q, x, at) ==
  [s \in Scopes |->
     IF q.active[x.attempt].since[s] # Refreshed(q, at)[s].since THEN 0
     ELSE Smaller(q.active[x.attempt].tokens - x.actual,
                  Limit[s].tpm - Refreshed(q, at)[s].tpm)]

\* A declared reset never shortens the one before.
ResetAfter(q, x, at) ==
  IF x.outcome = "provider_429" THEN Larger(q.resetUntil, at + x.reset) ELSE q.resetUntil

\* The time of the next attempt, or None if this was the call's last.
RetryTime(q, x, at) ==
  LET next == x.attempt[2] + 1
      backoff == at + Backoff(next)
      earliest == IF x.outcome = "provider_429" THEN Larger(backoff, ResetAfter(q, x, at))
                  ELSE backoff
  IN IF /\ x.outcome # "success" /\ next < MaxAttempts
        /\ NoLaterThan(earliest, q.active[x.attempt].deadline)
     THEN earliest ELSE None

\* _settle_active, and what becomes of the call.
Settled(q, x, at) ==
  LET b == Refreshed(q, at)
      retryAt == RetryTime(q, x, at)
  IN [q EXCEPT !.buckets = [s \in Scopes |-> [b[s] EXCEPT !.tpm = @ + Refund(q, x, at)[s]]],
               !.inUse = [s \in Scopes |-> q.inUse[s] - 1],
               !.active[x.attempt] = None,
               !.resetUntil = ResetAfter(q, x, at),
               !.logical[x.attempt[1]] =
                  [@ EXCEPT !.retryAt = retryAt, !.terminal = (retryAt = None)]]

SettlementEvent(q, x, at) ==
  [kind |-> "call_settled", at |-> at, attempt |-> x.attempt, outcome |-> x.outcome,
   cap |-> q.active[x.attempt].tokens, actual |-> x.actual, refund |-> Refund(q, x, at),
   resetAt |-> IF x.outcome = "provider_429" THEN ResetAfter(q, x, at) ELSE None,
   retryAt |-> RetryTime(q, x, at),
   after |-> Snapshot(Settled(q, x, at))]

OverrunEvent(q, x, at) ==
  [kind |-> "settlement_refused", at |-> at, attempt |-> x.attempt, actual |-> x.actual,
   cap |-> q.active[x.attempt].tokens, after |-> Snapshot(Looked(q, at))]

-----------------------------------------------------------------------------
(* The operations *)

AcquireRefused(r) ==
  /\ Reasons(quota, r, now') # {}
  /\ quota' = Looked(quota, now')
  /\ UNCHANGED calls

Acquire(r) ==
  /\ Reasons(quota, r, now') = {}
  /\ quota' = Admitted(quota, r, now')
  /\ calls' = [calls EXCEPT ![<<r.call, r.attempt>>] = [at |-> now', charge |-> r.tokens]]

\* A settlement above the cap is refused and the lease stays.
SettlementRefused(x) ==
  /\ quota.active[x.attempt] # None /\ x.actual > quota.active[x.attempt].tokens
  /\ quota' = Looked(quota, now')
  /\ UNCHANGED calls

Settle(x) ==
  /\ quota.active[x.attempt] # None /\ x.actual <= quota.active[x.attempt].tokens
  /\ quota' = Settled(quota, x, now')
  /\ calls' = [calls EXCEPT ![x.attempt].charge = x.actual]

Complete(x)      == x.outcome = "success" /\ Settle(x)
FailRetryable(x) == x.outcome = "retryable_failure" /\ Settle(x)
Provider429(x)   == x.outcome = "provider_429" /\ Settle(x)

\* What a caller may report of a lease.
Reports ==
  {x \in [attempt : Attempts, actual : Actuals, reset : Resets \cup {0},
          outcome : {"success", "retryable_failure", "provider_429"}] :
     (x.outcome = "provider_429") = (x.reset # 0)}

Next ==
  /\ now' \in now..MaxTime
  /\ \/ \E r \in Requests : AcquireRefused(r) \/ Acquire(r)
     \/ \E x \in Reports :
          SettlementRefused(x) \/ Complete(x) \/ FailRetryable(x) \/ Provider429(x)

Spec == Init /\ [][Next]_vars

-----------------------------------------------------------------------------
(* Properties *)

\* The attempts admitted in the window whose buckets are shown.
InWindow(s) == {a \in Attempts : calls[a] # None /\ calls[a].at >= quota.buckets[s].since}

\* What is missing from a bucket is what the attempts of its own window took:
\* one request each, and the tokens they hold or, once settled, used.  So no
\* window admits more than its limit, whatever is settled late, and nothing
\* that was not used stays charged to the window it was taken from.
WindowsAreAccounts ==
  \A s \in Scopes :
    /\ quota.buckets[s].rpm + Cardinality(InWindow(s)) = Limit[s].rpm
    /\ quota.buckets[s].tpm + SumFunction([a \in InWindow(s) |-> calls[a].charge]) = Limit[s].tpm

Leased == {a \in Attempts : quota.active[a] # None}

\* Every slot in use is held by one lease, no scope lends more than it has,
\* and a call holds a lease only for its latest attempt, while it is neither
\* over nor allowed a retry.
SlotsAreLeases ==
  /\ \A s \in Scopes :
       quota.inUse[s] = Cardinality(Leased) /\ quota.inUse[s] <= Limit[s].concurrency
  /\ \A a \in Leased : LET l == quota.logical[a[1]]
                       IN l.last = a[2] /\ ~l.terminal /\ l.retryAt = None

\* Neither a window nor a slot is lent twice, lost or kept.
AccountsAreExact == WindowsAreAccounts /\ SlotsAreLeases

\* The condition on the admission of attempt a: the provider is not in a reset,
\* the call's first deadline has not passed, and a retry follows a failure that
\* allowed it no later than now.
TimelyAdmission(a) ==
  LET before == quota.logical[a[1]]
      after  == quota'.logical[a[1]]
  IN /\ quota.resetUntil <= now'
     /\ NoLaterThan(now', after.deadline)
     /\ before = None => a[2] = 0
     /\ before # None => /\ a[2] = before.last + 1 /\ after.deadline = before.deadline
                         /\ ~before.terminal /\ before.retryAt # None /\ before.retryAt <= now'
                         /\ quota.active[<<a[1], before.last>>] = None

\* The condition on one step: what is admitted is new and on time, a reset is
\* never shortened, and a call that is over stays as it is.
AdmitsOnTime ==
  /\ \A a \in Attempts :
       IF calls[a] = None THEN calls'[a] # None => TimelyAdmission(a)
       ELSE calls'[a] # None /\ calls'[a].at = calls[a].at
  /\ quota'.resetUntil >= quota.resetUntil
  /\ \A c \in Calls : quota.logical[c] # None =>
       (quota.logical[c].terminal => quota'.logical[c] = quota.logical[c])

\* No attempt is admitted during a provider's reset, after its call's deadline,
\* before its backoff is over, out of turn or twice, whatever the retries ask.
RetriesKeepTheRules == [][AdmitsOnTime]_vars
=============================================================================
