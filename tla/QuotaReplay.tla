----------------------------- MODULE QuotaReplay -----------------------------
(***************************************************************************)
(* replay_quota_events of provider_quota.py, reading the log of a quota as *)
(* it is recorded.  The replay keeps a quota state of its own and decides  *)
(* from it whether the next event may be what it says; the first event it  *)
(* does not believe ends it.                                               *)
(***************************************************************************)
EXTENDS ProviderQuota

VARIABLES
  vquota,   \* the state the replay has reconstructed
  vnow,     \* previous_time
  raised    \* QuotaReplayError was raised

allVars == <<vars, vquota, vnow, raised>>

ReplayInit == Init /\ vquota = Configured /\ vnow = 0 /\ raised = FALSE

\* Mutant: the first deadline of a call is not compared.
AdmissibleIdentityLoosely(v, e) ==
  LET r == e.request
      prior == v.logical[r.call]
  IN IF r.attempt = 0 THEN prior = None /\ r.previous = None
     ELSE /\ prior # None /\ ~prior.terminal /\ prior.retryAt # None
          /\ r.attempt < MaxAttempts /\ r.attempt = prior.last + 1
          /\ r.previous = prior.last
          /\ e.at >= prior.retryAt

\* The attempt is the first of its call, or the retry that was allowed.
AdmissibleIdentity(v, e) ==
  LET r == e.request
      prior == v.logical[r.call]
  IN IF r.attempt = 0 THEN prior = None /\ r.previous = None /\ e.deadline = r.deadline
     ELSE /\ prior # None /\ ~prior.terminal /\ prior.retryAt # None
          /\ r.attempt < MaxAttempts /\ r.attempt = prior.last + 1
          /\ r.previous = prior.last
          /\ e.deadline = prior.deadline /\ r.deadline \in {None, prior.deadline}
          /\ e.at >= prior.retryAt

AfterAdmission(v, e) ==
  LET b == Refreshed(v, e.at)
      a == <<e.request.call, e.request.attempt>>
  IN [buckets |-> [s \in Scopes |-> [b[s] EXCEPT !.rpm = @ - 1, !.tpm = @ - e.request.tokens]],
      inUse |-> [s \in Scopes |-> v.inUse[s] + 1],
      resetUntil |-> v.resetUntil,
      logical |-> [v.logical EXCEPT ![a[1]] = [last |-> a[2], deadline |-> e.deadline,
                                               retryAt |-> None, terminal |-> FALSE]],
      active |-> [v.active EXCEPT ![a] = [tokens |-> e.request.tokens,
                                          since |-> [s \in Scopes |-> b[s].since],
                                          deadline |-> e.deadline]],
      admitted |-> v.admitted \cup {a}]

AdmissionHolds(v, e) ==
  LET b == Refreshed(v, e.at)
      a == <<e.request.call, e.request.attempt>>
  IN /\ e.request.attempt < MaxAttempts
     /\ a \notin v.admitted /\ v.active[a] = None
     /\ e.at >= v.resetUntil
     /\ AdmissibleIdentity(v, e)
     /\ NoLaterThan(e.at, e.deadline)
     /\ \A s \in Scopes : /\ b[s].rpm >= 1 /\ b[s].tpm >= e.request.tokens
                          /\ v.inUse[s] < Limit[s].concurrency
     /\ e.after = Snapshot(AfterAdmission(v, e))

\* A refusal is decided again, reason by reason and in the quota's order.
RefusalHolds(v, e) ==
  /\ e.deadline = DeadlineOf(v, e.request)
  /\ e.reasons # {} /\ e.reasons = Reasons(v, e.request, e.at)
  /\ e.retryAt = RetryHint(v, e.request, e.at)
  /\ e.after = Snapshot(Looked(v, e.at))

\* The refunds the replay expects, per scope.
ExpectedRefund(v, e) ==
  [s \in Scopes |->
     IF v.active[e.attempt].since[s] = Refreshed(v, e.at)[s].since
     THEN Smaller(e.cap - e.actual, Limit[s].tpm - Refreshed(v, e.at)[s].tpm) ELSE 0]

ExpectedRetry(v, e) ==
  LET next == e.attempt[2] + 1
      backoff == e.at + Backoff(next)
      earliest == IF e.outcome = "provider_429" THEN Larger(backoff, e.resetAt) ELSE backoff
  IN IF /\ e.outcome # "success" /\ next < MaxAttempts
        /\ NoLaterThan(earliest, v.active[e.attempt].deadline)
     THEN earliest ELSE None

AfterSettlement(v, e) ==
  LET b == Refreshed(v, e.at) IN
  [v EXCEPT
     !.buckets = [s \in Scopes |-> [b[s] EXCEPT !.tpm = @ + ExpectedRefund(v, e)[s]]],
     !.inUse = [s \in Scopes |-> v.inUse[s] - 1],
     !.active[e.attempt] = None,
     !.resetUntil = IF e.outcome = "provider_429" THEN e.resetAt ELSE @,
     !.logical[e.attempt[1]] = [@ EXCEPT !.retryAt = ExpectedRetry(v, e),
                                         !.terminal = (ExpectedRetry(v, e) = None)]]

SettlementHolds(v, e) ==
  /\ v.active[e.attempt] # None
  /\ e.cap = v.active[e.attempt].tokens /\ e.actual <= e.cap
  /\ e.refund = ExpectedRefund(v, e)
  /\ IF e.outcome = "provider_429" THEN e.resetAt > e.at /\ e.resetAt >= v.resetUntil
     ELSE e.resetAt = None
  /\ e.retryAt = ExpectedRetry(v, e)
  /\ e.after = Snapshot(AfterSettlement(v, e))

OverrunHolds(v, e) ==
  /\ v.active[e.attempt] # None
  /\ e.cap = v.active[e.attempt].tokens /\ e.actual > e.cap
  /\ e.after = Snapshot(Looked(v, e.at))

Accepts(v, since, e) ==
  /\ e.at >= since
  /\ \/ e.kind = "call_admitted"      /\ AdmissionHolds(v, e)
     \/ e.kind = "admission_refused"  /\ RefusalHolds(v, e)
     \/ e.kind = "call_settled"       /\ SettlementHolds(v, e)
     \/ e.kind = "settlement_refused" /\ OverrunHolds(v, e)

Advanced(v, e) ==
  IF e.kind = "call_admitted" THEN AfterAdmission(v, e)
  ELSE IF e.kind = "call_settled" THEN AfterSettlement(v, e)
  ELSE Looked(v, e.at)

Read(e) ==
  /\ ~raised
  /\ IF Accepts(vquota, vnow, e)
     THEN vquota' = Advanced(vquota, e) /\ vnow' = e.at /\ UNCHANGED raised
     ELSE raised' = TRUE /\ UNCHANGED <<vquota, vnow>>

\* The quota records the event of an operation and the replay reads it.
ReplayNext ==
  /\ now' \in now..MaxTime
  /\ \/ \E r \in Requests :
          \/ AcquireRefused(r) /\ Read(RefusalEvent(quota, r, now'))
          \/ Acquire(r) /\ Read(AdmissionEvent(quota, r, now'))
     \/ \E x \in Reports :
          \/ SettlementRefused(x) /\ Read(OverrunEvent(quota, x, now'))
          \/ (Complete(x) \/ FailRetryable(x) \/ Provider429(x))
               /\ Read(SettlementEvent(quota, x, now'))

ReplaySpec == ReplayInit /\ [][ReplayNext]_allVars

-----------------------------------------------------------------------------
(* Properties *)

\* The replay of a quota's own log raises nothing and reconstructs its state.
RecordedLogsPass == ~raised /\ vquota = quota /\ vnow = now

\* The quota could record this event next, at the time the event bears.
Recordable(e) ==
  /\ e.at >= now
  /\ \/ /\ e.kind = "call_admitted" /\ Reasons(quota, e.request, e.at) = {}
        /\ e = AdmissionEvent(quota, e.request, e.at)
     \/ /\ e.kind = "call_settled"
        /\ quota.active[e.attempt] # None /\ e.actual <= quota.active[e.attempt].tokens
        /\ LET reset == IF e.outcome = "provider_429" THEN e.resetAt - e.at ELSE 0
               x == [attempt |-> e.attempt, actual |-> e.actual, outcome |-> e.outcome,
                     reset |-> reset]
           IN /\ (x.outcome = "provider_429") = (reset > 0)
              /\ e = SettlementEvent(quota, x, e.at)

\* An admission the quota may have refused, under a deadline of the forger's choice.
ForgedAdmission(r, at, deadline) ==
  [AdmissionEvent(quota, r, at) EXCEPT !.deadline = deadline]

\* A settlement with the forger's refund and retry; a reset may be a shorter one.
ForgedSettlement(x, at, refund, retryAt, shorter) ==
  LET e == SettlementEvent(quota, x, at)
      resetAt == IF shorter THEN at + 1 ELSE e.resetAt
  IN IF x.outcome # "provider_429" THEN [e EXCEPT !.refund = refund, !.retryAt = retryAt]
     ELSE [e EXCEPT !.refund = refund, !.retryAt = retryAt, !.resetAt = resetAt,
                    !.after.resetUntil = resetAt]

\* Whatever has been recorded, the replay believes a next admission of any
\* request, or a next settlement with other claims, only if the quota could have
\* recorded it: neither an altered event nor the omission, repetition or
\* reordering of others goes unnoticed.
ForgeriesAreRefused ==
  LET Genuine(e) == Accepts(vquota, vnow, e) => Recordable(e) IN
  /\ \A r \in Requests, at \in 0..MaxTime, d \in Deadlines \cup {None} :
       r.attempt < MaxAttempts => Genuine(ForgedAdmission(r, at, d))
  /\ \A x \in Reports, at \in now..(now + 1), shorter \in BOOLEAN :
       x.attempt \in Leased =>
         \A refund \in {Refund(quota, x, at), [s \in Scopes |-> 0]},
            retryAt \in {None, at + 1, RetryTime(quota, x, at)} :
           Genuine(ForgedSettlement(x, at, refund, retryAt, shorter))

\* The replay accepts what the quota recorded and nothing it would not record.
ReplayIsExact == RecordedLogsPass /\ ForgeriesAreRefused
=============================================================================
