------------------------- MODULE QuotaReplayProofs -------------------------
(***************************************************************************)
(* Proofs about ProviderQuota and QuotaReplay, for any calls, limits,      *)
(* windows and retry policy: the buckets and slots are accounts of what    *)
(* was admitted, retries keep their rules, and the replay believes what a  *)
(* quota records and nothing it would not record.                          *)
(*                                                                         *)
(* A step of the quota refreshes its buckets and then takes or gives back  *)
(* something.  Sound says what is true of a quota whose buckets are at     *)
(* time t and whose admissions are c; the refresh keeps it, and so does    *)
(* what follows.                                                           *)
(***************************************************************************)
EXTENDS QuotaReplay, SumLemmas

Histories == [Attempts -> Charges \cup {None}]

\* The attempts admitted in the window of a bucket, and what attempts are charged.
Window(q, c, s) == {a \in Attempts : c[a] # None /\ c[a].at >= q.buckets[s].since}
Charged(c, S) == SumFunction([a \in S |-> c[a].charge])

LeasedIn(q) == {a \in Attempts : q.active[a] # None}

\* The windows are those of time t, and nothing was admitted after them.
Timed(q, c, t) ==
  \A s \in Scopes :
    /\ q.buckets[s].since <= t /\ t < q.buckets[s].since + Limit[s].window
    /\ \A a \in Attempts : c[a] # None => c[a].at < q.buckets[s].since + Limit[s].window

\* A bucket lacks what the attempts of its window took.
Accounted(q, c) ==
  \A s \in Scopes :
    /\ q.buckets[s].rpm + Cardinality(Window(q, c, s)) = Limit[s].rpm
    /\ q.buckets[s].tpm + Charged(c, Window(q, c, s)) = Limit[s].tpm

\* A slot in use is a lease, of a call's latest attempt.
Lent(q) ==
  /\ \A s \in Scopes : q.inUse[s] = Cardinality(LeasedIn(q)) /\ q.inUse[s] <= Limit[s].concurrency
  /\ \A a \in LeasedIn(q) : /\ q.logical[a[1]] # None /\ q.logical[a[1]].last = a[2]
                            /\ ~q.logical[a[1]].terminal /\ q.logical[a[1]].retryAt = None

\* A lease knows what it is charged, and the windows it was charged to.
Matched(q, c) ==
  \A a \in LeasedIn(q) :
    /\ c[a] # None /\ c[a].charge = q.active[a].tokens
    /\ \A s \in Scopes :
         /\ q.active[a].since[s] <= q.buckets[s].since
         /\ q.active[a].since[s] = q.buckets[s].since <=> c[a].at >= q.buckets[s].since

\* The attempts of a call were admitted in turn.
InTurn(q, c) ==
  /\ q.admitted = {a \in Attempts : c[a] # None}
  /\ \A a \in Attempts :
       c[a] # None <=> q.logical[a[1]] # None /\ a[2] <= q.logical[a[1]].last
  /\ \A call \in Calls : q.logical[call] # None => q.logical[call].last < MaxAttempts

Sound(q, c, t) ==
  /\ q \in States /\ c \in Histories /\ t \in Nat
  /\ Timed(q, c, t) /\ Accounted(q, c) /\ Lent(q) /\ Matched(q, c) /\ InTurn(q, c)

IInv == Sound(quota, calls, now)

\* The replay is where the quota is.
ReplayInv == IInv /\ RecordedLogsPass

-----------------------------------------------------------------------------
(* Sums of charges *)

\* There are finitely many attempts.
LEMMA AttemptsFinite == IsFiniteSet(Attempts) /\ \A S \in SUBSET Attempts : IsFiniteSet(S)
<1>1. IsFiniteSet(0..MaxAttempts - 1)
  BY FS_Interval, QuotaAssumption
<1>2. IsFiniteSet(Attempts)
  BY <1>1, FS_Product, QuotaAssumption DEF Attempts
<1> QED
  BY <1>2, FS_Subset

\* A charge of an attempt that was admitted is a number.
LEMMA ChargeType ==
  ASSUME NEW c \in Histories, NEW a \in Attempts, c[a] # None
  PROVE  c[a] \in Charges /\ c[a].at \in Nat /\ c[a].charge \in Nat
BY DEF Histories, Charges

\* Sums of charges over sets of admitted attempts.
LEMMA ChargedIsSum ==
  ASSUME NEW c, NEW S
  PROVE  Charged(c, S) = SumFunctionOnSet([a \in S |-> c[a].charge], S)
BY DEF Charged, SumFunction

LEMMA ChargedNothing ==
  ASSUME NEW c
  PROVE  Charged(c, {}) = 0
BY ChargedIsSum, SumEmpty

LEMMA ChargedType ==
  ASSUME NEW c \in Histories, NEW S \in SUBSET Attempts, \A a \in S : c[a] # None
  PROVE  /\ Charged(c, S) \in Nat
         /\ \A a \in S : c[a].charge <= Charged(c, S)
<1> DEFINE f == [a \in S |-> c[a].charge]
<1>1. IsFiniteSet(S) /\ \A x \in S : f[x] \in Nat
  BY AttemptsFinite, ChargeType
<1>2. SumFunctionOnSet(f, S) \in Nat /\ \A x \in S : f[x] <= SumFunctionOnSet(f, S)
  BY <1>1, SumNatural
<1> QED
  BY <1>2, ChargedIsSum

LEMMA ChargedSame ==
  ASSUME NEW c, NEW d, NEW S \in SUBSET Attempts, \A a \in S : c[a].charge = d[a].charge
  PROVE  Charged(c, S) = Charged(d, S)
<1>1. [a \in S |-> c[a].charge] = [a \in S |-> d[a].charge]
  OBVIOUS
<1> QED
  BY <1>1 DEF Charged

LEMMA ChargedOneMore ==
  ASSUME NEW c \in Histories, NEW S \in SUBSET Attempts, NEW y \in Attempts \ S,
         \A a \in S \cup {y} : c[a] # None
  PROVE  Charged(c, S \cup {y}) = c[y].charge + Charged(c, S)
<1> DEFINE T == S \cup {y}
           f == [a \in T |-> c[a].charge]
           g == [a \in S |-> c[a].charge]
<1>1. IsFiniteSet(S) /\ \A x \in S \cup {y} : f[x] \in Int
  BY AttemptsFinite, ChargeType
<1>2. SumFunctionOnSet(f, S \cup {y}) = f[y] + SumFunctionOnSet(f, S)
  <2> HIDE DEF f
  <2> QED
    BY <1>1, SumAdd
<1>3. SumFunctionOnSet(f, S) = SumFunctionOnSet(g, S)
  <2>1. \A x \in S : f[x] = g[x]
    OBVIOUS
  <2> HIDE DEF f, g
  <2> QED
    BY <1>1, <2>1, SumSame
<1> QED
  BY <1>2, <1>3, ChargedIsSum

LEMMA ChargedChange ==
  ASSUME NEW c \in Histories, NEW d \in Histories, NEW S \in SUBSET Attempts, NEW y \in S,
         \A a \in S : c[a] # None /\ d[a] # None,
         \A a \in S \ {y} : c[a].charge = d[a].charge
  PROVE  Charged(d, S) = Charged(c, S) - c[y].charge + d[y].charge
<1> DEFINE R == S \ {y}
<1>1. R \in SUBSET Attempts /\ y \in Attempts \ R /\ S = R \cup {y}
  OBVIOUS
<1>2. /\ Charged(c, S) = c[y].charge + Charged(c, R)
      /\ Charged(d, S) = d[y].charge + Charged(d, R)
  <2> HIDE DEF R
  <2> QED
    BY <1>1, ChargedOneMore
<1>3. Charged(c, R) = Charged(d, R) /\ Charged(c, R) \in Nat
  BY <1>1, ChargedSame, ChargedType
<1>4. c[y].charge \in Nat /\ d[y].charge \in Nat
  BY ChargeType
<1> HIDE DEF R
<1> QED
  BY <1>2, <1>3, <1>4

-----------------------------------------------------------------------------
(* The refresh *)

\* What the division of the time since by the window says.
LEMMA Division ==
  ASSUME NEW n \in Nat, NEW w \in Nat \ {0}
  PROVE  /\ n \div w \in Nat
         /\ (n \div w) * w <= n
         /\ n < (n \div w) * w + w
         /\ n \div w = 0 => n < w
OBVIOUS

\* A product with a factor that is not zero.
LEMMA AtLeastOnce ==
  ASSUME NEW p \in Nat \ {0}, NEW w \in Nat
  PROVE  p * w \in Nat /\ w <= p * w
OBVIOUS

\* What the configuration says of one scope.
LEMMA LimitType ==
  ASSUME NEW s \in Scopes
  PROVE  /\ Limit[s].rpm \in Nat \ {0} /\ Limit[s].tpm \in Nat \ {0}
         /\ Limit[s].concurrency \in Nat \ {0} /\ Limit[s].window \in Nat \ {0}
BY QuotaAssumption

\* The parts of a quota's state.
LEMMA StateShape ==
  ASSUME NEW q \in States
  PROVE  /\ \A s \in Scopes : /\ q.buckets[s] \in Buckets /\ q.buckets[s].rpm \in Nat
                              /\ q.buckets[s].tpm \in Nat /\ q.buckets[s].since \in Nat
                              /\ q.inUse[s] \in Nat
         /\ q.resetUntil \in Nat
         /\ \A c \in Calls : q.logical[c] # None => q.logical[c] \in Logical
         /\ \A a \in Attempts : q.active[a] # None =>
              /\ q.active[a] \in Leases /\ q.active[a].tokens \in Nat
              /\ \A s \in Scopes : q.active[a].since[s] \in Nat
BY DEF States, Buckets, Leases

\* A refreshed bucket is the one before, while its window lasts, or a full one
\* of a later window.
LEMMA RefreshShape ==
  ASSUME NEW q \in States, NEW at \in Nat, NEW s \in Scopes,
         q.buckets[s].since <= at, q.buckets[s].rpm <= Limit[s].rpm,
         q.buckets[s].tpm <= Limit[s].tpm
  PROVE  /\ Refreshed(q, at)[s] \in Buckets
         /\ Refreshed(q, at)[s].since <= at /\ at < Refreshed(q, at)[s].since + Limit[s].window
         /\ \/ Refreshed(q, at)[s] = q.buckets[s]
            \/ /\ Refreshed(q, at)[s].rpm = Limit[s].rpm /\ Refreshed(q, at)[s].tpm = Limit[s].tpm
               /\ Refreshed(q, at)[s].since >= q.buckets[s].since + Limit[s].window
<1> DEFINE b == q.buckets[s]
           w == Limit[s].window
           n == at - b.since
           p == n \div w
           R == Limit[s].rpm
           T == Limit[s].tpm
<1>1. /\ b \in Buckets /\ b.rpm \in Nat /\ b.tpm \in Nat /\ b.since \in Nat
      /\ b.since <= at /\ b.rpm <= R /\ b.tpm <= T
  BY StateShape
<1>2. w \in Nat \ {0} /\ R \in Nat \ {0} /\ T \in Nat \ {0}
  BY LimitType
<1>3. n \in Nat
  <2> HIDE DEF b
  <2> QED
    BY <1>1
<1>4. p \in Nat /\ p * w <= n /\ n < p * w + w /\ (p = 0 => n < w)
  <2> HIDE DEF n, w
  <2> QED
    BY <1>2, <1>3, Division
<1>5. Refreshed(q, at)[s] =
        IF p = 0 THEN b ELSE [rpm |-> Smaller(R, b.rpm + p * R), tpm |-> Smaller(T, b.tpm + p * T),
                              since |-> b.since + p * w]
  BY DEF Refreshed
<1>6. at = b.since + n
  <2> HIDE DEF b
  <2> QED
    BY <1>1
<1>7. CASE p = 0
  <2>1. Refreshed(q, at)[s] = b
    BY <1>5, <1>7
  <2>2. b.since <= at /\ at < b.since + w
    <3> HIDE DEF b, n, w, p
    <3> QED
      BY <1>1, <1>2, <1>3, <1>4, <1>6, <1>7
  <2> HIDE DEF n, p
  <2> QED
    BY <2>1, <2>2, <1>1
<1>8. CASE p # 0
  <2> DEFINE pR == p * R
             pT == p * T
             pw == p * w
  <2>1. pR \in Nat /\ R <= pR /\ pT \in Nat /\ T <= pT /\ pw \in Nat /\ w <= pw
    <3>1. p \in Nat \ {0} /\ R \in Nat /\ T \in Nat /\ w \in Nat
      BY <1>2, <1>4, <1>8
    <3> HIDE DEF p, R, T, w
    <3> QED
      BY <3>1, AtLeastOnce
  <2>2. Refreshed(q, at)[s] = [rpm |-> Smaller(R, b.rpm + pR), tpm |-> Smaller(T, b.tpm + pT),
                               since |-> b.since + pw]
    BY <1>5, <1>8
  <2>3. pw <= n /\ n < pw + w
    BY <1>4
  <2> HIDE DEF b, n, p, R, T, w, pR, pT, pw
  <2>4. Smaller(R, b.rpm + pR) = R /\ Smaller(T, b.tpm + pT) = T
    BY <1>1, <1>2, <2>1 DEF Smaller
  <2>5. /\ b.since + pw \in Nat /\ b.since + pw <= at /\ at < b.since + pw + w
        /\ b.since + pw >= b.since + w
    BY <1>1, <1>2, <1>3, <1>6, <2>1, <2>3
  <2>6. [rpm |-> R, tpm |-> T, since |-> b.since + pw] \in Buckets
    BY <1>2, <2>5 DEF Buckets
  <2>7. /\ Refreshed(q, at)[s] \in Buckets
        /\ Refreshed(q, at)[s].rpm = R /\ Refreshed(q, at)[s].tpm = T
        /\ Refreshed(q, at)[s].since = b.since + pw
    BY <2>2, <2>4, <2>6
  <2>8. /\ Refreshed(q, at)[s] \in Buckets
        /\ Refreshed(q, at)[s].since <= at /\ at < Refreshed(q, at)[s].since + w
        /\ Refreshed(q, at)[s].rpm = R /\ Refreshed(q, at)[s].tpm = T
        /\ Refreshed(q, at)[s].since >= b.since + w
    BY <2>5, <2>7
  <2> QED
    BY <2>8 DEF b, R, T, w
<1> QED
  BY <1>7, <1>8

\* The attempts of a window are attempts, admitted, and finitely many.
LEMMA WindowShape ==
  ASSUME NEW q \in States, NEW c \in Histories, NEW s \in Scopes
  PROVE  /\ Window(q, c, s) \in SUBSET Attempts /\ IsFiniteSet(Window(q, c, s))
         /\ \A a \in Window(q, c, s) : c[a] # None
         /\ Cardinality(Window(q, c, s)) \in Nat /\ Charged(c, Window(q, c, s)) \in Nat
<1>1. Window(q, c, s) \in SUBSET Attempts /\ \A a \in Window(q, c, s) : c[a] # None
  BY DEF Window
<1>2. IsFiniteSet(Window(q, c, s))
  BY <1>1, AttemptsFinite
<1> QED
  BY <1>1, <1>2, FS_CardinalityType, ChargedType

\* No bucket holds more than its limit.
LEMMA WithinLimits ==
  ASSUME NEW q \in States, NEW c \in Histories, Accounted(q, c), NEW s \in Scopes
  PROVE  q.buckets[s].rpm <= Limit[s].rpm /\ q.buckets[s].tpm <= Limit[s].tpm
<1> DEFINE used == Cardinality(Window(q, c, s))
           spent == Charged(c, Window(q, c, s))
<1>1. used \in Nat /\ spent \in Nat
  BY WindowShape
<1>2. q.buckets[s].rpm + used = Limit[s].rpm /\ q.buckets[s].tpm + spent = Limit[s].tpm
  BY DEF Accounted
<1>3. q.buckets[s].rpm \in Nat /\ q.buckets[s].tpm \in Nat
  BY StateShape
<1> HIDE DEF used, spent
<1> QED
  BY <1>1, <1>2, <1>3, LimitType

\* A refresh changes nothing but the buckets.
LEMMA LookedShape ==
  ASSUME NEW q \in States, NEW at
  PROVE  /\ Looked(q, at).buckets = Refreshed(q, at)
         /\ Looked(q, at) = [buckets |-> Refreshed(q, at), inUse |-> q.inUse,
                             resetUntil |-> q.resetUntil, logical |-> q.logical,
                             active |-> q.active, admitted |-> q.admitted]
BY DEF Looked, States

\* A refresh at a later time keeps a quota sound, at that time.
LEMMA RefreshSound ==
  ASSUME NEW q, NEW c, NEW t, Sound(q, c, t), NEW at \in Nat, t <= at
  PROVE  Sound(Looked(q, at), c, at)
<1> DEFINE p == Looked(q, at)
<1>1. q \in States /\ c \in Histories /\ t \in Nat
  BY DEF Sound
<1>2. /\ p.buckets = Refreshed(q, at)
      /\ p.inUse = q.inUse /\ p.resetUntil = q.resetUntil /\ p.logical = q.logical
      /\ p.active = q.active /\ p.admitted = q.admitted
  BY <1>1, LookedShape
<1>3. ASSUME NEW s \in Scopes
      PROVE  /\ p.buckets[s] \in Buckets
             /\ p.buckets[s].since <= at /\ at < p.buckets[s].since + Limit[s].window
             /\ \/ p.buckets[s] = q.buckets[s]
                \/ /\ p.buckets[s].rpm = Limit[s].rpm /\ p.buckets[s].tpm = Limit[s].tpm
                   /\ p.buckets[s].since >= q.buckets[s].since + Limit[s].window
  <2>1. q.buckets[s].since <= t /\ q.buckets[s].since \in Nat
    BY <1>1, StateShape DEF Sound, Timed
  <2>2. q.buckets[s].since <= at
    BY <1>1, <2>1
  <2>3. q.buckets[s].rpm <= Limit[s].rpm /\ q.buckets[s].tpm <= Limit[s].tpm
    BY <1>1, WithinLimits DEF Sound
  <2> HIDE DEF p
  <2> QED
    BY <1>1, <1>2, <2>2, <2>3, RefreshShape
<1>4. p \in States
  <2>1. Refreshed(q, at) = [s \in Scopes |-> Refreshed(q, at)[s]]
    BY DEF Refreshed
  <2>2. Refreshed(q, at) \in [Scopes -> Buckets]
    BY <1>2, <1>3, <2>1
  <2> QED
    BY <1>1, <2>2, LookedShape DEF States
<1> HIDE DEF p
<1>5. ASSUME NEW s \in Scopes, NEW a \in Attempts, c[a] # None
      PROVE  /\ c[a].at \in Nat
             /\ c[a].at < q.buckets[s].since + Limit[s].window
             /\ p.buckets[s] # q.buckets[s] => c[a].at < p.buckets[s].since
  <2>1. c[a].at \in Nat /\ q.buckets[s].since \in Nat /\ Limit[s].window \in Nat
    BY <1>1, <1>5, ChargeType, StateShape, LimitType
  <2>2. c[a].at < q.buckets[s].since + Limit[s].window
    BY <1>5 DEF Sound, Timed
  <2>3. p.buckets[s].since \in Nat
    BY <1>3 DEF Buckets
  <2> QED
    BY <1>3, <2>1, <2>2, <2>3
<1>6. Timed(p, c, at)
  <2>1. ASSUME NEW s \in Scopes, NEW a \in Attempts, c[a] # None
        PROVE  c[a].at < p.buckets[s].since + Limit[s].window
    <3>1. p.buckets[s].since \in Nat /\ Limit[s].window \in Nat
      BY <1>3, LimitType DEF Buckets
    <3> QED
      BY <1>5, <2>1, <3>1
  <2> QED
    BY <1>3, <2>1 DEF Timed
<1>7. ASSUME NEW s \in Scopes
      PROVE  /\ p.buckets[s].rpm + Cardinality(Window(p, c, s)) = Limit[s].rpm
             /\ p.buckets[s].tpm + Charged(c, Window(p, c, s)) = Limit[s].tpm
  <2>1. CASE p.buckets[s] = q.buckets[s]
    <3>1. Window(p, c, s) = Window(q, c, s)
      BY <2>1 DEF Window
    <3> QED
      BY <2>1, <3>1 DEF Sound, Accounted
  <2>2. CASE p.buckets[s] # q.buckets[s]
    <3>1. Window(p, c, s) = {}
      <4>1. p.buckets[s].since \in Nat
        BY <1>3 DEF Buckets
      <4> QED
        BY <1>5, <2>2, <4>1 DEF Window
    <3>2. Cardinality({}) = 0 /\ Charged(c, {}) = 0
      BY FS_EmptySet, ChargedNothing
    <3>3. p.buckets[s].rpm = Limit[s].rpm /\ p.buckets[s].tpm = Limit[s].tpm
      BY <1>3, <2>2
    <3> QED
      BY <3>1, <3>2, <3>3, LimitType
  <2> QED
    BY <2>1, <2>2
<1>8. LeasedIn(p) = LeasedIn(q)
  BY <1>2 DEF LeasedIn
<1>9. Lent(p)
  BY <1>2, <1>8 DEF Sound, Lent
<1>10. ASSUME NEW a \in LeasedIn(q), NEW s \in Scopes
       PROVE  /\ p.active[a].since[s] <= p.buckets[s].since
              /\ p.active[a].since[s] = p.buckets[s].since <=> c[a].at >= p.buckets[s].since
  <2>1. /\ a \in Attempts /\ q.active[a] # None
        /\ c[a] # None /\ q.active[a].since[s] <= q.buckets[s].since
        /\ q.active[a].since[s] = q.buckets[s].since <=> c[a].at >= q.buckets[s].since
    BY DEF Sound, Matched, LeasedIn
  <2>2. /\ q.active[a].since[s] \in Nat /\ q.buckets[s].since \in Nat
        /\ p.buckets[s].since \in Nat /\ Limit[s].window \in Nat \ {0}
    BY <1>1, <1>3, <2>1, StateShape, LimitType DEF Buckets
  <2>3. CASE p.buckets[s] = q.buckets[s]
    BY <1>2, <2>1, <2>3
  <2>4. CASE p.buckets[s] # q.buckets[s]
    <3>1. p.buckets[s].since >= q.buckets[s].since + Limit[s].window
      BY <1>3, <2>4
    <3>2. c[a].at \in Nat /\ c[a].at < p.buckets[s].since
      BY <1>5, <2>1, <2>4
    <3> QED
      BY <1>2, <2>1, <2>2, <3>1, <3>2
  <2> QED
    BY <2>3, <2>4
<1>11. Matched(p, c)
  BY <1>2, <1>8, <1>10 DEF Sound, Matched
<1>12. InTurn(p, c)
  BY <1>2 DEF Sound, InTurn
<1> QED
  BY <1>1, <1>4, <1>6, <1>7, <1>9, <1>11, <1>12 DEF Sound, Accounted, p

-----------------------------------------------------------------------------
(* Admissions *)

\* What no reason against a request means.
Allowed(q, r, at) ==
  /\ IF r.attempt = 0 THEN q.logical[r.call] = None
     ELSE /\ q.logical[r.call] # None /\ r.attempt < MaxAttempts
          /\ ~q.logical[r.call].terminal /\ Follows(r, q.logical[r.call])
  /\ NoLaterThan(at, DeadlineOf(q, r))
  /\ ~(at < q.resetUntil)
  /\ ~(RetryAtOf(q, r) # None /\ at < RetryAtOf(q, r))
  /\ \A s \in Scopes : /\ ~(Refreshed(q, at)[s].rpm < 1)
                       /\ ~(Refreshed(q, at)[s].tpm < r.tokens)
                       /\ ~(q.inUse[s] >= Limit[s].concurrency)

\* A request is admitted if it is the call's turn, the time is right and the
\* buckets and slots allow it.
LEMMA NoReasons ==
  ASSUME NEW q, NEW r \in Requests, NEW at
  PROVE  Reasons(q, r, at) = {} <=> Allowed(q, r, at)
<1> DEFINE l == q.logical[r.call]
           fits == IF r.attempt = 0 THEN l = None
                   ELSE l # None /\ r.attempt < MaxAttempts /\ ~l.terminal /\ Follows(r, l)
           intime == /\ NoLaterThan(at, DeadlineOf(q, r)) /\ ~(at < q.resetUntil)
                     /\ ~(RetryAtOf(q, r) # None /\ at < RetryAtOf(q, r))
           holds == \A s \in Scopes : /\ ~(Refreshed(q, at)[s].rpm < 1)
                                      /\ ~(Refreshed(q, at)[s].tpm < r.tokens)
                                      /\ ~(q.inUse[s] >= Limit[s].concurrency)
<1>1. IdentityReasons(q, r) = {} <=> fits
  <2>1. r.attempt \in Nat /\ MaxAttempts \in Nat
    BY QuotaAssumption DEF Requests
  <2>2. ~(r.attempt >= MaxAttempts) <=> r.attempt < MaxAttempts
    BY <2>1
  <2> QED
    BY <2>2 DEF IdentityReasons
<1>2. TimingReasons(q, r, at) = {} <=> intime
  BY DEF TimingReasons
<1>3. CapacityReasons(q, r, at) = {} <=> holds
  <2>1. ASSUME NEW s \in Scopes, NEW what \in {"rpm", "tpm", "concurrency"}
        PROVE  <<s, what>> \in CapacityReasons(q, r, at) <=> Exhausted(q, r, at, s, what)
    BY DEF CapacityReasons
  <2>2. \A x \in CapacityReasons(q, r, at) :
          \E s \in Scopes, what \in {"rpm", "tpm", "concurrency"} : x = <<s, what>>
    BY DEF CapacityReasons
  <2>3. CapacityReasons(q, r, at) = {} <=>
          \A s \in Scopes, what \in {"rpm", "tpm", "concurrency"} : ~Exhausted(q, r, at, s, what)
    BY <2>1, <2>2
  <2>4. ASSUME NEW s \in Scopes
        PROVE  /\ Exhausted(q, r, at, s, "rpm") <=> Refreshed(q, at)[s].rpm < 1
               /\ Exhausted(q, r, at, s, "tpm") <=> Refreshed(q, at)[s].tpm < r.tokens
               /\ Exhausted(q, r, at, s, "concurrency") <=> q.inUse[s] >= Limit[s].concurrency
    BY DEF Exhausted
  <2> QED
    BY <2>3, <2>4
<1>4. Allowed(q, r, at) <=> fits /\ intime /\ holds
  BY DEF Allowed
<1> HIDE DEF l, fits, intime, holds
<1> QED
  BY <1>1, <1>2, <1>3, <1>4 DEF Reasons

\* The deadline of a request, and the parts of one.
LEMMA RequestShape ==
  ASSUME NEW q \in States, NEW r \in Requests
  PROVE  /\ r.call \in Calls /\ r.attempt \in Nat /\ r.tokens \in Nat
         /\ DeadlineOf(q, r) \in Nat \cup {None}
<1>1. /\ r.call \in Calls /\ r.attempt \in Nat /\ r.tokens \in Nat
      /\ r.deadline \in Nat \cup {None}
  <2>1. /\ r.call \in Calls /\ r.attempt \in 0..MaxAttempts /\ r.tokens \in TokenCaps
        /\ r.deadline \in Deadlines \cup {None}
    BY DEF Requests
  <2>2. MaxAttempts \in Nat /\ TokenCaps \subseteq Nat /\ Deadlines \subseteq Nat
    BY QuotaAssumption
  <2>3. r.deadline \in Nat \cup {None}
    BY <2>1, <2>2
  <2>4. r.tokens \in Nat
    BY <2>1, <2>2
  <2>5. r.attempt \in Nat
    BY <2>1, <2>2
  <2> QED
    BY <2>1, <2>3, <2>4, <2>5
<1>2. q.logical[r.call] # None => q.logical[r.call].deadline \in Nat \cup {None}
  BY <1>1, StateShape DEF Logical
<1> QED
  BY <1>1, <1>2 DEF DeadlineOf

\* An admitted attempt is a new one, and its call holds no lease.
LEMMA NewAttempt ==
  ASSUME NEW q, NEW c, NEW t, Sound(q, c, t), NEW at, NEW r \in Requests, Allowed(q, r, at)
  PROVE  /\ <<r.call, r.attempt>> \in Attempts /\ r.attempt < MaxAttempts
         /\ c[<<r.call, r.attempt>>] = None
         /\ \A a \in LeasedIn(q) : a[1] # r.call
<1>1. q \in States /\ r.call \in Calls /\ r.attempt \in 0..MaxAttempts /\ MaxAttempts \in Nat \ {0}
  BY QuotaAssumption DEF Sound, Requests
<1>2. r.attempt < MaxAttempts
  BY <1>1 DEF Allowed
<1>3. <<r.call, r.attempt>> \in Attempts
  BY <1>1, <1>2 DEF Attempts
<1>4. c[<<r.call, r.attempt>>] # None =>
        q.logical[r.call] # None /\ r.attempt <= q.logical[r.call].last
  BY <1>3 DEF Sound, InTurn
<1>5. q.logical[r.call] # None =>
        /\ r.attempt = q.logical[r.call].last + 1 /\ q.logical[r.call].last \in Nat
        /\ q.logical[r.call].retryAt # None
  BY <1>1, StateShape DEF Allowed, Follows, Logical
<1>6. c[<<r.call, r.attempt>>] = None
  BY <1>1, <1>4, <1>5
<1>7. ASSUME NEW a \in LeasedIn(q), a[1] = r.call PROVE FALSE
  BY <1>5, <1>7 DEF Sound, Lent
<1> QED
  BY <1>2, <1>3, <1>6, <1>7

\* An admission keeps a quota whose buckets are refreshed sound.
LEMMA AdmitSound ==
  ASSUME NEW q, NEW c, NEW t, Sound(q, c, t), NEW at \in Nat, t <= at,
         NEW r \in Requests, Reasons(q, r, at) = {}
  PROVE  Sound(Admitted(q, r, at),
               [c EXCEPT ![<<r.call, r.attempt>>] = [at |-> at, charge |-> r.tokens]], at)
<1> DEFINE p == Looked(q, at)
           n == Admitted(q, r, at)
           y == <<r.call, r.attempt>>
           d == [c EXCEPT ![y] = [at |-> at, charge |-> r.tokens]]
           tokens == r.tokens
           deadline == DeadlineOf(q, r)
<1>1. Sound(p, c, at)
  BY RefreshSound
<1>2. q \in States /\ p \in States /\ c \in Histories
  BY <1>1 DEF Sound
<1>3. /\ p.buckets = Refreshed(q, at)
      /\ p.inUse = q.inUse /\ p.resetUntil = q.resetUntil /\ p.logical = q.logical
      /\ p.active = q.active /\ p.admitted = q.admitted
  BY <1>2, LookedShape
<1>4. Allowed(q, r, at)
  BY NoReasons
<1>5. /\ y \in Attempts /\ r.attempt < MaxAttempts /\ c[y] = None
      /\ \A a \in LeasedIn(q) : a[1] # r.call
  BY <1>4, NewAttempt
<1>6. LeasedIn(p) = LeasedIn(q)
  BY <1>3 DEF LeasedIn
<1>7. r.call \in Calls /\ r.attempt \in Nat /\ tokens \in Nat /\ deadline \in Nat \cup {None}
  BY <1>2, RequestShape
<1>8. /\ n.buckets = [s \in Scopes |-> [p.buckets[s] EXCEPT !.rpm = @ - 1, !.tpm = @ - tokens]]
      /\ n.inUse = [s \in Scopes |-> p.inUse[s] + 1]
      /\ n.resetUntil = p.resetUntil
      /\ n.logical = [p.logical EXCEPT ![r.call] = [last |-> r.attempt, deadline |-> deadline,
                                                    retryAt |-> None, terminal |-> FALSE]]
      /\ n.active = [p.active EXCEPT ![y] =
                       [tokens |-> tokens, since |-> [s \in Scopes |-> p.buckets[s].since],
                        deadline |-> deadline]]
      /\ n.admitted = p.admitted \cup {y}
      /\ n = [buckets |-> n.buckets, inUse |-> n.inUse, resetUntil |-> n.resetUntil,
              logical |-> n.logical, active |-> n.active, admitted |-> n.admitted]
  <2> HIDE DEF p
  <2> QED
    BY <1>3 DEF Admitted
<1>9. ASSUME NEW s \in Scopes
      PROVE  /\ p.buckets[s] \in Buckets /\ p.inUse[s] \in Nat
             /\ p.buckets[s].since \in Nat
             /\ n.buckets[s] \in Buckets
             /\ n.buckets[s].rpm = p.buckets[s].rpm - 1
             /\ n.buckets[s].tpm = p.buckets[s].tpm - tokens
             /\ n.buckets[s].since = p.buckets[s].since
             /\ n.inUse[s] = p.inUse[s] + 1
             /\ p.inUse[s] < Limit[s].concurrency
  <2>1. /\ p.buckets[s] \in Buckets /\ p.buckets[s].rpm \in Nat /\ p.buckets[s].tpm \in Nat
        /\ p.buckets[s].since \in Nat /\ p.inUse[s] \in Nat
    BY <1>2, StateShape
  <2>2. /\ ~(p.buckets[s].rpm < 1) /\ ~(p.buckets[s].tpm < tokens)
        /\ ~(p.inUse[s] >= Limit[s].concurrency)
    BY <1>3, <1>4 DEF Allowed
  <2>3. n.buckets[s] = [p.buckets[s] EXCEPT !.rpm = @ - 1, !.tpm = @ - tokens]
    BY <1>8
  <2> HIDE DEF p, n, tokens
  <2>4. Limit[s].concurrency \in Nat
    BY LimitType
  <2>5. p.buckets[s].rpm - 1 \in Nat /\ p.buckets[s].tpm - tokens \in Nat
    BY <1>7, <2>1, <2>2
  <2>6. p.inUse[s] < Limit[s].concurrency
    BY <2>1, <2>2, <2>4
  <2>7. n.buckets[s] = [rpm |-> p.buckets[s].rpm - 1, tpm |-> p.buckets[s].tpm - tokens,
                        since |-> p.buckets[s].since]
    BY <2>1, <2>3 DEF Buckets
  <2>8. n.inUse[s] = p.inUse[s] + 1
    BY <1>8
  <2>9. n.buckets[s] \in Buckets
    BY <2>1, <2>5, <2>7 DEF Buckets
  <2>10. /\ n.buckets[s].rpm = p.buckets[s].rpm - 1 /\ n.buckets[s].tpm = p.buckets[s].tpm - tokens
         /\ n.buckets[s].since = p.buckets[s].since
    BY <2>7
  <2> QED
    BY <2>1, <2>6, <2>8, <2>9, <2>10
<1> HIDE DEF p, n, tokens, deadline
<1>10. n \in States
  <2>1. n.buckets \in [Scopes -> Buckets]
    <3>1. \A s \in Scopes : n.buckets[s] \in Buckets
      BY <1>9
    <3> QED
      BY <1>8, <3>1
  <2>2. n.inUse \in [Scopes -> Nat]
    <3>1. \A s \in Scopes : n.inUse[s] \in Nat
      BY <1>9
    <3> QED
      BY <1>8, <3>1
  <2>3. n.logical \in [Calls -> Logical \cup {None}]
    <3>1. [last |-> r.attempt, deadline |-> deadline, retryAt |-> None, terminal |-> FALSE] \in Logical
      BY <1>7 DEF Logical
    <3>2. p.logical \in [Calls -> Logical \cup {None}]
      BY <1>2 DEF States
    <3> QED
      BY <1>7, <1>8, <3>1, <3>2
  <2>4. n.active \in [Attempts -> Leases \cup {None}]
    <3>1. [s \in Scopes |-> p.buckets[s].since] \in [Scopes -> Nat]
      BY <1>9
    <3>2. [tokens |-> tokens, since |-> [s \in Scopes |-> p.buckets[s].since],
           deadline |-> deadline] \in Leases
      BY <1>7, <3>1 DEF Leases
    <3>3. p.active \in [Attempts -> Leases \cup {None}]
      BY <1>2 DEF States
    <3> QED
      BY <1>5, <1>8, <3>2, <3>3
  <2>5. n.resetUntil \in Nat /\ n.admitted \in SUBSET Attempts
    BY <1>2, <1>5, <1>8 DEF States
  <2> QED
    BY <1>8, <2>1, <2>2, <2>3, <2>4, <2>5 DEF States
<1>11. /\ d \in Histories
       /\ d[y] # None /\ d[y].at = at /\ d[y].charge = tokens
       /\ \A a \in Attempts : a # y => d[a] = c[a]
  <2>1. [at |-> at, charge |-> tokens] \in Charges
    BY <1>7 DEF Charges
  <2>2. d \in Histories
    BY <1>2, <1>5, <2>1 DEF Histories, tokens
  <2>3. d[y] = [at |-> at, charge |-> tokens]
    BY <1>2, <1>5 DEF Histories, tokens
  <2>4. d[y] # None
    BY <2>1, <2>3, QuotaAssumption
  <2>5. \A a \in Attempts : a # y => d[a] = c[a]
    BY <1>2 DEF Histories
  <2> HIDE DEF d
  <2> QED
    BY <2>2, <2>3, <2>4, <2>5
<1>12. y[1] = r.call /\ y[2] = r.attempt
  OBVIOUS
<1> HIDE DEF d, y
<1>13. ASSUME NEW s \in Scopes
       PROVE  n.buckets[s].since = p.buckets[s].since
  BY <1>9
<1>14. Timed(n, d, at)
  <2>1. ASSUME NEW s \in Scopes
        PROVE  /\ p.buckets[s].since <= at /\ at < p.buckets[s].since + Limit[s].window
               /\ \A a \in Attempts : d[a] # None => d[a].at < p.buckets[s].since + Limit[s].window
    <3>1. /\ p.buckets[s].since <= at /\ at < p.buckets[s].since + Limit[s].window
          /\ \A a \in Attempts : c[a] # None => c[a].at < p.buckets[s].since + Limit[s].window
      BY <1>1 DEF Sound, Timed
    <3> QED
      BY <3>1, <1>11
  <2> QED
    BY <1>13, <2>1 DEF Timed
<1>15. Accounted(n, d)
  <2> SUFFICES ASSUME NEW s \in Scopes
               PROVE  /\ n.buckets[s].rpm + Cardinality(Window(n, d, s)) = Limit[s].rpm
                      /\ n.buckets[s].tpm + Charged(d, Window(n, d, s)) = Limit[s].tpm
    BY DEF Accounted
  <2> DEFINE W == Window(p, c, s)
  <2>1. /\ W \in SUBSET Attempts /\ IsFiniteSet(W) /\ \A a \in W : c[a] # None
        /\ Cardinality(W) \in Nat /\ Charged(c, W) \in Nat
    BY <1>2, WindowShape
  <2>2. y \notin W
    BY <1>5 DEF Window
  <2>3. p.buckets[s].since <= at
    BY <1>1 DEF Sound, Timed
  <2>4. Window(n, d, s) = W \cup {y}
    <3>1. at >= p.buckets[s].since
      BY <1>9, <2>3
    <3>2. y \in Window(n, d, s)
      BY <1>5, <1>11, <1>13, <3>1 DEF Window
    <3>3. \A a \in Attempts : a # y => (a \in Window(n, d, s) <=> a \in W)
      BY <1>11, <1>13 DEF Window
    <3>4. Window(n, d, s) \subseteq Attempts
      BY DEF Window
    <3> HIDE DEF W
    <3> QED
      BY <1>5, <2>1, <3>2, <3>3, <3>4
  <2>5. p.buckets[s].rpm + Cardinality(W) = Limit[s].rpm /\ p.buckets[s].tpm + Charged(c, W) = Limit[s].tpm
    BY <1>1 DEF Sound, Accounted
  <2> HIDE DEF W
  <2>6. Cardinality(W \cup {y}) = Cardinality(W) + 1
    BY <2>1, <2>2, FS_AddElement
  <2>7. Charged(d, W \cup {y}) = tokens + Charged(c, W)
    <3>1. y \in Attempts \ W /\ \A a \in W \cup {y} : d[a] # None
      BY <1>5, <1>11, <2>1, <2>2
    <3>2. Charged(d, W \cup {y}) = d[y].charge + Charged(d, W)
      BY <1>11, <2>1, <3>1, ChargedOneMore
    <3>3. Charged(c, W) = Charged(d, W)
      <4>1. \A a \in W : c[a].charge = d[a].charge
        BY <1>11, <2>1, <2>2
      <4> QED
        BY <2>1, <4>1, ChargedSame
    <3> QED
      BY <1>11, <3>2, <3>3
  <2>8. n.buckets[s].rpm = p.buckets[s].rpm - 1 /\ n.buckets[s].tpm = p.buckets[s].tpm - tokens
    BY <1>9
  <2>9. p.buckets[s].rpm \in Nat /\ p.buckets[s].tpm \in Nat
    BY <1>2, StateShape
  <2> QED
    BY <1>7, <2>1, <2>4, <2>5, <2>6, <2>7, <2>8, <2>9
<1>16. LeasedIn(n) = LeasedIn(p) \cup {y} /\ y \notin LeasedIn(p) /\ IsFiniteSet(LeasedIn(p))
  <2>1. y \notin LeasedIn(p)
    BY <1>5, <1>6, <1>12
  <2>2. n.active[y] # None
    <3>1. n.active[y] = [tokens |-> tokens, since |-> [s \in Scopes |-> p.buckets[s].since],
                         deadline |-> deadline]
      BY <1>2, <1>5, <1>8 DEF States
    <3>2. n.active[y] \in Leases
      <4>1. [s \in Scopes |-> p.buckets[s].since] \in [Scopes -> Nat]
        BY <1>9
      <4> QED
        BY <1>7, <3>1, <4>1 DEF Leases
    <3> QED
      BY <3>2, QuotaAssumption
  <2>3. \A a \in Attempts : a # y => n.active[a] = p.active[a]
    BY <1>2, <1>8 DEF States
  <2> QED
    BY <1>5, <2>1, <2>2, <2>3, AttemptsFinite DEF LeasedIn
<1>17. Lent(n)
  <2>1. ASSUME NEW s \in Scopes
        PROVE  n.inUse[s] = Cardinality(LeasedIn(n)) /\ n.inUse[s] <= Limit[s].concurrency
    <3>1. Cardinality(LeasedIn(n)) = Cardinality(LeasedIn(p)) + 1
      BY <1>16, FS_AddElement
    <3>2. p.inUse[s] = Cardinality(LeasedIn(p))
      BY <1>1 DEF Sound, Lent
    <3>3. n.inUse[s] = p.inUse[s] + 1 /\ p.inUse[s] \in Nat /\ p.inUse[s] < Limit[s].concurrency
      BY <1>9
    <3>4. Limit[s].concurrency \in Nat
      BY LimitType
    <3> QED
      BY <3>1, <3>2, <3>3, <3>4
  <2>2. ASSUME NEW a \in LeasedIn(n)
        PROVE  /\ n.logical[a[1]] # None /\ n.logical[a[1]].last = a[2]
               /\ ~n.logical[a[1]].terminal /\ n.logical[a[1]].retryAt = None
    <3>1. CASE a = y
      <4>1. n.logical[r.call] = [last |-> r.attempt, deadline |-> deadline,
                                 retryAt |-> None, terminal |-> FALSE]
        BY <1>2, <1>7, <1>8 DEF States
      <4>2. n.logical[r.call] \in Logical
        BY <1>7, <4>1 DEF Logical
      <4> QED
        BY <1>12, <3>1, <4>1, <4>2, QuotaAssumption
    <3>2. CASE a # y
      <4>1. a \in LeasedIn(p) /\ a[1] # r.call /\ a \in Attempts
        BY <1>5, <1>6, <1>16, <3>2 DEF LeasedIn
      <4>2. n.logical[a[1]] = p.logical[a[1]]
        BY <1>2, <1>8, <4>1 DEF States, Attempts
      <4> QED
        BY <1>1, <4>1, <4>2 DEF Sound, Lent
    <3> QED
      BY <3>1, <3>2
  <2> QED
    BY <2>1, <2>2 DEF Lent
<1>18. Matched(n, d)
  <2> SUFFICES ASSUME NEW a \in LeasedIn(n)
               PROVE  /\ d[a] # None /\ d[a].charge = n.active[a].tokens
                      /\ \A s \in Scopes :
                           /\ n.active[a].since[s] <= n.buckets[s].since
                           /\ n.active[a].since[s] = n.buckets[s].since <=> d[a].at >= n.buckets[s].since
    BY DEF Matched
  <2>1. CASE a = y
    <3>1. n.active[y] = [tokens |-> tokens, since |-> [s \in Scopes |-> p.buckets[s].since],
                         deadline |-> deadline]
      BY <1>2, <1>5, <1>8 DEF States
    <3>2. ASSUME NEW s \in Scopes
          PROVE  /\ n.active[y].since[s] = n.buckets[s].since
                 /\ n.buckets[s].since \in Nat /\ d[y].at >= n.buckets[s].since
      <4>1. p.buckets[s].since <= at /\ p.buckets[s].since \in Nat
        BY <1>1, <1>9 DEF Sound, Timed
      <4> QED
        BY <1>11, <1>13, <3>1, <4>1
    <3> QED
      BY <1>11, <2>1, <3>1, <3>2
  <2>2. CASE a # y
    <3>1. a \in LeasedIn(p) /\ a \in Attempts /\ n.active[a] = p.active[a] /\ d[a] = c[a]
      BY <1>2, <1>8, <1>11, <1>16, <2>2 DEF States, LeasedIn
    <3> QED
      BY <1>1, <1>13, <3>1 DEF Sound, Matched
  <2> QED
    BY <2>1, <2>2
<1>19. InTurn(n, d)
  <2>1. n.admitted = {a \in Attempts : d[a] # None}
    <3>1. p.admitted = {a \in Attempts : c[a] # None}
      BY <1>1 DEF Sound, InTurn
    <3> QED
      BY <1>5, <1>8, <1>11, <3>1
  <2>2. n.logical[r.call] # None /\ n.logical[r.call].last = r.attempt
    <3>1. y \in LeasedIn(n)
      BY <1>16
    <3> QED
      BY <1>12, <1>17, <3>1 DEF Lent
  <2>3. \A call \in Calls : call # r.call => n.logical[call] = p.logical[call]
    BY <1>2, <1>8 DEF States
  <2>4. ASSUME NEW a \in Attempts
        PROVE  d[a] # None <=> n.logical[a[1]] # None /\ a[2] <= n.logical[a[1]].last
    <3>1. a[1] \in Calls /\ a[2] \in Nat /\ a = <<a[1], a[2]>>
      BY QuotaAssumption DEF Attempts
    <3>2. c[a] # None <=> p.logical[a[1]] # None /\ a[2] <= p.logical[a[1]].last
      BY <1>1 DEF Sound, InTurn
    <3>3. CASE a[1] # r.call
      BY <1>11, <1>12, <2>3, <3>1, <3>2, <3>3
    <3>4. CASE a[1] = r.call
      <4>1. IF r.attempt = 0 THEN p.logical[r.call] = None
            ELSE p.logical[r.call] # None /\ r.attempt = p.logical[r.call].last + 1
        BY <1>3, <1>4 DEF Allowed, Follows
      <4>2. p.logical[r.call] # None => p.logical[r.call].last \in Nat
        BY <1>2, <1>7, StateShape DEF Logical
      <4>3. a = y <=> a[2] = r.attempt
        BY <3>1, <3>4 DEF y
      <4>4. c[a] # None <=> a[2] < r.attempt
        BY <1>7, <3>1, <3>2, <3>4, <4>1, <4>2
      <4>5. d[a] # None <=> a[2] <= r.attempt
        BY <1>7, <1>11, <3>1, <4>3, <4>4
      <4> QED
        BY <2>2, <3>4, <4>5
    <3> QED
      BY <3>3, <3>4
  <2>5. ASSUME NEW call \in Calls, n.logical[call] # None
        PROVE  n.logical[call].last < MaxAttempts
    BY <1>1, <1>5, <2>2, <2>3, <2>5 DEF Sound, InTurn
  <2> QED
    BY <2>1, <2>4, <2>5 DEF InTurn
<1> QED
  BY <1>10, <1>11, <1>14, <1>15, <1>17, <1>18, <1>19 DEF Sound, n, d, y, tokens

-----------------------------------------------------------------------------
(* Settlements *)

\* A backoff is a number.
LEMMA BackoffType ==
  ASSUME NEW n \in Nat
  PROVE  Backoff(n) \in Int
<1>1. BaseBackoff \in Nat /\ MaxBackoff \in Nat
  BY QuotaAssumption
<1>2. Smaller(n - 1, 62) \in Int
  BY DEF Smaller
<1>3. 2 ^ Smaller(n - 1, 62) \in Int
  BY <1>2
<1> DEFINE power == 2 ^ Smaller(n - 1, 62)
<1> HIDE DEF power
<1>4. BaseBackoff * power \in Int
  BY <1>1, <1>3 DEF power
<1> QED
  BY <1>1, <1>4 DEF Backoff, Smaller, power

\* What a report names, and the reset it leaves.
LEMMA ReportShape ==
  ASSUME NEW q \in States, NEW x \in Reports, NEW at \in Nat
  PROVE  /\ x.attempt \in Attempts /\ x.actual \in Nat /\ x.reset \in Nat
         /\ x.attempt[1] \in Calls /\ x.attempt[2] \in Nat
         /\ x.attempt = <<x.attempt[1], x.attempt[2]>>
         /\ ResetAfter(q, x, at) \in Nat /\ ResetAfter(q, x, at) >= q.resetUntil
         /\ RetryTime(q, x, at) \in Int \cup {None}
<1>1. x.attempt \in Attempts /\ x.actual \in Actuals /\ x.reset \in Resets \cup {0}
  BY DEF Reports
<1>2. Actuals \subseteq Nat /\ Resets \subseteq Nat /\ MaxAttempts \in Nat
  BY QuotaAssumption
<1>3. x.actual \in Nat /\ x.reset \in Nat
  <2>1. x.actual \in Nat
    BY <1>1, <1>2
  <2>2. x.reset \in Nat
    <3>1. x.reset \in Resets => x.reset \in Nat
      BY <1>2
    <3> QED
      BY <1>1, <3>1
  <2> QED
    BY <2>1, <2>2
<1>4. x.attempt[1] \in Calls /\ x.attempt[2] \in Nat /\ x.attempt = <<x.attempt[1], x.attempt[2]>>
  BY <1>1, <1>2 DEF Attempts
<1>5. q.resetUntil \in Nat
  BY StateShape
<1>6. ResetAfter(q, x, at) \in Nat /\ ResetAfter(q, x, at) >= q.resetUntil
  BY <1>3, <1>5 DEF ResetAfter, Larger
<1>7. at + Backoff(x.attempt[2] + 1) \in Int
  BY <1>4, BackoffType
<1>8. Larger(at + Backoff(x.attempt[2] + 1), ResetAfter(q, x, at)) \in Int
  BY <1>6, <1>7 DEF Larger
<1>9. RetryTime(q, x, at) \in Int \cup {None}
  BY <1>7, <1>8 DEF RetryTime
<1> QED
  BY <1>1, <1>3, <1>4, <1>6, <1>9

\* What a settlement makes of a call.
LEMMA LogicalAfter ==
  ASSUME NEW l \in Logical, NEW retryAt \in Int \cup {None}, NEW over \in BOOLEAN
  PROVE  /\ [l EXCEPT !.retryAt = retryAt, !.terminal = over] \in Logical
         /\ [l EXCEPT !.retryAt = retryAt, !.terminal = over].last = l.last
BY DEF Logical

\* A settlement within the lease keeps a quota sound.
LEMMA SettleSound ==
  ASSUME NEW q, NEW c, NEW t, Sound(q, c, t), NEW at \in Nat, t <= at,
         NEW x \in Reports, q.active[x.attempt] # None,
         x.actual <= q.active[x.attempt].tokens
  PROVE  Sound(Settled(q, x, at), [c EXCEPT ![x.attempt].charge = x.actual], at)
<1> DEFINE p == Looked(q, at)
           n == Settled(q, x, at)
           y == x.attempt
           k == y[1]
           d == [c EXCEPT ![y].charge = x.actual]
           actual == x.actual
           tokens == q.active[y].tokens
           refund == Refund(q, x, at)
           reset == ResetAfter(q, x, at)
           retryAt == RetryTime(q, x, at)
<1>1. Sound(p, c, at)
  BY RefreshSound
<1>2. q \in States /\ p \in States /\ c \in Histories
  BY <1>1 DEF Sound
<1>3. /\ p.buckets = Refreshed(q, at)
      /\ p.inUse = q.inUse /\ p.resetUntil = q.resetUntil /\ p.logical = q.logical
      /\ p.active = q.active /\ p.admitted = q.admitted
  BY <1>2, LookedShape
<1>4. /\ y \in Attempts /\ actual \in Nat /\ k \in Calls /\ y[2] \in Nat /\ y = <<k, y[2]>>
      /\ reset \in Nat /\ retryAt \in Int \cup {None}
  BY <1>2, ReportShape
<1>5. y \in LeasedIn(p) /\ y \in LeasedIn(q)
  BY <1>3, <1>4 DEF LeasedIn
<1>6. /\ c[y] # None /\ c[y].charge = tokens /\ c[y] \in Charges
      /\ tokens \in Nat /\ actual <= tokens /\ c[y].at \in Nat
  <2>1. c[y] # None /\ c[y].charge = tokens
    BY <1>5 DEF Sound, Matched
  <2> QED
    BY <1>2, <1>4, <2>1, ChargeType
<1>7. /\ p.logical[k] # None /\ p.logical[k] \in Logical /\ p.logical[k].last = y[2]
  BY <1>1, <1>2, <1>4, <1>5, StateShape DEF Sound, Lent
<1>8. /\ n.buckets = [s \in Scopes |-> [p.buckets[s] EXCEPT !.tpm = @ + refund[s]]]
      /\ n.inUse = [s \in Scopes |-> p.inUse[s] - 1]
      /\ n.resetUntil = reset
      /\ n.logical = [p.logical EXCEPT ![k] =
                       [@ EXCEPT !.retryAt = retryAt, !.terminal = (retryAt = None)]]
      /\ n.active = [p.active EXCEPT ![y] = None]
      /\ n.admitted = p.admitted
      /\ n = [buckets |-> n.buckets, inUse |-> n.inUse, resetUntil |-> n.resetUntil,
              logical |-> n.logical, active |-> n.active, admitted |-> n.admitted]
  <2> DEFINE old == q.logical
             over == retryAt = None
             new == [old EXCEPT ![k] = [@ EXCEPT !.retryAt = retryAt, !.terminal = over]]
             buckets == [s \in Scopes |-> [Refreshed(q, at)[s] EXCEPT !.tpm = @ + refund[s]]]
             inUse == [s \in Scopes |-> q.inUse[s] - 1]
             active == [q.active EXCEPT ![y] = None]
  <2>1. q = [buckets |-> q.buckets, inUse |-> q.inUse, resetUntil |-> q.resetUntil,
             logical |-> old, active |-> q.active, admitted |-> q.admitted]
    BY <1>2 DEF States
  <2>2. /\ n.buckets = buckets /\ n.inUse = inUse /\ n.resetUntil = reset
        /\ n.logical = new /\ n.active = active /\ n.admitted = q.admitted
        /\ n = [buckets |-> n.buckets, inUse |-> n.inUse, resetUntil |-> n.resetUntil,
                logical |-> n.logical, active |-> n.active, admitted |-> n.admitted]
    <3>1. n = [q EXCEPT !.buckets = buckets, !.inUse = inUse, !.active = active,
                        !.resetUntil = reset, !.logical = new]
      BY DEF Settled
    <3> HIDE DEF n, buckets, inUse, active, new, reset, old
    <3> QED
      BY <2>1, <3>1
  <2> HIDE DEF p, n, new, refund, reset, retryAt, k, y
  <2> QED
    BY <1>3, <2>2 DEF old, over, new, buckets, inUse, active
<1>9. ASSUME NEW s \in Scopes
      PROVE  /\ p.buckets[s] \in Buckets /\ p.buckets[s].rpm \in Nat /\ p.buckets[s].tpm \in Nat
             /\ p.buckets[s].since \in Nat /\ p.inUse[s] \in Nat
  BY <1>2, StateShape
<1>10. /\ d \in Histories
       /\ d[y] # None /\ d[y].at = c[y].at /\ d[y].charge = actual
       /\ \A a \in Attempts : a # y => d[a] = c[a]
  <2>1. c[y] = [at |-> c[y].at, charge |-> c[y].charge]
    BY <1>6 DEF Charges
  <2>2. d[y] = [c[y] EXCEPT !.charge = actual]
    BY <1>2, <1>4 DEF Histories
  <2> HIDE DEF actual
  <2>3. d[y] = [at |-> c[y].at, charge |-> actual]
    BY <2>1, <2>2
  <2>4. d[y] \in Charges
    BY <1>4, <1>6, <2>3 DEF Charges
  <2>5. d[y] # None
    BY <2>4, QuotaAssumption
  <2>6. d \in Histories
    BY <1>2, <1>4, <2>4 DEF Histories
  <2>7. \A a \in Attempts : a # y => d[a] = c[a]
    BY <1>2 DEF Histories
  <2> HIDE DEF d
  <2> QED
    BY <2>3, <2>5, <2>6, <2>7
<1> HIDE DEF p, n, y, k, d, actual, tokens, refund, reset, retryAt
<1>11. \A a \in Attempts : (d[a] # None <=> c[a] # None) /\ (c[a] # None => d[a].at = c[a].at)
  BY <1>6, <1>10
<1>12. ASSUME NEW s \in Scopes
       PROVE  /\ Window(p, d, s) = Window(p, c, s)
              /\ refund[s] \in Nat
              /\ Charged(d, Window(p, c, s)) + refund[s] = Charged(c, Window(p, c, s))
              /\ Charged(d, Window(p, c, s)) \in Nat /\ Charged(c, Window(p, c, s)) \in Nat
  <2> DEFINE W == Window(p, c, s)
             T == Limit[s].tpm
             left == p.buckets[s].tpm
  <2>1. Window(p, d, s) = W
    BY <1>11 DEF Window
  <2>2. /\ W \in SUBSET Attempts /\ \A a \in W : c[a] # None
        /\ Charged(c, W) \in Nat /\ \A a \in W : c[a].charge <= Charged(c, W)
    <3>1. W \in SUBSET Attempts /\ \A a \in W : c[a] # None
      BY <1>2, WindowShape
    <3> HIDE DEF W
    <3> QED
      BY <1>2, <3>1, ChargedType
  <2>3. \A a \in W : d[a] # None
    BY <1>11, <2>2
  <2>4. Charged(d, W) \in Nat
    <3> HIDE DEF W
    <3> QED
      BY <1>10, <2>2, <2>3, ChargedType
  <2>5. left + Charged(c, W) = T /\ left \in Nat
    BY <1>1, <1>9 DEF Sound, Accounted
  <2>6. q.active[y].since[s] = p.buckets[s].since <=> y \in W
    <3>1. q.active[y].since[s] = p.buckets[s].since <=> c[y].at >= p.buckets[s].since
      BY <1>1, <1>3, <1>5 DEF Sound, Matched
    <3> QED
      BY <1>4, <1>6, <3>1 DEF Window
  <2>7. refund[s] = IF q.active[y].since[s] # p.buckets[s].since THEN 0
                    ELSE Smaller(tokens - actual, T - left)
    BY <1>3 DEF Refund, refund, y, tokens, actual
  <2> HIDE DEF W, T, left
  <2>8. CASE y \in W
    <3>1. tokens <= Charged(c, W)
      BY <1>6, <2>2, <2>8
    <3>2. T - left = Charged(c, W)
      BY <2>2, <2>5
    <3>3. refund[s] = Smaller(tokens - actual, Charged(c, W))
      BY <2>6, <2>7, <2>8, <3>2
    <3>4. refund[s] = tokens - actual /\ refund[s] \in Nat
      BY <1>4, <1>6, <2>2, <3>1, <3>3 DEF Smaller
    <3>5. Charged(d, W) = Charged(c, W) - c[y].charge + d[y].charge
      <4>1. \A a \in W \ {y} : c[a].charge = d[a].charge
        BY <1>10, <2>2
      <4> QED
        BY <1>2, <1>10, <2>2, <2>3, <2>8, <4>1, ChargedChange
    <3>6. Charged(d, W) = Charged(c, W) - tokens + actual
      BY <1>6, <1>10, <3>5
    <3> QED
      BY <1>4, <1>6, <2>1, <2>2, <2>4, <3>4, <3>6 DEF W
  <2>9. CASE y \notin W
    <3>1. refund[s] = 0
      BY <2>6, <2>7, <2>9
    <3>2. \A a \in W : c[a].charge = d[a].charge
      BY <1>10, <2>2, <2>9
    <3>3. Charged(c, W) = Charged(d, W)
      BY <2>2, <3>2, ChargedSame
    <3> QED
      BY <2>1, <2>2, <3>1, <3>3 DEF W
  <2> QED
    BY <2>8, <2>9
<1>13. ASSUME NEW s \in Scopes
       PROVE  /\ n.buckets[s] \in Buckets
              /\ n.buckets[s].rpm = p.buckets[s].rpm
              /\ n.buckets[s].tpm = p.buckets[s].tpm + refund[s]
              /\ n.buckets[s].since = p.buckets[s].since
  <2>1. n.buckets[s] = [p.buckets[s] EXCEPT !.tpm = @ + refund[s]]
    BY <1>8
  <2>2. p.buckets[s].tpm + refund[s] \in Nat
    BY <1>9, <1>12
  <2>3. p.buckets[s] \in Buckets
    BY <1>9
  <2> QED
    BY <2>1, <2>2, <2>3 DEF Buckets
<1>14. n.logical \in [Calls -> Logical \cup {None}] /\ n.logical[k] # None
       /\ n.logical[k].last = y[2]
       /\ \A call \in Calls : call # k => n.logical[call] = p.logical[call]
  <2>1. p.logical \in [Calls -> Logical \cup {None}]
    BY <1>2 DEF States
  <2> DEFINE l == p.logical[k]
             over == retryAt = None
             next == [l EXCEPT !.retryAt = retryAt, !.terminal = over]
  <2>2. next \in Logical /\ next.last = l.last
    <3>1. over \in BOOLEAN /\ l \in Logical
      BY <1>7
    <3> HIDE DEF l, over
    <3> QED
      BY <1>4, <3>1, LogicalAfter
  <2>3. n.logical = [p.logical EXCEPT ![k] = next]
    BY <1>8
  <2> HIDE DEF next
  <2>4. n.logical[k] \in Logical /\ n.logical[k].last = y[2]
    BY <1>4, <1>7, <2>1, <2>2, <2>3
  <2>5. n.logical[k] # None
    BY <2>4, QuotaAssumption
  <2>6. \A call \in Calls : call # k => n.logical[call] = p.logical[call]
    BY <2>1, <2>3
  <2>7. n.logical \in [Calls -> Logical \cup {None}]
    BY <1>4, <2>1, <2>2, <2>3
  <2> QED
    BY <2>4, <2>5, <2>6, <2>7
<1>15. LeasedIn(n) = LeasedIn(p) \ {y} /\ IsFiniteSet(LeasedIn(p))
  <2>1. p.active \in [Attempts -> Leases \cup {None}]
    BY <1>2 DEF States
  <2> QED
    BY <1>4, <1>8, <2>1, AttemptsFinite DEF LeasedIn
<1>16. ASSUME NEW s \in Scopes
       PROVE  /\ n.inUse[s] \in Nat /\ n.inUse[s] = Cardinality(LeasedIn(n))
              /\ n.inUse[s] <= Limit[s].concurrency
  <2>1. p.inUse[s] = Cardinality(LeasedIn(p)) /\ p.inUse[s] <= Limit[s].concurrency
    BY <1>1 DEF Sound, Lent
  <2>2. Cardinality(LeasedIn(n)) = Cardinality(LeasedIn(p)) - 1
    BY <1>5, <1>15, FS_RemoveElement
  <2>3. Cardinality(LeasedIn(n)) \in Nat
    BY <1>15, FS_RemoveElement, FS_CardinalityType, FS_Subset
  <2>4. n.inUse[s] = p.inUse[s] - 1
    BY <1>8
  <2>5. p.inUse[s] \in Nat /\ Limit[s].concurrency \in Nat
    BY <1>9, LimitType
  <2> QED
    BY <2>1, <2>2, <2>3, <2>4, <2>5
<1>17. n \in States
  <2>1. n.buckets \in [Scopes -> Buckets]
    <3>1. \A s \in Scopes : n.buckets[s] \in Buckets
      BY <1>13
    <3> QED
      BY <1>8, <3>1
  <2>2. n.inUse \in [Scopes -> Nat]
    <3>1. \A s \in Scopes : n.inUse[s] \in Nat
      BY <1>16
    <3> QED
      BY <1>8, <3>1
  <2>3. n.active \in [Attempts -> Leases \cup {None}]
    BY <1>2, <1>4, <1>8 DEF States
  <2>4. n.resetUntil \in Nat /\ n.admitted \in SUBSET Attempts
    BY <1>2, <1>4, <1>8 DEF States
  <2> QED
    BY <1>8, <1>14, <2>1, <2>2, <2>3, <2>4 DEF States
<1>18. Timed(n, d, at)
  <2>1. ASSUME NEW s \in Scopes
        PROVE  /\ p.buckets[s].since <= at /\ at < p.buckets[s].since + Limit[s].window
               /\ \A a \in Attempts : d[a] # None => d[a].at < p.buckets[s].since + Limit[s].window
    <3>1. /\ p.buckets[s].since <= at /\ at < p.buckets[s].since + Limit[s].window
          /\ \A a \in Attempts : c[a] # None => c[a].at < p.buckets[s].since + Limit[s].window
      BY <1>1 DEF Sound, Timed
    <3> QED
      BY <3>1, <1>11
  <2> QED
    BY <1>13, <2>1 DEF Timed
<1>19. Accounted(n, d)
  <2> SUFFICES ASSUME NEW s \in Scopes
               PROVE  /\ n.buckets[s].rpm + Cardinality(Window(n, d, s)) = Limit[s].rpm
                      /\ n.buckets[s].tpm + Charged(d, Window(n, d, s)) = Limit[s].tpm
    BY DEF Accounted
  <2>1. Window(n, d, s) = Window(p, d, s)
    BY <1>13 DEF Window
  <2>2. Window(n, d, s) = Window(p, c, s)
    BY <1>12, <2>1
  <2>3. /\ p.buckets[s].rpm + Cardinality(Window(p, c, s)) = Limit[s].rpm
        /\ p.buckets[s].tpm + Charged(c, Window(p, c, s)) = Limit[s].tpm
    BY <1>1 DEF Sound, Accounted
  <2>4. n.buckets[s].tpm = p.buckets[s].tpm + refund[s] /\ n.buckets[s].rpm = p.buckets[s].rpm
    BY <1>13
  <2>5. /\ refund[s] \in Nat
        /\ Charged(d, Window(p, c, s)) + refund[s] = Charged(c, Window(p, c, s))
        /\ Charged(d, Window(p, c, s)) \in Nat
    BY <1>12
  <2>6. p.buckets[s].tpm \in Nat
    BY <1>9
  <2> QED
    BY <2>2, <2>3, <2>4, <2>5, <2>6
<1>20. Lent(n)
  <2>1. ASSUME NEW a \in LeasedIn(n)
        PROVE  /\ n.logical[a[1]] # None /\ n.logical[a[1]].last = a[2]
               /\ ~n.logical[a[1]].terminal /\ n.logical[a[1]].retryAt = None
    <3>1. a \in LeasedIn(p) /\ a # y /\ a \in Attempts /\ a[1] \in Calls /\ a = <<a[1], a[2]>>
      BY <1>15 DEF LeasedIn, Attempts
    <3>2. /\ p.logical[a[1]] # None /\ p.logical[a[1]].last = a[2]
          /\ ~p.logical[a[1]].terminal /\ p.logical[a[1]].retryAt = None
      BY <1>1, <3>1 DEF Sound, Lent
    <3>3. a[1] # k
      BY <1>4, <1>7, <3>1, <3>2
    <3> QED
      BY <1>14, <3>1, <3>2, <3>3
  <2> QED
    BY <1>16, <2>1 DEF Lent
<1>21. Matched(n, d)
  <2> SUFFICES ASSUME NEW a \in LeasedIn(n)
               PROVE  /\ d[a] # None /\ d[a].charge = n.active[a].tokens
                      /\ \A s \in Scopes :
                           /\ n.active[a].since[s] <= n.buckets[s].since
                           /\ n.active[a].since[s] = n.buckets[s].since <=> d[a].at >= n.buckets[s].since
    BY DEF Matched
  <2>1. a \in LeasedIn(p) /\ a \in Attempts /\ a # y
    BY <1>15 DEF LeasedIn
  <2>2. n.active[a] = p.active[a] /\ d[a] = c[a]
    BY <1>2, <1>8, <1>10, <2>1 DEF States
  <2> QED
    BY <1>1, <1>13, <2>1, <2>2 DEF Sound, Matched
<1>22. InTurn(n, d)
  <2>1. n.admitted = {a \in Attempts : d[a] # None}
    BY <1>1, <1>8, <1>11 DEF Sound, InTurn
  <2>2. \A call \in Calls : /\ n.logical[call] # None <=> p.logical[call] # None
                            /\ p.logical[call] # None => n.logical[call].last = p.logical[call].last
    BY <1>7, <1>14
  <2>3. \A a \in Attempts : a[1] \in Calls
    BY DEF Attempts
  <2>4. \A a \in Attempts : d[a] # None <=> n.logical[a[1]] # None /\ a[2] <= n.logical[a[1]].last
    BY <1>1, <1>11, <2>2, <2>3 DEF Sound, InTurn
  <2>5. \A call \in Calls : n.logical[call] # None => n.logical[call].last < MaxAttempts
    BY <1>1, <2>2 DEF Sound, InTurn
  <2> QED
    BY <2>1, <2>4, <2>5 DEF InTurn
<1> QED
  BY <1>10, <1>17, <1>18, <1>19, <1>20, <1>21, <1>22 DEF Sound, n, d, y, actual

-----------------------------------------------------------------------------
(* The quota *)

\* A quota starts with full buckets and nothing admitted.
LEMMA InitSound ==
  ASSUME Init
  PROVE  IInv
<1> DEFINE q == Configured
           c == [a \in Attempts |-> None]
<1>1. quota = q /\ calls = c /\ now = 0
  BY DEF Init
<1>2. /\ \A s \in Scopes : q.inUse[s] = 0
      /\ \A call \in Calls : q.logical[call] = None
      /\ \A a \in Attempts : q.active[a] = None /\ c[a] = None
      /\ q.resetUntil = 0 /\ q.admitted = {}
  BY DEF Configured
<1>3. q \in States
  <2>1. \A s \in Scopes : [rpm |-> Limit[s].rpm, tpm |-> Limit[s].tpm, since |-> 0] \in Buckets
    <3> SUFFICES ASSUME NEW s \in Scopes
                 PROVE  [rpm |-> Limit[s].rpm, tpm |-> Limit[s].tpm, since |-> 0] \in Buckets
      OBVIOUS
    <3>1. Limit[s].rpm \in Nat /\ Limit[s].tpm \in Nat
      BY LimitType
    <3> QED
      BY <3>1 DEF Buckets
  <2> QED
    BY <2>1 DEF Configured, States
<1>4. c \in Histories
  BY DEF Histories
<1> HIDE DEF q, c
<1>5. Timed(q, c, 0)
  <2> SUFFICES ASSUME NEW s \in Scopes
               PROVE  /\ q.buckets[s].since <= 0 /\ 0 < q.buckets[s].since + Limit[s].window
                      /\ \A a \in Attempts :
                           c[a] # None => c[a].at < q.buckets[s].since + Limit[s].window
    BY DEF Timed
  <2>1. q.buckets[s].since = 0
    BY DEF q, Configured
  <2>2. Limit[s].window \in Nat \ {0}
    BY LimitType
  <2> QED
    BY <1>2, <2>1, <2>2
<1>6. Accounted(q, c)
  <2> SUFFICES ASSUME NEW s \in Scopes
               PROVE  /\ q.buckets[s].rpm + Cardinality(Window(q, c, s)) = Limit[s].rpm
                      /\ q.buckets[s].tpm + Charged(c, Window(q, c, s)) = Limit[s].tpm
    BY DEF Accounted
  <2>1. Window(q, c, s) = {}
    BY <1>2 DEF Window
  <2>2. Cardinality({}) = 0 /\ Charged(c, {}) = 0
    BY FS_EmptySet, ChargedNothing
  <2>3. q.buckets[s].rpm = Limit[s].rpm /\ q.buckets[s].tpm = Limit[s].tpm
    BY DEF q, Configured
  <2>4. Limit[s].rpm \in Nat /\ Limit[s].tpm \in Nat
    BY LimitType
  <2> QED
    BY <2>1, <2>2, <2>3, <2>4
<1>7. LeasedIn(q) = {}
  BY <1>2 DEF LeasedIn
<1>8. Lent(q)
  <2>1. ASSUME NEW s \in Scopes
        PROVE  q.inUse[s] = Cardinality({}) /\ q.inUse[s] <= Limit[s].concurrency
    <3>1. q.inUse[s] = 0 /\ Cardinality({}) = 0
      BY <1>2, FS_EmptySet
    <3>2. Limit[s].concurrency \in Nat
      BY LimitType
    <3> QED
      BY <3>1, <3>2
  <2> QED
    BY <1>7, <2>1 DEF Lent
<1>9. Matched(q, c)
  BY <1>7 DEF Matched
<1>10. InTurn(q, c)
  <2>1. \A a \in Attempts : a[1] \in Calls
    BY DEF Attempts
  <2> QED
    BY <1>2, <2>1 DEF InTurn
<1> QED
  BY <1>1, <1>3, <1>4, <1>5, <1>6, <1>8, <1>9, <1>10 DEF IInv, Sound

\* Each operation, at any later time, keeps the quota sound.
LEMMA StepSound ==
  ASSUME IInv, Next
  PROVE  IInv'
<1>1. now \in Nat /\ now' \in Nat /\ now <= now' /\ Sound(quota, calls, now)
  BY QuotaAssumption DEF IInv, Sound, Next
<1>2. ASSUME NEW r \in Requests, AcquireRefused(r)
      PROVE  IInv'
  <2>1. quota' = Looked(quota, now') /\ calls' = calls
    BY <1>2 DEF AcquireRefused
  <2> QED
    BY <1>1, <2>1, RefreshSound DEF IInv
<1>3. ASSUME NEW r \in Requests, Acquire(r)
      PROVE  IInv'
  <2>1. /\ quota' = Admitted(quota, r, now') /\ Reasons(quota, r, now') = {}
        /\ calls' = [calls EXCEPT ![<<r.call, r.attempt>>] = [at |-> now', charge |-> r.tokens]]
    BY <1>3 DEF Acquire
  <2> QED
    BY <1>1, <2>1, AdmitSound DEF IInv
<1>4. ASSUME NEW x \in Reports, SettlementRefused(x)
      PROVE  IInv'
  <2>1. quota' = Looked(quota, now') /\ calls' = calls
    BY <1>4 DEF SettlementRefused
  <2> QED
    BY <1>1, <2>1, RefreshSound DEF IInv
<1>5. ASSUME NEW x \in Reports, Settle(x)
      PROVE  IInv'
  <2>1. /\ quota' = Settled(quota, x, now')
        /\ quota.active[x.attempt] # None /\ x.actual <= quota.active[x.attempt].tokens
        /\ calls' = [calls EXCEPT ![x.attempt].charge = x.actual]
    BY <1>5 DEF Settle
  <2> QED
    BY <1>1, <2>1, SettleSound DEF IInv
<1> QED
  BY <1>2, <1>3, <1>4, <1>5 DEF Next, Complete, FailRetryable, Provider429

\* In every reachable state the buckets are accounts of the admissions.
THEOREM Invariance == Spec => []IInv
<1>1. Init => IInv
  BY InitSound
<1>2. IInv /\ [Next]_vars => IInv'
  <2>1. IInv /\ UNCHANGED vars => IInv'
    BY DEF IInv, vars
  <2> QED
    BY <2>1, StepSound
<1> QED
  BY <1>1, <1>2, PTL DEF Spec

\* Neither a window nor a slot is lent twice, lost or kept, for any limits,
\* windows, requests and settlements (refund_if_current, _settle_active).
THEOREM AccountsAreKept == Spec => []AccountsAreExact
<1>1. IInv => AccountsAreExact
  <2> SUFFICES ASSUME IInv PROVE AccountsAreExact
    OBVIOUS
  <2>1. WindowsAreAccounts
    <3>1. \A s \in Scopes : InWindow(s) = Window(quota, calls, s)
      BY DEF InWindow, Window
    <3> QED
      BY <3>1 DEF IInv, Sound, Accounted, Charged, WindowsAreAccounts
  <2>2. SlotsAreLeases
    <3>1. Leased = LeasedIn(quota)
      BY DEF Leased, LeasedIn
    <3> QED
      BY <3>1 DEF IInv, Sound, Lent, SlotsAreLeases
  <2> QED
    BY <2>1, <2>2 DEF AccountsAreExact
<1> QED
  BY <1>1, Invariance, PTL

\* What is admitted is on time, a reset is never shortened and a call that is
\* over stays over, at every step.
LEMMA StepOnTime ==
  ASSUME IInv, Next
  PROVE  AdmitsOnTime
<1>1. /\ now' \in Nat /\ Sound(quota, calls, now) /\ quota \in States /\ calls \in Histories
      /\ quota.resetUntil \in Nat
  <2>1. now \in Nat /\ now' \in now..MaxTime /\ MaxTime \in Nat
    BY QuotaAssumption DEF IInv, Sound, Next
  <2>2. now' \in Nat
    BY <2>1
  <2> QED
    BY <2>2, StateShape DEF IInv, Sound
<1>2. ASSUME quota' = Looked(quota, now'), calls' = calls
      PROVE  AdmitsOnTime
  <2>1. quota'.resetUntil = quota.resetUntil /\ quota'.logical = quota.logical
    BY <1>1, <1>2, LookedShape
  <2> QED
    BY <1>1, <1>2, <2>1 DEF AdmitsOnTime
<1>3. ASSUME NEW r \in Requests, Acquire(r)
      PROVE  AdmitsOnTime
  <2> DEFINE y == <<r.call, r.attempt>>
             l == quota.logical[r.call]
  <2>1. /\ quota' = Admitted(quota, r, now') /\ Allowed(quota, r, now')
        /\ calls' = [calls EXCEPT ![y] = [at |-> now', charge |-> r.tokens]]
    BY <1>3, NoReasons DEF Acquire
  <2>2. y \in Attempts /\ calls[y] = None /\ r.call \in Calls /\ y[1] = r.call /\ y[2] = r.attempt
    BY <1>1, <2>1, NewAttempt, RequestShape
  <2>3. /\ quota'.resetUntil = quota.resetUntil
        /\ quota'.logical = [quota.logical EXCEPT ![r.call] =
                               [last |-> r.attempt, deadline |-> DeadlineOf(quota, r),
                                retryAt |-> None, terminal |-> FALSE]]
    BY <2>1 DEF Admitted
  <2>4. /\ quota'.logical[r.call].deadline = DeadlineOf(quota, r)
        /\ \A c \in Calls : c # r.call => quota'.logical[c] = quota.logical[c]
    BY <1>1, <2>2, <2>3 DEF States
  <2>5. \A a \in Attempts : a # y => calls'[a] = calls[a]
    BY <1>1, <2>1 DEF Histories
  <2>6. /\ NoLaterThan(now', DeadlineOf(quota, r)) /\ ~(now' < quota.resetUntil)
        /\ ~(RetryAtOf(quota, r) # None /\ now' < RetryAtOf(quota, r))
        /\ IF r.attempt = 0 THEN l = None
           ELSE l # None /\ r.attempt < MaxAttempts /\ ~l.terminal /\ Follows(r, l)
    BY <2>1 DEF Allowed
  <2>7. ASSUME l # None
        PROVE  /\ l.last \in Nat /\ r.attempt = l.last + 1 /\ ~l.terminal
               /\ l.retryAt # None /\ l.retryAt \in Int /\ l.retryAt <= now'
               /\ DeadlineOf(quota, r) = l.deadline
               /\ quota.active[<<r.call, l.last>>] = None
    <3>1. l.last \in Nat /\ l.retryAt \in Int \cup {None}
      BY <1>1, <2>2, <2>7, StateShape DEF Logical
    <3>2. ~l.terminal /\ l.retryAt # None /\ r.attempt = l.last + 1
      BY <2>6, <2>7 DEF Follows
    <3>3. RetryAtOf(quota, r) = l.retryAt /\ DeadlineOf(quota, r) = l.deadline
      BY <2>7 DEF RetryAtOf, DeadlineOf
    <3>4. l.retryAt \in Int /\ l.retryAt <= now'
      BY <1>1, <2>6, <3>1, <3>2, <3>3
    <3>5. <<r.call, l.last>> \in Attempts
      <4>1. l.last < MaxAttempts /\ MaxAttempts \in Nat
        BY <2>2, <2>7, QuotaAssumption DEF IInv, Sound, InTurn
      <4> QED
        BY <2>2, <3>1, <4>1 DEF Attempts
    <3>6. <<r.call, l.last>> \notin LeasedIn(quota)
      BY <3>2 DEF IInv, Sound, Lent
    <3> QED
      BY <3>1, <3>2, <3>3, <3>4, <3>5, <3>6 DEF LeasedIn
  <2>8. TimelyAdmission(y)
    <3>1. quota.resetUntil <= now'
      BY <1>1, <2>6
    <3>2. NoLaterThan(now', quota'.logical[r.call].deadline)
      BY <2>4, <2>6
    <3>3. l = None => r.attempt = 0
      BY <2>6
    <3> HIDE DEF y
    <3> QED
      BY <2>2, <2>4, <2>7, <3>1, <3>2, <3>3 DEF TimelyAdmission
  <2>9. \A a \in Attempts :
          IF calls[a] = None THEN calls'[a] # None => TimelyAdmission(a)
          ELSE calls'[a] # None /\ calls'[a].at = calls[a].at
    BY <2>2, <2>5, <2>8
  <2>10. \A c \in Calls : quota.logical[c] # None =>
           (quota.logical[c].terminal => quota'.logical[c] = quota.logical[c])
    BY <2>4, <2>7
  <2> QED
    BY <1>1, <2>3, <2>9, <2>10 DEF AdmitsOnTime
<1>4. ASSUME NEW x \in Reports, Settle(x)
      PROVE  AdmitsOnTime
  <2> DEFINE y == x.attempt
  <2>1. /\ quota' = Settled(quota, x, now') /\ quota.active[y] # None
        /\ calls' = [calls EXCEPT ![y].charge = x.actual]
    BY <1>4 DEF Settle
  <2>2. /\ y \in Attempts /\ y[1] \in Calls
        /\ ResetAfter(quota, x, now') >= quota.resetUntil
    BY <1>1, ReportShape
  <2>3. y \in LeasedIn(quota)
    BY <2>1, <2>2 DEF LeasedIn
  <2>4. /\ calls[y] # None /\ calls[y] \in Charges
        /\ ~quota.logical[y[1]].terminal
    BY <1>1, <2>2, <2>3, ChargeType DEF Sound, Matched, Lent
  <2>6. /\ calls'[y] = [calls[y] EXCEPT !.charge = x.actual]
        /\ \A a \in Attempts : a # y => calls'[a] = calls[a]
    BY <1>1, <2>1, <2>2 DEF Histories
  <2>7. calls'[y].at = calls[y].at /\ calls'[y] # None
    <3>1. x.actual \in Nat
      BY <1>1, ReportShape
    <3>2. calls'[y] \in Charges /\ calls'[y].at = calls[y].at
      BY <2>4, <2>6, <3>1 DEF Charges
    <3> QED
      BY <3>2, QuotaAssumption
  <2>8. /\ quota'.resetUntil = ResetAfter(quota, x, now')
        /\ \A c \in Calls : c # y[1] => quota'.logical[c] = quota.logical[c]
    BY <1>1, <2>1 DEF Settled, States
  <2> HIDE DEF y
  <2>9. \A a \in Attempts :
          IF calls[a] = None THEN calls'[a] # None => TimelyAdmission(a)
          ELSE calls'[a] # None /\ calls'[a].at = calls[a].at
    BY <2>4, <2>6, <2>7
  <2> QED
    BY <2>2, <2>4, <2>8, <2>9 DEF AdmitsOnTime
<1> QED
  BY <1>2, <1>3, <1>4 DEF Next, AcquireRefused, SettlementRefused, Complete, FailRetryable,
                          Provider429

\* No attempt is admitted during a reset, after its call's first deadline,
\* before its backoff is over, out of turn or twice (acquire, _identity_reasons).
THEOREM RetriesAreRuled == Spec => RetriesKeepTheRules
<1>1. IInv /\ [Next]_vars => [AdmitsOnTime]_vars
  BY StepOnTime
<1> QED
  BY <1>1, Invariance, PTL DEF Spec, RetriesKeepTheRules

-----------------------------------------------------------------------------
(* The replay *)

\* The replay reconstructs the admission it is told of.
LEMMA AdmissionReplayed ==
  ASSUME NEW q, NEW r, NEW at, NEW e,
         e.request = r, e.at = at, e.deadline = DeadlineOf(q, r)
  PROVE  AfterAdmission(q, e) = Admitted(q, r, at)
BY DEF AfterAdmission, Admitted

\* The replay reconstructs the settlement it is told of.
LEMMA SettlementReplayed ==
  ASSUME NEW q, NEW x, NEW at, NEW e,
         e.attempt = x.attempt, e.at = at, e.outcome = x.outcome, e.actual = x.actual,
         e.cap = q.active[x.attempt].tokens,
         e.outcome = "provider_429" => e.resetAt = ResetAfter(q, x, at)
  PROVE  /\ ExpectedRefund(q, e) = Refund(q, x, at)
         /\ ExpectedRetry(q, e) = RetryTime(q, x, at)
         /\ AfterSettlement(q, e) = Settled(q, x, at)
<1>1. ExpectedRefund(q, e) = Refund(q, x, at)
  <2>1. ASSUME NEW s \in Scopes
        PROVE  ExpectedRefund(q, e)[s] = Refund(q, x, at)[s]
    BY DEF ExpectedRefund, Refund
  <2>2. /\ ExpectedRefund(q, e) = [s \in Scopes |-> ExpectedRefund(q, e)[s]]
        /\ Refund(q, x, at) = [s \in Scopes |-> Refund(q, x, at)[s]]
    BY DEF ExpectedRefund, Refund
  <2>3. [s \in Scopes |-> ExpectedRefund(q, e)[s]] = [s \in Scopes |-> Refund(q, x, at)[s]]
    BY <2>1
  <2> QED
    BY <2>2, <2>3
<1>2. ExpectedRetry(q, e) = RetryTime(q, x, at)
  <2>1. /\ e.attempt = x.attempt /\ e.at = at /\ e.outcome = x.outcome
        /\ e.outcome = "provider_429" => e.resetAt = ResetAfter(q, x, at)
    OBVIOUS
  <2> QED
    BY <2>1 DEF ExpectedRetry, RetryTime
<1>3. (IF e.outcome = "provider_429" THEN e.resetAt ELSE q.resetUntil) = ResetAfter(q, x, at)
  BY DEF ResetAfter
<1>4. AfterSettlement(q, e) = Settled(q, x, at)
  BY <1>1, <1>2, <1>3 DEF AfterSettlement, Settled
<1> QED
  BY <1>1, <1>2, <1>4

\* An admission the quota records is believed.
LEMMA AdmissionBelieved ==
  ASSUME NEW q, NEW c, NEW t, Sound(q, c, t), NEW at \in Nat, t <= at,
         NEW r \in Requests, Reasons(q, r, at) = {}
  PROVE  /\ Accepts(q, t, AdmissionEvent(q, r, at))
         /\ Advanced(q, AdmissionEvent(q, r, at)) = Admitted(q, r, at)
         /\ AdmissionEvent(q, r, at).at = at
<1> DEFINE e == AdmissionEvent(q, r, at)
           y == <<r.call, r.attempt>>
           l == q.logical[r.call]
<1>1. /\ e.kind = "call_admitted" /\ e.at = at /\ e.request = r
      /\ e.deadline = DeadlineOf(q, r) /\ e.after = Snapshot(Admitted(q, r, at))
  BY DEF AdmissionEvent
<1> HIDE DEF e
<1>2. AfterAdmission(q, e) = Admitted(q, r, at)
  BY <1>1, AdmissionReplayed
<1>3. Allowed(q, r, at) /\ q \in States /\ c \in Histories /\ t \in Nat
  BY NoReasons DEF Sound
<1>4. y \in Attempts /\ r.attempt < MaxAttempts /\ c[y] = None
  BY <1>3, NewAttempt
<1>5. y \notin q.admitted /\ q.active[y] = None
  BY <1>4 DEF Sound, InTurn, Matched, LeasedIn
<1>6. q.resetUntil \in Nat /\ at >= q.resetUntil /\ NoLaterThan(at, e.deadline)
  BY <1>1, <1>3, StateShape DEF Allowed
<1>7. AdmissibleIdentity(q, e)
  <2>1. r.call \in Calls /\ r.attempt \in Nat /\ ((r.attempt = 0) = (r.previous = None))
    BY <1>3, RequestShape DEF Requests
  <2>2. CASE r.attempt = 0
    <3>1. l = None /\ r.previous = None
      BY <1>3, <2>1, <2>2 DEF Allowed
    <3>2. e.deadline = r.deadline
      BY <1>1, <3>1 DEF DeadlineOf
    <3> QED
      BY <1>1, <2>2, <3>1, <3>2 DEF AdmissibleIdentity
  <2>3. CASE r.attempt # 0
    <3>1. l # None /\ r.attempt < MaxAttempts /\ ~l.terminal /\ Follows(r, l)
      BY <1>3, <2>3 DEF Allowed
    <3>2. e.deadline = l.deadline
      BY <1>1, <3>1 DEF DeadlineOf
    <3>3. at >= l.retryAt
      <4>1. l.retryAt # None /\ l.retryAt \in Int \cup {None}
        BY <1>3, <2>1, <3>1, StateShape DEF Follows, Logical
      <4>2. ~(at < l.retryAt)
        BY <1>3, <3>1, <4>1 DEF Allowed, RetryAtOf
      <4> QED
        BY <4>1, <4>2
    <3> QED
      BY <1>1, <2>3, <3>1, <3>2, <3>3 DEF AdmissibleIdentity, Follows
  <2> QED
    BY <2>2, <2>3
<1>8. ASSUME NEW s \in Scopes
      PROVE  /\ Refreshed(q, at)[s].rpm >= 1 /\ Refreshed(q, at)[s].tpm >= r.tokens
             /\ q.inUse[s] < Limit[s].concurrency
  <2> DEFINE p == Looked(q, at)
  <2>1. Sound(p, c, at)
    BY RefreshSound
  <2>2. p \in States /\ p.buckets = Refreshed(q, at)
    BY <1>3, <2>1, LookedShape DEF Sound
  <2> HIDE DEF p
  <2>3. Refreshed(q, at)[s].rpm \in Nat /\ Refreshed(q, at)[s].tpm \in Nat
    BY <2>2, StateShape
  <2>4. q.inUse[s] \in Nat /\ Limit[s].concurrency \in Nat /\ r.tokens \in Nat
    BY <1>3, StateShape, LimitType, RequestShape
  <2>5. /\ ~(Refreshed(q, at)[s].rpm < 1) /\ ~(Refreshed(q, at)[s].tpm < r.tokens)
        /\ ~(q.inUse[s] >= Limit[s].concurrency)
    BY <1>3 DEF Allowed
  <2> QED
    BY <2>3, <2>4, <2>5
<1>9. AdmissionHolds(q, e)
  BY <1>1, <1>2, <1>4, <1>5, <1>6, <1>7, <1>8 DEF AdmissionHolds
<1>10. Accepts(q, t, e) /\ Advanced(q, e) = Admitted(q, r, at)
  BY <1>1, <1>2, <1>3, <1>9 DEF Accepts, Advanced
<1> QED
  BY <1>1, <1>10 DEF e

\* A refusal the quota records is believed, and changes the buckets only.
LEMMA RefusalBelieved ==
  ASSUME NEW q, NEW t \in Nat, NEW at \in Nat, t <= at,
         NEW r \in Requests, Reasons(q, r, at) # {}
  PROVE  /\ Accepts(q, t, RefusalEvent(q, r, at))
         /\ Advanced(q, RefusalEvent(q, r, at)) = Looked(q, at)
         /\ RefusalEvent(q, r, at).at = at
<1> DEFINE e == RefusalEvent(q, r, at)
<1>1. /\ e.kind = "admission_refused" /\ e.at = at /\ e.request = r
      /\ e.deadline = DeadlineOf(q, r) /\ e.reasons = Reasons(q, r, at)
      /\ e.retryAt = RetryHint(q, r, at) /\ e.after = Snapshot(Looked(q, at))
  BY DEF RefusalEvent
<1> HIDE DEF e
<1>2. RefusalHolds(q, e)
  BY <1>1 DEF RefusalHolds
<1>3. Accepts(q, t, e) /\ Advanced(q, e) = Looked(q, at)
  BY <1>1, <1>2 DEF Accepts, Advanced
<1> QED
  BY <1>1, <1>3 DEF e

\* A settlement the quota records is believed.
LEMMA SettlementBelieved ==
  ASSUME NEW q \in States, NEW t \in Nat, NEW at \in Nat, t <= at,
         NEW x \in Reports, q.active[x.attempt] # None,
         x.actual <= q.active[x.attempt].tokens
  PROVE  /\ Accepts(q, t, SettlementEvent(q, x, at))
         /\ Advanced(q, SettlementEvent(q, x, at)) = Settled(q, x, at)
         /\ SettlementEvent(q, x, at).at = at
<1> DEFINE e == SettlementEvent(q, x, at)
<1>1. /\ e.kind = "call_settled" /\ e.at = at /\ e.attempt = x.attempt /\ e.outcome = x.outcome
      /\ e.cap = q.active[x.attempt].tokens /\ e.actual = x.actual /\ e.refund = Refund(q, x, at)
      /\ e.resetAt = IF x.outcome = "provider_429" THEN ResetAfter(q, x, at) ELSE None
      /\ e.retryAt = RetryTime(q, x, at) /\ e.after = Snapshot(Settled(q, x, at))
  BY DEF SettlementEvent
<1> HIDE DEF e
<1>2. /\ ExpectedRefund(q, e) = Refund(q, x, at)
      /\ ExpectedRetry(q, e) = RetryTime(q, x, at)
      /\ AfterSettlement(q, e) = Settled(q, x, at)
  BY <1>1, SettlementReplayed
<1>3. IF e.outcome = "provider_429" THEN e.resetAt > e.at /\ e.resetAt >= q.resetUntil
      ELSE e.resetAt = None
  <2>1. CASE x.outcome = "provider_429"
    <3>1. x.reset \in Nat /\ x.reset # 0 /\ q.resetUntil \in Nat
      BY <2>1, ReportShape, StateShape DEF Reports
    <3>2. e.resetAt = Larger(q.resetUntil, at + x.reset)
      BY <1>1, <2>1 DEF ResetAfter
    <3>3. e.resetAt > at /\ e.resetAt >= q.resetUntil
      BY <3>1, <3>2 DEF Larger
    <3> QED
      BY <1>1, <2>1, <3>3
  <2>2. CASE x.outcome # "provider_429"
    BY <1>1, <2>2
  <2> QED
    BY <2>1, <2>2
<1>4. SettlementHolds(q, e)
  BY <1>1, <1>2, <1>3 DEF SettlementHolds
<1>5. Accepts(q, t, e) /\ Advanced(q, e) = Settled(q, x, at)
  BY <1>1, <1>2, <1>4 DEF Accepts, Advanced
<1> QED
  BY <1>1, <1>5 DEF e

\* A refused settlement the quota records is believed.
LEMMA OverrunBelieved ==
  ASSUME NEW q, NEW t \in Nat, NEW at \in Nat, t <= at,
         NEW x \in Reports, q.active[x.attempt] # None,
         x.actual > q.active[x.attempt].tokens
  PROVE  /\ Accepts(q, t, OverrunEvent(q, x, at))
         /\ Advanced(q, OverrunEvent(q, x, at)) = Looked(q, at)
         /\ OverrunEvent(q, x, at).at = at
<1> DEFINE e == OverrunEvent(q, x, at)
<1>1. /\ e.kind = "settlement_refused" /\ e.at = at /\ e.attempt = x.attempt
      /\ e.cap = q.active[x.attempt].tokens /\ e.actual = x.actual
      /\ e.after = Snapshot(Looked(q, at))
  BY DEF OverrunEvent
<1> HIDE DEF e
<1>2. OverrunHolds(q, e)
  BY <1>1 DEF OverrunHolds
<1>3. Accepts(q, t, e) /\ Advanced(q, e) = Looked(q, at)
  BY <1>1, <1>2 DEF Accepts, Advanced
<1> QED
  BY <1>1, <1>3 DEF e

\* The replay reads what the quota does, as it does it.
LEMMA StepReplayed ==
  ASSUME ReplayInv, ReplayNext
  PROVE  ReplayInv' /\ Next
<1>1. /\ now \in Nat /\ now' \in Nat /\ now <= now' /\ now' \in now..MaxTime
      /\ Sound(quota, calls, now) /\ quota \in States
      /\ vquota = quota /\ vnow = now /\ ~raised
  BY QuotaAssumption DEF ReplayInv, RecordedLogsPass, IInv, Sound, ReplayNext
<1>2. ASSUME NEW e, Read(e), Accepts(quota, now, e), Advanced(quota, e) = quota', e.at = now'
      PROVE  RecordedLogsPass'
  BY <1>1, <1>2 DEF Read, RecordedLogsPass
<1>3. Next
  BY DEF ReplayNext, Next
<1>4. IInv'
  BY <1>3, StepSound DEF ReplayInv
<1>5. ASSUME NEW r \in Requests, AcquireRefused(r), Read(RefusalEvent(quota, r, now'))
      PROVE  RecordedLogsPass'
  <2>1. Reasons(quota, r, now') # {} /\ quota' = Looked(quota, now')
    BY <1>5 DEF AcquireRefused
  <2>2. /\ Accepts(quota, now, RefusalEvent(quota, r, now'))
        /\ Advanced(quota, RefusalEvent(quota, r, now')) = quota'
        /\ RefusalEvent(quota, r, now').at = now'
    BY <1>1, <2>1, RefusalBelieved
  <2> QED
    BY <1>2, <1>5, <2>2
<1>6. ASSUME NEW r \in Requests, Acquire(r), Read(AdmissionEvent(quota, r, now'))
      PROVE  RecordedLogsPass'
  <2>1. Reasons(quota, r, now') = {} /\ quota' = Admitted(quota, r, now')
    BY <1>6 DEF Acquire
  <2>2. /\ Accepts(quota, now, AdmissionEvent(quota, r, now'))
        /\ Advanced(quota, AdmissionEvent(quota, r, now')) = quota'
        /\ AdmissionEvent(quota, r, now').at = now'
    BY <1>1, <2>1, AdmissionBelieved
  <2> QED
    BY <1>2, <1>6, <2>2
<1>7. ASSUME NEW x \in Reports, SettlementRefused(x), Read(OverrunEvent(quota, x, now'))
      PROVE  RecordedLogsPass'
  <2>1. /\ quota.active[x.attempt] # None /\ x.actual > quota.active[x.attempt].tokens
        /\ quota' = Looked(quota, now')
    BY <1>7 DEF SettlementRefused
  <2>2. /\ Accepts(quota, now, OverrunEvent(quota, x, now'))
        /\ Advanced(quota, OverrunEvent(quota, x, now')) = quota'
        /\ OverrunEvent(quota, x, now').at = now'
    BY <1>1, <2>1, OverrunBelieved
  <2> QED
    BY <1>2, <1>7, <2>2
<1>8. ASSUME NEW x \in Reports, Settle(x), Read(SettlementEvent(quota, x, now'))
      PROVE  RecordedLogsPass'
  <2>1. /\ quota.active[x.attempt] # None /\ x.actual <= quota.active[x.attempt].tokens
        /\ quota' = Settled(quota, x, now')
    BY <1>8 DEF Settle
  <2>2. /\ Accepts(quota, now, SettlementEvent(quota, x, now'))
        /\ Advanced(quota, SettlementEvent(quota, x, now')) = quota'
        /\ SettlementEvent(quota, x, now').at = now'
    BY <1>1, <2>1, SettlementBelieved
  <2> QED
    BY <1>2, <1>8, <2>2
<1>9. RecordedLogsPass'
  BY <1>5, <1>6, <1>7, <1>8 DEF ReplayNext, Complete, FailRetryable, Provider429
<1> QED
  BY <1>3, <1>4, <1>9 DEF ReplayInv

\* In every reachable state the replay has believed everything recorded and is
\* where the quota is.
THEOREM ReplayInvariance == ReplaySpec => []ReplayInv
<1>1. ReplayInit => ReplayInv
  BY InitSound DEF ReplayInit, ReplayInv, RecordedLogsPass, Init
<1>2. ReplayInv /\ [ReplayNext]_allVars => ReplayInv'
  <2>1. ReplayInv /\ UNCHANGED allVars => ReplayInv'
    BY DEF ReplayInv, RecordedLogsPass, IInv, allVars, vars
  <2> QED
    BY <2>1, StepReplayed
<1> QED
  BY <1>1, <1>2, PTL DEF ReplaySpec

\* The replay follows a quota: whatever holds of every quota holds of one that
\* is replayed.
THEOREM ReplayedIsAQuota == ReplaySpec => Spec
<1>1. ReplayInit => Init
  BY DEF ReplayInit
<1>2. ReplayInv /\ [ReplayNext]_allVars => [Next]_vars
  <2>1. UNCHANGED allVars => UNCHANGED vars
    BY DEF allVars, vars
  <2> QED
    BY <2>1, StepReplayed
<1> QED
  BY <1>1, <1>2, ReplayInvariance, PTL DEF ReplaySpec, Spec

-----------------------------------------------------------------------------
(* Forgeries *)

\* An admission that is believed is one the quota would have recorded.
LEMMA BelievedAdmission ==
  ASSUME NEW q \in States, NEW r \in Requests, NEW at \in Nat, NEW t, NEW e,
         e.kind = "call_admitted", e.request = r, e.at = at, Accepts(q, t, e)
  PROVE  Reasons(q, r, at) = {} /\ e.deadline = DeadlineOf(q, r) /\ at >= t
<1> DEFINE l == q.logical[r.call]
<1>1. AdmissionHolds(q, e) /\ at >= t
  BY DEF Accepts
<1>2. /\ r.call \in Calls /\ r.attempt \in Nat /\ r.tokens \in Nat
      /\ q.resetUntil \in Nat /\ (l # None => l.retryAt \in Int \cup {None})
  BY RequestShape, StateShape DEF Logical
<1>3. AdmissibleIdentity(q, e)
  BY <1>1 DEF AdmissionHolds
<1>4. /\ IF r.attempt = 0 THEN l = None
         ELSE l # None /\ r.attempt < MaxAttempts /\ ~l.terminal /\ Follows(r, l)
      /\ e.deadline = DeadlineOf(q, r)
      /\ ~(RetryAtOf(q, r) # None /\ at < RetryAtOf(q, r))
  <2>1. CASE r.attempt = 0
    <3>1. l = None /\ e.deadline = r.deadline
      BY <1>3, <2>1 DEF AdmissibleIdentity
    <3> QED
      BY <2>1, <3>1 DEF DeadlineOf, RetryAtOf
  <2>2. CASE r.attempt # 0
    <3>1. /\ l # None /\ ~l.terminal /\ l.retryAt # None
          /\ r.attempt < MaxAttempts /\ r.attempt = l.last + 1 /\ r.previous = l.last
          /\ e.deadline = l.deadline /\ r.deadline \in {None, l.deadline}
          /\ at >= l.retryAt
      BY <1>3, <2>2 DEF AdmissibleIdentity
    <3>2. Follows(r, l)
      BY <3>1 DEF Follows
    <3>3. RetryAtOf(q, r) = l.retryAt /\ DeadlineOf(q, r) = l.deadline
      BY <3>1 DEF RetryAtOf, DeadlineOf
    <3>4. ~(at < l.retryAt)
      BY <1>2, <3>1
    <3> QED
      BY <2>2, <3>1, <3>2, <3>3, <3>4
  <2> QED
    BY <2>1, <2>2
<1>5. NoLaterThan(at, DeadlineOf(q, r)) /\ ~(at < q.resetUntil)
  BY <1>1, <1>2, <1>4 DEF AdmissionHolds
<1>6. ASSUME NEW s \in Scopes
      PROVE  /\ ~(Refreshed(q, at)[s].rpm < 1) /\ ~(Refreshed(q, at)[s].tpm < r.tokens)
             /\ ~(q.inUse[s] >= Limit[s].concurrency)
  <2>1. /\ Refreshed(q, at)[s].rpm >= 1 /\ Refreshed(q, at)[s].tpm >= r.tokens
        /\ q.inUse[s] < Limit[s].concurrency
    BY <1>1 DEF AdmissionHolds
  <2>2. q.inUse[s] \in Nat /\ Limit[s].concurrency \in Nat
    BY StateShape, LimitType
  <2>3. Refreshed(q, at)[s].rpm \in Int /\ Refreshed(q, at)[s].tpm \in Int
    <3> DEFINE b == q.buckets[s]
               p == (at - b.since) \div Limit[s].window
               R == Limit[s].rpm
               T == Limit[s].tpm
    <3>1. b.rpm \in Nat /\ b.tpm \in Nat /\ b.since \in Nat
      BY StateShape
    <3>2. R \in Nat /\ T \in Nat /\ Limit[s].window \in Nat \ {0}
      BY LimitType
    <3>3. p \in Int
      <4> HIDE DEF b
      <4> QED
        BY <3>1, <3>2
    <3>4. p * R \in Int /\ p * T \in Int
      <4> HIDE DEF p, R, T
      <4> QED
        BY <3>2, <3>3
    <3>5. Refreshed(q, at)[s] =
            IF p = 0 THEN b ELSE [rpm |-> Smaller(R, b.rpm + p * R), tpm |-> Smaller(T, b.tpm + p * T),
                                  since |-> b.since + p * Limit[s].window]
      BY DEF Refreshed
    <3>6. CASE p = 0
      BY <3>1, <3>5, <3>6
    <3>7. CASE p # 0
      <4> DEFINE pR == p * R
                 pT == p * T
      <4>1. Refreshed(q, at)[s].rpm = Smaller(R, b.rpm + pR)
            /\ Refreshed(q, at)[s].tpm = Smaller(T, b.tpm + pT)
        BY <3>5, <3>7
      <4>2. pR \in Int /\ pT \in Int
        BY <3>4
      <4> HIDE DEF b, R, T, pR, pT
      <4> QED
        BY <3>1, <3>2, <4>1, <4>2 DEF Smaller
    <3> QED
      BY <3>6, <3>7
  <2> QED
    BY <1>2, <2>1, <2>2, <2>3
<1>7. Allowed(q, r, at)
  BY <1>4, <1>5, <1>6 DEF Allowed
<1> QED
  BY <1>1, <1>4, <1>7, NoReasons

\* A settlement that is believed is one the quota would have recorded.
LEMMA BelievedSettlement ==
  ASSUME NEW q \in States, NEW t \in Nat, NEW at \in Nat, NEW x, NEW e,
         e.kind = "call_settled", e.at = at, e.attempt = x.attempt,
         e.outcome = x.outcome, e.actual = x.actual,
         x.reset = IF e.outcome = "provider_429" THEN e.resetAt - at ELSE 0,
         e.outcome = "provider_429" => e.resetAt \in Nat,
         Accepts(q, t, e)
  PROVE  /\ at >= t /\ q.active[e.attempt] # None /\ e.actual <= q.active[e.attempt].tokens
         /\ (e.outcome = "provider_429") = (x.reset > 0)
         /\ e.cap = q.active[x.attempt].tokens /\ e.refund = Refund(q, x, at)
         /\ e.resetAt = IF x.outcome = "provider_429" THEN ResetAfter(q, x, at) ELSE None
         /\ e.retryAt = RetryTime(q, x, at) /\ e.after = Snapshot(Settled(q, x, at))
<1>1. SettlementHolds(q, e) /\ at >= t
  BY DEF Accepts
<1>2. q.resetUntil \in Nat
  BY StateShape
<1>3. e.outcome = "provider_429" => e.resetAt > at /\ e.resetAt >= q.resetUntil
  BY <1>1 DEF SettlementHolds
<1>4. e.outcome # "provider_429" => e.resetAt = None
  BY <1>1 DEF SettlementHolds
<1>5. e.outcome = "provider_429" => x.reset > 0 /\ e.resetAt = ResetAfter(q, x, at)
  <2> SUFFICES ASSUME e.outcome = "provider_429"
               PROVE  x.reset > 0 /\ e.resetAt = ResetAfter(q, x, at)
    OBVIOUS
  <2>1. PICK reset \in Nat : e.resetAt = reset
    OBVIOUS
  <2>2. x.reset = reset - at /\ reset > at /\ reset >= q.resetUntil
    BY <1>3, <2>1
  <2>3. at + x.reset = reset
    BY <2>1, <2>2
  <2>4. ResetAfter(q, x, at) = Larger(q.resetUntil, reset)
    BY <2>3 DEF ResetAfter
  <2>5. Larger(q.resetUntil, reset) = reset
    BY <1>2, <2>1, <2>2 DEF Larger
  <2>6. x.reset > 0
    BY <2>1, <2>2
  <2> QED
    BY <2>1, <2>4, <2>5, <2>6
<1>6. e.outcome # "provider_429" => x.reset = 0
  OBVIOUS
<1>7. (e.outcome = "provider_429") = (x.reset > 0)
  BY <1>5, <1>6
<1>8. /\ q.active[e.attempt] # None /\ e.cap = q.active[e.attempt].tokens /\ e.actual <= e.cap
      /\ e.refund = ExpectedRefund(q, e) /\ e.retryAt = ExpectedRetry(q, e)
      /\ e.after = Snapshot(AfterSettlement(q, e))
  BY <1>1 DEF SettlementHolds
<1>9. /\ ExpectedRefund(q, e) = Refund(q, x, at)
      /\ ExpectedRetry(q, e) = RetryTime(q, x, at)
      /\ AfterSettlement(q, e) = Settled(q, x, at)
  BY <1>5, <1>8, SettlementReplayed
<1> QED
  BY <1>1, <1>4, <1>5, <1>7, <1>8, <1>9

\* Neither an admission nor a settlement that the quota would not record is believed.
LEMMA NoForgeryPasses ==
  ASSUME ReplayInv
  PROVE  ForgeriesAreRefused
<1>1. quota \in States /\ now \in Nat /\ vquota = quota /\ vnow = now
  BY DEF ReplayInv, RecordedLogsPass, IInv, Sound
<1>2. ASSUME NEW r \in Requests, NEW at \in Nat, NEW d,
             Accepts(quota, now, ForgedAdmission(r, at, d))
      PROVE  Recordable(ForgedAdmission(r, at, d))
  <2> DEFINE g == AdmissionEvent(quota, r, at)
             e == ForgedAdmission(r, at, d)
  <2>1. /\ e.kind = "call_admitted" /\ e.request = r /\ e.at = at /\ e.deadline = d
        /\ g.deadline = d => e = g
    BY DEF ForgedAdmission, AdmissionEvent
  <2>2. g.deadline = DeadlineOf(quota, r)
    BY DEF AdmissionEvent
  <2> HIDE DEF e, g
  <2>3. Reasons(quota, r, at) = {} /\ e.deadline = DeadlineOf(quota, r) /\ at >= now
    BY <1>1, <1>2, <2>1, BelievedAdmission DEF e
  <2>4. e = g
    BY <2>1, <2>2, <2>3
  <2>5. Recordable(e)
    BY <2>1, <2>3, <2>4 DEF Recordable, g
  <2> QED
    BY <2>5 DEF e
<1>3. ASSUME NEW x \in Reports, NEW at \in Nat, NEW shorter \in BOOLEAN, NEW refund, NEW retryAt,
             Accepts(quota, now, ForgedSettlement(x, at, refund, retryAt, shorter))
      PROVE  Recordable(ForgedSettlement(x, at, refund, retryAt, shorter))
  <2> DEFINE g == SettlementEvent(quota, x, at)
             e == ForgedSettlement(x, at, refund, retryAt, shorter)
             reset == IF e.outcome = "provider_429" THEN e.resetAt - e.at ELSE 0
             z == [attempt |-> e.attempt, actual |-> e.actual, outcome |-> e.outcome,
                   reset |-> reset]
  <2>1. PICK declared, after :
          /\ e = [kind |-> "call_settled", at |-> at, attempt |-> x.attempt, outcome |-> x.outcome,
                  cap |-> quota.active[x.attempt].tokens, actual |-> x.actual, refund |-> refund,
                  resetAt |-> declared, retryAt |-> retryAt, after |-> after]
          /\ x.outcome = "provider_429" => declared \in Nat
    <3> DEFINE declared == IF shorter THEN at + 1 ELSE g.resetAt
    <3>1. CASE x.outcome # "provider_429"
      <4>1. e = [kind |-> "call_settled", at |-> at, attempt |-> x.attempt, outcome |-> x.outcome,
                 cap |-> quota.active[x.attempt].tokens, actual |-> x.actual, refund |-> refund,
                 resetAt |-> g.resetAt, retryAt |-> retryAt, after |-> g.after]
        BY <3>1 DEF ForgedSettlement, SettlementEvent
      <4> QED
        BY <3>1, <4>1
    <3>2. CASE x.outcome = "provider_429"
      <4>1. declared \in Nat
        <5>1. g.resetAt = ResetAfter(quota, x, at)
          BY <3>2 DEF SettlementEvent
        <5>2. g.resetAt \in Nat
          BY <1>1, <5>1, ReportShape
        <5> HIDE DEF g
        <5> QED
          BY <5>2
      <4>2. e = [kind |-> "call_settled", at |-> at, attempt |-> x.attempt, outcome |-> x.outcome,
                 cap |-> quota.active[x.attempt].tokens, actual |-> x.actual, refund |-> refund,
                 resetAt |-> declared, retryAt |-> retryAt,
                 after |-> [g.after EXCEPT !.resetUntil = declared]]
        BY <3>2 DEF ForgedSettlement, SettlementEvent
      <4> HIDE DEF declared, e, g
      <4> QED
        BY <4>1, <4>2
    <3> QED
      BY <3>1, <3>2
  <2> HIDE DEF e
  <2>2. /\ e.kind = "call_settled" /\ e.at = at /\ e.attempt = x.attempt /\ e.outcome = x.outcome
        /\ e.actual = x.actual
        /\ e.outcome = "provider_429" => e.resetAt \in Nat
    BY <2>1
  <2>3. /\ z.attempt = e.attempt /\ z.actual = e.actual /\ z.outcome = e.outcome
        /\ z.reset = IF e.outcome = "provider_429" THEN e.resetAt - at ELSE 0
    BY <2>2
  <2>4. Accepts(quota, now, e)
    BY <1>3 DEF e
  <2>5. /\ at >= now /\ quota.active[e.attempt] # None
        /\ e.actual <= quota.active[e.attempt].tokens
        /\ (e.outcome = "provider_429") = (z.reset > 0)
        /\ e.cap = quota.active[z.attempt].tokens /\ e.refund = Refund(quota, z, at)
        /\ e.resetAt = IF z.outcome = "provider_429" THEN ResetAfter(quota, z, at) ELSE None
        /\ e.retryAt = RetryTime(quota, z, at) /\ e.after = Snapshot(Settled(quota, z, at))
    <3> HIDE DEF z
    <3> QED
      BY <1>1, <2>2, <2>3, <2>4, BelievedSettlement
  <2>6. e = SettlementEvent(quota, z, e.at)
    <3>1. e = [kind |-> e.kind, at |-> e.at, attempt |-> e.attempt, outcome |-> e.outcome,
               cap |-> e.cap, actual |-> e.actual, refund |-> e.refund, resetAt |-> e.resetAt,
               retryAt |-> e.retryAt, after |-> e.after]
      BY <2>1
    <3> HIDE DEF z
    <3> QED
      BY <2>2, <2>3, <2>5, <3>1 DEF SettlementEvent
  <2>7. z.outcome = e.outcome /\ z.reset = reset
    OBVIOUS
  <2>8. Recordable(e)
    BY <2>2, <2>5, <2>6, <2>7 DEF Recordable
  <2> QED
    BY <2>8 DEF e
<1>4. \A at \in now..(now + 1) : at \in Nat
  BY <1>1
<1>5. \A at \in 0..MaxTime : at \in Nat
  OBVIOUS
<1> QED
  BY <1>1, <1>2, <1>3, <1>4, <1>5 DEF ForgeriesAreRefused

\* The replay accepts what the quota recorded and no next admission or
\* settlement it would not record (replay_quota_events).
THEOREM ReplayBelievesExactly == ReplaySpec => []ReplayIsExact
<1>1. ReplayInv => ReplayIsExact
  BY NoForgeryPasses DEF ReplayInv, ReplayIsExact
<1> QED
  BY <1>1, ReplayInvariance, PTL
=============================================================================
