---------------------------- MODULE EffectKernel ----------------------------
(***************************************************************************)
(* The durable effect kernel of effects.py: broker processes that share    *)
(* one SQLite database, the simulated target they apply effects to, and    *)
(* the authority that issues approval grants.                              *)
(*                                                                         *)
(* Every broker method runs in one BEGIN IMMEDIATE transaction, so it is   *)
(* one atomic step on the database.  What is not atomic is everything      *)
(* around it: a caller keeps a fencing token it read some transactions     *)
(* ago, a grant keeps ageing, and the target is written in the middle of   *)
(* a transaction that a process death may still roll back.                 *)
(*                                                                         *)
(* Calls that raise or that return without writing leave every variable    *)
(* unchanged; they are the stuttering steps and have no action here.       *)
(***************************************************************************)
EXTENDS Integers, Sequences

CONSTANTS
  Keys,         \* idempotency keys; the key column is UNIQUE, so also intents
  Operations,   \* immutable operations (action, resource, payload, class)
  EffectClass,  \* the class of each operation
  Brokers,      \* broker processes, each with its broker_id and its caller
  GrantIds,     \* identifiers of the grants the authority issues
  TTLs,         \* lifetimes the authority gives to a grant
  MaxTime,      \* bound: the wall clock reads 0 .. MaxTime
  MaxFence,     \* bound: no fence is issued above MaxFence
  NoOp, NoBroker, NoGrant, NoKey

Classes == {"idempotent_write", "reversible_write", "irreversible_write"}

ASSUME ConstantsAssumption ==
  /\ EffectClass \in [Operations -> Classes]
  /\ TTLs \subseteq Nat \ {0}
  /\ MaxTime \in Nat
  /\ MaxFence \in Nat
  /\ NoOp \notin Operations
  /\ NoBroker \notin Brokers
  /\ NoGrant \notin GrantIds
  /\ NoKey \notin Keys

VARIABLES
  state,    \* effect_intents.state, "absent" while there is no row
  op,       \* the immutable columns of the row
  fence,    \* effect_intents.fence_version
  owner,    \* effect_intents.fence_owner
  grantId,  \* effect_intents.approval_grant_id
  spent,    \* approval_grants: the intent that consumed each grant
  outbox,   \* effect_outbox in sequence order
  applied,  \* target: the operation recorded under each key
  applies,  \* target: physical applications under each key
  undone,   \* target: physical compensations under each key
  highest,  \* target: the highest fence seen for each intent
  token,    \* the token each broker's caller took from a returned intent
  grant,    \* the grants the authority has issued
  now       \* the wall clock

dbVars     == <<state, op, fence, owner, grantId, spent, outbox>>
targetVars == <<applied, applies, undone, highest>>
vars       == <<dbVars, targetVars, token, grant, now>>

States == {"proposed", "prepared", "approved", "committed", "aborted",
           "ambiguous", "compensated"}

Tokens == [version : Nat, owner : Brokers \cup {NoBroker}]
NoToken == [version |-> 0, owner |-> NoBroker]

Grants == [key : Keys \cup {NoKey}, exact : BOOLEAN, from : Nat, until : Nat]
NotIssued == [key |-> NoKey, exact |-> FALSE, from |-> 0, until |-> 0]

Events == [key : Keys, type : States \cup {"fence_acquired"},
           state : States, fence : Nat]

Irreversible(k) == op[k] # NoOp /\ EffectClass[op[k]] = "irreversible_write"
Reversible(k)   == op[k] # NoOp /\ EffectClass[op[k]] = "reversible_write"

Init ==
  /\ state   = [k \in Keys |-> "absent"]
  /\ op      = [k \in Keys |-> NoOp]
  /\ fence   = [k \in Keys |-> 0]
  /\ owner   = [k \in Keys |-> NoBroker]
  /\ grantId = [k \in Keys |-> NoGrant]
  /\ spent   = [g \in GrantIds |-> NoKey]
  /\ outbox  = << >>
  /\ applied = [k \in Keys |-> NoOp]
  /\ applies = [k \in Keys |-> 0]
  /\ undone  = [k \in Keys |-> 0]
  /\ highest = [k \in Keys |-> 0]
  /\ token   = [b \in Brokers |-> [k \in Keys |-> NoToken]]
  /\ grant   = [g \in GrantIds |-> NotIssued]
  /\ now     = 0

-----------------------------------------------------------------------------
(* The broker's helpers. *)

\* Mutant: the event is built from the row as loaded, before the update.
EnqueueStale(k, type) ==
  outbox' = Append(outbox, [key |-> k, type |-> type,
                            state |-> state[k], fence |-> fence[k]])

\* The row's new state and fence go into the outbox in the same transaction.
Enqueue(k, type) ==
  outbox' = Append(outbox, [key |-> k, type |-> type,
                            state |-> state'[k], fence |-> fence'[k]])

SetState(k, s) == state' = [state EXCEPT ![k] = s]

\* The row's own token: the one prepare or acquire_fence returned.
RowToken(k) == [version |-> fence[k], owner |-> owner[k]]

HoldsFence(b, k) == token[b][k] = RowToken(k)

\* Mutant: the scope of a signed grant is not compared with the intent.
GrantVerifiesUnscoped(g, k, enforceTime) ==
  /\ grant[g].key = k
  /\ enforceTime => grant[g].from <= now /\ now < grant[g].until

\* Authentic signature, exact scope and, at commit of an effect the target
\* is not yet known to hold, a validity interval that contains the clock.
GrantVerifies(g, k, enforceTime) ==
  /\ grant[g].key = k
  /\ grant[g].exact
  /\ grant[g].from < grant[g].until
  /\ enforceTime => grant[g].from <= now /\ now < grant[g].until

\* Mutant: a takeover sets the first fence again instead of a higher one.
TakeFenceAgain(b, k) ==
  /\ fence[k] < MaxFence
  /\ fence' = [fence EXCEPT ![k] = 1]
  /\ owner' = [owner EXCEPT ![k] = b]
  /\ token' = [token EXCEPT ![b][k] = [version |-> 1, owner |-> b]]

\* A new, higher fence for broker b, whose caller takes the returned token.
TakeFence(b, k) ==
  /\ fence[k] < MaxFence
  /\ fence' = [fence EXCEPT ![k] = @ + 1]
  /\ owner' = [owner EXCEPT ![k] = b]
  /\ token' = [token EXCEPT ![b][k] = [version |-> fence'[k], owner |-> b]]

-----------------------------------------------------------------------------
(* Broker methods that only touch the database. *)

Propose(k, o) ==
  /\ state[k] = "absent"
  /\ op' = [op EXCEPT ![k] = o]
  /\ SetState(k, "proposed")
  /\ UNCHANGED fence
  /\ Enqueue(k, "proposed")
  /\ UNCHANGED <<owner, grantId, spent, targetVars, token, grant, now>>

Prepare(b, k) ==
  /\ state[k] = "proposed"
  /\ TakeFence(b, k)
  /\ SetState(k, "prepared")
  /\ Enqueue(k, "prepared")
  /\ UNCHANGED <<op, grantId, spent, targetVars, grant, now>>

AcquireFence(b, k) ==
  /\ state[k] \in {"prepared", "approved", "ambiguous"}
  /\ TakeFence(b, k)
  /\ UNCHANGED state
  /\ Enqueue(k, "fence_acquired")
  /\ UNCHANGED <<op, grantId, spent, targetVars, grant, now>>

\* The caller of broker b re-reads the intent and takes the row's token,
\* whichever broker that token was issued to.
ReadToken(b, k) ==
  /\ fence[k] > 0
  /\ ~HoldsFence(b, k)
  /\ token' = [token EXCEPT ![b][k] = RowToken(k)]
  /\ UNCHANGED <<dbVars, targetVars, grant, now>>

ApproveByPolicy(b, k) ==
  /\ state[k] = "prepared"
  /\ HoldsFence(b, k)
  /\ ~Irreversible(k)
  /\ SetState(k, "approved")
  /\ UNCHANGED fence
  /\ Enqueue(k, "approved")
  /\ UNCHANGED <<op, owner, grantId, spent, targetVars, token, grant, now>>

\* approval_grants has grant_id as PRIMARY KEY and intent_id UNIQUE.
ApproveByGrant(b, k, g) ==
  /\ state[k] = "prepared"
  /\ HoldsFence(b, k)
  /\ Irreversible(k)
  /\ GrantVerifies(g, k, TRUE)
  /\ spent[g] = NoKey
  /\ \A h \in GrantIds : spent[h] # k
  /\ spent' = [spent EXCEPT ![g] = k]
  /\ grantId' = [grantId EXCEPT ![k] = g]
  /\ SetState(k, "approved")
  /\ UNCHANGED fence
  /\ Enqueue(k, "approved")
  /\ UNCHANGED <<op, owner, targetVars, token, grant, now>>

Abort(b, k) ==
  /\ \/ state[k] = "proposed"
     \/ state[k] \in {"prepared", "approved"} /\ HoldsFence(b, k)
  /\ SetState(k, "aborted")
  /\ UNCHANGED fence
  /\ Enqueue(k, "aborted")
  /\ UNCHANGED <<op, owner, grantId, spent, targetVars, token, grant, now>>

-----------------------------------------------------------------------------
(* Commit and compensation: the target is written inside the transaction.  *)

\* The target refuses a fence below the highest it has seen.
TargetAcceptsFence(b, k) ==
  /\ token[b][k].version >= highest[k]
  /\ highest' = [highest EXCEPT ![k] = token[b][k].version]

\* was_applied: the target holds this very operation under this key.
WasApplied(k) == applied[k] = op[k] /\ op[k] # NoOp

\* Only an intent already known to be ambiguous is probed at the target.
AlreadyApplied(k) == state[k] = "ambiguous" /\ WasApplied(k)

\* Mutant: the stored grant's validity is not checked again at commit.
CommitAllowedUntimed(b, k) ==
  /\ state[k] \in {"approved", "ambiguous"}
  /\ HoldsFence(b, k)
  /\ Irreversible(k) => grantId[k] # NoGrant

\* Mutant: an ambiguous intent is not accepted for reconciliation.
CommitAllowedOnce(b, k) ==
  /\ state[k] = "approved"
  /\ HoldsFence(b, k)
  /\ Irreversible(k) =>
       /\ grantId[k] # NoGrant
       /\ GrantVerifies(grantId[k], k, TRUE)

CommitAllowed(b, k) ==
  /\ state[k] \in {"approved", "ambiguous"}
  /\ HoldsFence(b, k)
  /\ Irreversible(k) =>
       /\ grantId[k] # NoGrant
       /\ spent[grantId[k]] = k
       /\ GrantVerifies(grantId[k], k, ~AlreadyApplied(k))

Settle(k, s) ==
  /\ SetState(k, s)
  /\ UNCHANGED <<op, fence, owner, grantId, spent>>
  /\ Enqueue(k, s)

\* The ambiguous outcome is confirmed by the target: no call to execute.
CommitReconciled(b, k) ==
  /\ CommitAllowed(b, k)
  /\ AlreadyApplied(k)
  /\ Settle(k, "committed")
  /\ UNCHANGED <<targetVars, token, grant, now>>

\* execute is reached and the target accepts the fence.
Executes(b, k) ==
  /\ CommitAllowed(b, k)
  /\ ~AlreadyApplied(k)
  /\ TargetAcceptsFence(b, k)

\* The target already holds this effect and returns False.
CommitReplayed(b, k) ==
  /\ Executes(b, k)
  /\ WasApplied(k)
  /\ Settle(k, "committed")
  /\ UNCHANGED <<applied, applies, undone, token, grant, now>>

\* The target records the application under the key.  A key that holds another
\* effect makes execute raise AdapterConflict: TargetHoldsTheIntent says that
\* this never happens, so the raising branch has no action.
PhysicallyApply(k) ==
  /\ applied[k] = NoOp
  /\ applied' = [applied EXCEPT ![k] = op[k]]
  /\ applies' = [applies EXCEPT ![k] = @ + 1]
  /\ UNCHANGED undone

CommitApplied(b, k) ==
  /\ Executes(b, k)
  /\ PhysicallyApply(k)
  /\ Settle(k, "committed")
  /\ UNCHANGED <<token, grant, now>>

\* Applied without acknowledgement: the soft fault, persisted as ambiguous.
CommitAmbiguous(b, k) ==
  /\ Executes(b, k)
  /\ PhysicallyApply(k)
  /\ Settle(k, "ambiguous")
  /\ UNCHANGED <<token, grant, now>>

\* The target was written and the transaction is not committed: a statement
\* fails, or the process dies and restarts with no token in memory.
RollsBack(b) ==
  /\ token' \in {token, [token EXCEPT ![b] = [j \in Keys |-> NoToken]]}
  /\ UNCHANGED <<dbVars, grant, now>>

\* What execute did, for the first time or again, the row never hears of.
CommitCrashed(b, k) ==
  /\ Executes(b, k)
  /\ \/ PhysicallyApply(k)
     \/ WasApplied(k) /\ UNCHANGED <<applied, applies, undone>>
  /\ RollsBack(b)

\* Mutant: the class of the effect is not checked.
CompensateAnything(b, k) ==
  /\ state[k] \in {"committed", "ambiguous"}
  /\ HoldsFence(b, k)
  /\ WasApplied(k)
  /\ TargetAcceptsFence(b, k)

\* compensate reaches the target, which holds the effect and accepts the fence.
Compensates(b, k) ==
  /\ state[k] \in {"committed", "ambiguous"}
  /\ HoldsFence(b, k)
  /\ Reversible(k)
  /\ WasApplied(k)
  /\ TargetAcceptsFence(b, k)

\* Mutant: the target does not look for a compensation under the key.
PhysicallyUndoAgain(k) ==
  /\ undone' = [undone EXCEPT ![k] = @ + 1]
  /\ UNCHANGED <<applied, applies>>

\* The target records one compensation under the key; once it has one, it
\* returns False and the caller goes on all the same.
PhysicallyUndo(k) ==
  /\ undone' = [undone EXCEPT ![k] = IF @ = 0 THEN 1 ELSE @]
  /\ UNCHANGED <<applied, applies>>

Compensate(b, k) ==
  /\ Compensates(b, k)
  /\ PhysicallyUndo(k)
  /\ Settle(k, "compensated")
  /\ UNCHANGED <<token, grant, now>>

\* The target has undone the effect and the row still says what it said.
CompensateCrashed(b, k) ==
  /\ Compensates(b, k)
  /\ PhysicallyUndo(k)
  /\ RollsBack(b)

-----------------------------------------------------------------------------
(* The environment: the approver, the clock and process restarts. *)

\* The authority signs for the intent as it reads it, with a scope that may
\* have been overridden, for a lifetime that starts now.
Issue(g, k, exact, ttl) ==
  /\ grant[g] = NotIssued
  /\ state[k] # "absent"
  /\ grant' = [grant EXCEPT ![g] = [key |-> k, exact |-> exact,
                                    from |-> now, until |-> now + ttl]]
  /\ UNCHANGED <<dbVars, targetVars, token, now>>

\* time.time_ns is a wall clock: it may also be set back.
Tick ==
  /\ now' \in 0 .. MaxTime
  /\ now' # now
  /\ UNCHANGED <<dbVars, targetVars, token, grant>>

\* A broker process dies between two transactions and restarts.
Restart(b) ==
  /\ token[b] # [k \in Keys |-> NoToken]
  /\ token' = [token EXCEPT ![b] = [k \in Keys |-> NoToken]]
  /\ UNCHANGED <<dbVars, targetVars, grant, now>>

\* A commit whose transaction is committed.
CommitReturns(b, k) ==
  \/ CommitReconciled(b, k)
  \/ CommitReplayed(b, k)
  \/ CommitApplied(b, k)
  \/ CommitAmbiguous(b, k)

Commit(b, k) == CommitReturns(b, k) \/ CommitCrashed(b, k)

Next ==
  \/ \E k \in Keys, o \in Operations : Propose(k, o)
  \/ \E b \in Brokers, k \in Keys :
       \/ Prepare(b, k)
       \/ AcquireFence(b, k)
       \/ ReadToken(b, k)
       \/ ApproveByPolicy(b, k)
       \/ \E g \in GrantIds : ApproveByGrant(b, k, g)
       \/ Commit(b, k)
       \/ Compensate(b, k)
       \/ CompensateCrashed(b, k)
       \/ Abort(b, k)
  \/ \E g \in GrantIds, k \in Keys, exact \in BOOLEAN, ttl \in TTLs :
       Issue(g, k, exact, ttl)
  \/ Tick
  \/ \E b \in Brokers : Restart(b)

Spec == Init /\ [][Next]_vars

-----------------------------------------------------------------------------
(* Safety. *)

\* Every variable has its type.
TypeOK ==
  /\ state   \in [Keys -> States \cup {"absent"}]
  /\ op      \in [Keys -> Operations \cup {NoOp}]
  /\ fence   \in [Keys -> Nat]
  /\ owner   \in [Keys -> Brokers \cup {NoBroker}]
  /\ grantId \in [Keys -> GrantIds \cup {NoGrant}]
  /\ spent   \in [GrantIds -> Keys \cup {NoKey}]
  /\ outbox  \in Seq(Events)
  /\ applied \in [Keys -> Operations \cup {NoOp}]
  /\ applies \in [Keys -> Nat]
  /\ undone  \in [Keys -> Nat]
  /\ highest \in [Keys -> Nat]
  /\ token   \in [Brokers -> [Keys -> Tokens]]
  /\ grant   \in [GrantIds -> Grants]
  /\ now     \in Nat

\* A row that claims an application is backed by the target, and the target
\* holds nothing but the proposed operation: neither a rolled-back commit
\* nor a retry by another broker leaves the two databases telling different
\* stories (effects.py, commit and SimulatedEffectAdapter.execute).
TargetHoldsTheIntent ==
  \A k \in Keys :
    /\ applied[k] \in {NoOp, op[k]}
    /\ state[k] \in {"ambiguous", "committed", "compensated"} => WasApplied(k)

\* However often a commit or a compensation crashes, is retried or is taken
\* over, the target is changed at most once and undone at most once.  It is
\* undone before the row says so, or without the row ever saying so (the
\* compensation rolled back, and the ambiguous effect was committed): but
\* an irreversible or an abandoned effect is never undone, and a row that
\* says undone is never wrong.
PhysicalAtMostOnce ==
  \A k \in Keys :
    /\ applies[k] = (IF applied[k] = NoOp THEN 0 ELSE 1)
    /\ undone[k] \in {0, 1}
    /\ undone[k] = 1 =>
         /\ Reversible(k) /\ applies[k] = 1
         /\ state[k] \in {"ambiguous", "committed", "compensated"}
    /\ state[k] = "compensated" => undone[k] = 1

\* The approval table and the intent rows agree in both directions: a grant
\* is spent by one intent, an intent spends one grant, and that grant is an
\* authentic one for exactly this irreversible intent.
GrantsBindOneIntent ==
  \A k \in Keys, g \in GrantIds :
    /\ grantId[k] = g <=> spent[g] = k
    /\ spent[g] = k => grant[g].key = k /\ grant[g].exact /\ Irreversible(k)

\* An irreversible operation is at the target only if its intent has spent
\* a grant, whatever became of the intent afterwards.
IrreversibleIsGranted ==
  \A k \in Keys : applied[k] # NoOp /\ Irreversible(k) => grantId[k] # NoGrant

\* Rows and target tell one story, and what they tell happened once.
AppliedOnceAsProposed == TargetHoldsTheIntent /\ PhysicalAtMostOnce

\* A grant authorises one irreversible intent, and without one nothing
\* irreversible reaches the target.
ApprovalIsBinding == GrantsBindOneIntent /\ IrreversibleIsGranted

\* Fences order the brokers: no token and no target is ahead of the row, and
\* two tokens of one version are the same token.  The target therefore never
\* raises StaleFence against the holder of the current token.
FencesAgree ==
  \A k \in Keys :
    /\ highest[k] <= fence[k]
    /\ \A b \in Brokers :
         /\ token[b][k].version <= fence[k]
         /\ token[b][k].version = fence[k] /\ fence[k] > 0 => HoldsFence(b, k)
         /\ \A c \in Brokers :
              token[b][k].version = token[c][k].version
                => token[b][k] = token[c][k]

\* i and j are consecutive events of one intent.
Successive(i, j) ==
  /\ i < j
  /\ outbox[i].key = outbox[j].key
  /\ \A m \in i + 1 .. j - 1 : outbox[m].key # outbox[i].key

\* The transitions a consumer of the outbox may observe.
Lifecycle ==
  {<<"proposed", "prepared">>, <<"proposed", "aborted">>,
   <<"prepared", "approved">>, <<"prepared", "aborted">>,
   <<"approved", "committed">>, <<"approved", "ambiguous">>,
   <<"approved", "aborted">>, <<"ambiguous", "committed">>,
   <<"ambiguous", "compensated">>, <<"committed", "compensated">>}

\* The outbox is the history of the rows: the last event of an intent is its
\* row, and consecutive events of an intent are one step of its lifecycle
\* or one fence transfer; no transition is lost, duplicated or reordered by
\* a rollback (effects.py, _transaction and _enqueue).
OutboxIsTheHistory ==
  /\ \A k \in Keys : state[k] # "absent" =>
       \E i \in DOMAIN outbox :
         /\ outbox[i].key = k
         /\ outbox[i].state = state[k]
         /\ outbox[i].fence = fence[k]
         /\ \A j \in DOMAIN outbox : j > i => outbox[j].key # k
  /\ \A i, j \in DOMAIN outbox : Successive(i, j) =>
       \/ /\ outbox[j].type = "fence_acquired"
          /\ outbox[j].state = outbox[i].state
          /\ outbox[j].fence = outbox[i].fence + 1
       \/ /\ outbox[j].type = outbox[j].state
          /\ <<outbox[i].state, outbox[j].state>> \in Lifecycle
          /\ outbox[j].fence = outbox[i].fence
                                 + (IF outbox[j].type = "prepared" THEN 1 ELSE 0)

\* The target is changed by an irreversible operation only while a spent,
\* authentic grant for this intent is valid.
AppliesUnderValidGrant ==
  \A k \in Keys :
    applied'[k] # applied[k] /\ EffectClass[applied'[k]] = "irreversible_write"
      => \E g \in GrantIds : spent[g] = k /\ GrantVerifies(g, k, TRUE)

\* At the very step in which the target is changed by an irreversible
\* operation, an authentic grant for this intent is spent and the clock is
\* within its validity: approval that aged between approve and commit does
\* not authorise (effects.py, commit re-verifies the stored grant).
AppliedWithinValidity == [][AppliesUnderValidGrant]_vars

\* What the kernel promises of each effect, whatever happens inside.
Outcome(s) ==
  IF s = "committed" THEN "done"
  ELSE IF s = "compensated" THEN "undone"
  ELSE IF s = "aborted" THEN "abandoned"
  ELSE "open"

Promise == INSTANCE EffectPromise WITH
             reverted   <- {k \in Keys : undone[k] # 0},
             outcome    <- [k \in Keys |-> Outcome(state[k])],
             authorised <- {k \in Keys : grantId[k] # NoGrant}

\* The kernel implements the promise of EffectPromise.
KeepsPromise == Promise!Spec

-----------------------------------------------------------------------------
(* Liveness.  The kernel has no scheduler: a caller that recovers an effect *)
(* reads its token and retries the commit until one commits its row.        *)

Retries(k) ==
  /\ WF_vars(\E b \in Brokers : ReadToken(b, k))
  /\ SF_vars(\E b \in Brokers : CommitReturns(b, k))

FairSpec == Spec /\ \A k \in Keys : Retries(k)

Settled(k) == state[k] \in {"committed", "compensated", "aborted"}

\* An effect that needs no grant and reached the target is settled as long
\* as its commit is retried: crashes, restarts and takeovers cannot leave it
\* applied but open for ever.
PolicyEffectsSettle ==
  \A k \in Keys : (applied[k] # NoOp /\ ~Irreversible(k)) ~> Settled(k)
=============================================================================
