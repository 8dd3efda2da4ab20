------------------------- MODULE EffectKernelProofs -------------------------
(***************************************************************************)
(* Proofs about EffectKernel, for every set of keys, operations, brokers,  *)
(* grants and lifetimes and every bound; and, at the end, about WholeRun,  *)
(* whose accepted packages tell of the lives such effects can have.        *)
(***************************************************************************)
EXTENDS EffectKernel, WholeRun, SumLemmas, SequenceTheorems, TLAPS

-----------------------------------------------------------------------------
(* The strengthening that makes the safety invariants inductive. *)

\* What a row may hold in the states that precede its approval, and the
\* shape of the token of version 0.
RowsWellFormed ==
  \A k \in Keys :
    /\ state[k] = "absent" <=> op[k] = NoOp
    /\ state[k] \in {"absent", "proposed"} => fence[k] = 0
    /\ state[k] \in {"absent", "proposed", "prepared"} =>
         grantId[k] = NoGrant /\ applied[k] = NoOp
    /\ \A b \in Brokers :
         token[b][k].version = 0 => token[b][k] = NoToken

IInv ==
  /\ TypeOK
  /\ RowsWellFormed
  /\ TargetHoldsTheIntent
  /\ PhysicalAtMostOnce
  /\ GrantsBindOneIntent
  /\ IrreversibleIsGranted
  /\ FencesAgree

-----------------------------------------------------------------------------
(* Type correctness. *)

\* The initial state is well typed.
LEMMA InitTypeOK == Init => TypeOK
  BY ConstantsAssumption
  DEF Init, TypeOK, States, Tokens, NoToken, Grants, NotIssued, Events

\* Appending the new row's event keeps the outbox a sequence of events.
LEMMA EnqueueType ==
  ASSUME NEW k \in Keys, NEW type \in States \cup {"fence_acquired"},
         outbox \in Seq(Events), state'[k] \in States, fence'[k] \in Nat,
         Enqueue(k, type)
  PROVE  outbox' \in Seq(Events)
  BY DEF Enqueue, Events

\* A fence taken by a broker keeps the fences, owners and tokens typed.
LEMMA TakeFenceType ==
  ASSUME TypeOK, NEW b \in Brokers, NEW k \in Keys, TakeFence(b, k)
  PROVE  /\ fence' \in [Keys -> Nat]
         /\ fence'[k] \in Nat
         /\ owner' \in [Keys -> Brokers \cup {NoBroker}]
         /\ token' \in [Brokers -> [Keys -> Tokens]]
<1>1. fence' \in [Keys -> Nat] /\ fence'[k] \in Nat
  BY DEF TypeOK, TakeFence
<1>2. [version |-> fence'[k], owner |-> b] \in Tokens
  BY <1>1 DEF Tokens
<1>3. token' \in [Brokers -> [Keys -> Tokens]]
  BY <1>2 DEF TypeOK, TakeFence
<1>4. owner' \in [Keys -> Brokers \cup {NoBroker}]
  BY DEF TypeOK, TakeFence
<1> QED
  BY <1>1, <1>3, <1>4

\* A transaction that is rolled back leaves a token or takes it away.
LEMMA RollsBackTokens ==
  ASSUME TypeOK, NEW b \in Brokers, RollsBack(b)
  PROVE  /\ token' \in [Brokers -> [Keys -> Tokens]]
         /\ \A c \in Brokers, k \in Keys :
              token'[c][k] = token[c][k] \/ token'[c][k] = NoToken
         /\ UNCHANGED <<state, op, fence, owner, grantId, spent, outbox>>
         /\ UNCHANGED <<grant, now>>
<1>1. CASE token' = token
  BY <1>1 DEF RollsBack, TypeOK, dbVars
<1>2. CASE token' = [token EXCEPT ![b] = [j \in Keys |-> NoToken]]
  <2>1. NoToken \in Tokens
    BY DEF NoToken, Tokens
  <2> QED
    BY <1>2, <2>1 DEF RollsBack, TypeOK, dbVars
<1> QED
  BY <1>1, <1>2 DEF RollsBack

\* Every step of the kernel keeps the state well typed.
LEMMA StepTypeOK == TypeOK /\ [Next]_vars => TypeOK'
<1> SUFFICES ASSUME TypeOK, [Next]_vars PROVE TypeOK'
  OBVIOUS
<1> USE DEF States
<1>1. CASE UNCHANGED vars
  BY <1>1 DEF TypeOK, vars, dbVars, targetVars
<1>2. ASSUME NEW k \in Keys, NEW o \in Operations, Propose(k, o) PROVE TypeOK'
  <2>1. state' \in [Keys -> States \cup {"absent"}] /\ state'[k] = "proposed"
    BY <1>2 DEF Propose, SetState, TypeOK
  <2>2. outbox' \in Seq(Events)
    BY <1>2, <2>1, EnqueueType DEF Propose, TypeOK
  <2> QED
    BY <1>2, <2>1, <2>2 DEF Propose, TypeOK, targetVars
<1>3. ASSUME NEW b \in Brokers, NEW k \in Keys, Prepare(b, k) PROVE TypeOK'
  <2>1. state' \in [Keys -> States \cup {"absent"}] /\ state'[k] = "prepared"
    BY <1>3 DEF Prepare, SetState, TypeOK
  <2>2. outbox' \in Seq(Events)
    BY <1>3, <2>1, EnqueueType, TakeFenceType DEF Prepare, TypeOK
  <2> QED
    BY <1>3, <2>1, <2>2, TakeFenceType DEF Prepare, TypeOK, targetVars
<1>4. ASSUME NEW b \in Brokers, NEW k \in Keys, AcquireFence(b, k)
      PROVE TypeOK'
  <2>1. outbox' \in Seq(Events)
    BY <1>4, EnqueueType, TakeFenceType DEF AcquireFence, TypeOK
  <2> QED
    BY <1>4, <2>1, TakeFenceType DEF AcquireFence, TypeOK, targetVars
<1>5. ASSUME NEW b \in Brokers, NEW k \in Keys, ReadToken(b, k) PROVE TypeOK'
  <2>1. RowToken(k) \in Tokens
    BY DEF RowToken, Tokens, TypeOK
  <2> QED
    BY <1>5, <2>1 DEF ReadToken, TypeOK, dbVars, targetVars
<1>6. ASSUME NEW b \in Brokers, NEW k \in Keys, ApproveByPolicy(b, k)
      PROVE TypeOK'
  <2>1. state' \in [Keys -> States \cup {"absent"}] /\ state'[k] = "approved"
    BY <1>6 DEF ApproveByPolicy, SetState, TypeOK
  <2>2. outbox' \in Seq(Events)
    BY <1>6, <2>1, EnqueueType DEF ApproveByPolicy, TypeOK
  <2> QED
    BY <1>6, <2>1, <2>2 DEF ApproveByPolicy, TypeOK, targetVars
<1>7. ASSUME NEW b \in Brokers, NEW k \in Keys, NEW g \in GrantIds,
             ApproveByGrant(b, k, g)
      PROVE  TypeOK'
  <2>1. state' \in [Keys -> States \cup {"absent"}] /\ state'[k] = "approved"
    BY <1>7 DEF ApproveByGrant, SetState, TypeOK
  <2>2. outbox' \in Seq(Events)
    BY <1>7, <2>1, EnqueueType DEF ApproveByGrant, TypeOK
  <2> QED
    BY <1>7, <2>1, <2>2 DEF ApproveByGrant, TypeOK, targetVars
<1>8. ASSUME NEW b \in Brokers, NEW k \in Keys, Abort(b, k) PROVE TypeOK'
  <2>1. state' \in [Keys -> States \cup {"absent"}] /\ state'[k] = "aborted"
    BY <1>8 DEF Abort, SetState, TypeOK
  <2>2. outbox' \in Seq(Events)
    BY <1>8, <2>1, EnqueueType DEF Abort, TypeOK
  <2> QED
    BY <1>8, <2>1, <2>2 DEF Abort, TypeOK, targetVars
<1>9. ASSUME NEW k \in Keys, NEW s \in States, Settle(k, s)
      PROVE  /\ state' \in [Keys -> States \cup {"absent"}]
             /\ outbox' \in Seq(Events)
  <2>1. state' \in [Keys -> States \cup {"absent"}] /\ state'[k] = s
    BY <1>9 DEF Settle, SetState, TypeOK
  <2> QED
    BY <1>9, <2>1, EnqueueType DEF Settle, TypeOK
<1>10. ASSUME NEW b \in Brokers, NEW k \in Keys, TargetAcceptsFence(b, k)
       PROVE  highest' \in [Keys -> Nat]
  BY <1>10 DEF TargetAcceptsFence, TypeOK, Tokens
<1>16. ASSUME NEW b \in Brokers, RollsBack(b)
       PROVE  token' \in [Brokers -> [Keys -> Tokens]]
  BY <1>16, RollsBackTokens
<1>11. ASSUME NEW b \in Brokers, NEW k \in Keys, Commit(b, k) PROVE TypeOK'
  <2>1. CASE CommitReconciled(b, k)
    BY <2>1, <1>9 DEF CommitReconciled, Settle, TypeOK, targetVars
  <2>2. CASE CommitReplayed(b, k)
    BY <2>2, <1>9, <1>10 DEF CommitReplayed, Executes, Settle, TypeOK
  <2>3. ASSUME Executes(b, k), PhysicallyApply(k)
        PROVE  /\ highest' \in [Keys -> Nat]
               /\ applied' \in [Keys -> Operations \cup {NoOp}]
               /\ applies' \in [Keys -> Nat]
               /\ undone' \in [Keys -> Nat]
    BY <2>3, <1>10 DEF Executes, PhysicallyApply, TypeOK
  <2>4. CASE CommitApplied(b, k)
    BY <2>4, <2>3, <1>9 DEF CommitApplied, Settle, TypeOK
  <2>5. CASE CommitAmbiguous(b, k)
    BY <2>5, <2>3, <1>9 DEF CommitAmbiguous, Settle, TypeOK
  <2>6. CASE CommitCrashed(b, k)
    <3>1. token' \in [Brokers -> [Keys -> Tokens]]
      BY <2>6, <1>16 DEF CommitCrashed
    <3>2. CASE PhysicallyApply(k)
      BY <2>6, <2>3, <3>1, <3>2 DEF CommitCrashed, RollsBack, TypeOK, dbVars
    <3>3. CASE UNCHANGED <<applied, applies, undone>>
      BY <2>6, <1>10, <3>1, <3>3
      DEF CommitCrashed, Executes, RollsBack, TypeOK, dbVars
    <3> QED
      BY <2>6, <3>2, <3>3 DEF CommitCrashed
  <2> QED
    BY <1>11, <2>1, <2>2, <2>4, <2>5, <2>6 DEF Commit, CommitReturns
<1>12. ASSUME NEW b \in Brokers, NEW k \in Keys, Compensates(b, k),
              PhysicallyUndo(k)
       PROVE  /\ highest' \in [Keys -> Nat]
              /\ undone' \in [Keys -> Nat]
              /\ UNCHANGED <<applied, applies>>
  BY <1>12, <1>10 DEF Compensates, PhysicallyUndo, TypeOK
<1>17. ASSUME NEW b \in Brokers, NEW k \in Keys, Compensate(b, k)
       PROVE  TypeOK'
  BY <1>17, <1>9, <1>12 DEF Compensate, Settle, TypeOK
<1>18. ASSUME NEW b \in Brokers, NEW k \in Keys, CompensateCrashed(b, k)
       PROVE  TypeOK'
  BY <1>18, <1>12, <1>16 DEF CompensateCrashed, RollsBack, TypeOK, dbVars
<1>13. ASSUME NEW g \in GrantIds, NEW k \in Keys, NEW exact \in BOOLEAN,
              NEW ttl \in TTLs, Issue(g, k, exact, ttl)
       PROVE  TypeOK'
  <2>1. now \in Nat /\ now + ttl \in Nat
    BY ConstantsAssumption DEF TypeOK
  <2>2. [key |-> k, exact |-> exact, from |-> now,
        until |-> now + ttl] \in Grants
    BY <2>1 DEF Grants
  <2> QED
    BY <1>13, <2>2 DEF Issue, TypeOK, dbVars, targetVars
<1>14. CASE Tick
  BY <1>14, ConstantsAssumption DEF Tick, TypeOK, dbVars, targetVars
<1>15. ASSUME NEW b \in Brokers, Restart(b) PROVE TypeOK'
  BY <1>15 DEF Restart, NoToken, Tokens, TypeOK, dbVars, targetVars
<1> QED
  BY <1>1, <1>2, <1>3, <1>4, <1>5, <1>6, <1>7, <1>8, <1>11, <1>13, <1>14,
     <1>15, <1>17, <1>18 DEF Next

\* Every reachable state of the kernel is well typed.
THEOREM TypeCorrect == Spec => []TypeOK
  BY InitTypeOK, StepTypeOK, PTL DEF Spec
-----------------------------------------------------------------------------
(* Each conjunct of the invariant, action by action. *)

\* No step disturbs the shape of the rows before approval.
LEMMA RowsStep == TypeOK /\ RowsWellFormed /\ [Next]_vars => RowsWellFormed'
<1> SUFFICES ASSUME TypeOK, RowsWellFormed, [Next]_vars PROVE RowsWellFormed'
  OBVIOUS
<1> USE ConstantsAssumption DEF TypeOK, RowsWellFormed, NoToken, RowToken,
      States, Tokens
<1>1. CASE UNCHANGED vars
  BY <1>1 DEF vars, dbVars, targetVars
<1>2. ASSUME NEW k \in Keys, NEW o \in Operations, Propose(k, o)
      PROVE RowsWellFormed'
  BY <1>2 DEF Propose, SetState, targetVars
<1>3. ASSUME NEW b \in Brokers, NEW k \in Keys, Prepare(b, k)
      PROVE RowsWellFormed'
  BY <1>3 DEF Prepare, TakeFence, SetState, targetVars
<1>4. ASSUME NEW b \in Brokers, NEW k \in Keys, AcquireFence(b, k)
      PROVE RowsWellFormed'
  BY <1>4 DEF AcquireFence, TakeFence, targetVars
<1>5. ASSUME NEW b \in Brokers, NEW k \in Keys, ReadToken(b, k)
      PROVE RowsWellFormed'
  BY <1>5 DEF ReadToken, dbVars, targetVars
<1>6. ASSUME NEW b \in Brokers, NEW k \in Keys, ApproveByPolicy(b, k)
      PROVE RowsWellFormed'
  BY <1>6 DEF ApproveByPolicy, SetState, targetVars
<1>7. ASSUME NEW b \in Brokers, NEW k \in Keys, NEW g \in GrantIds,
      ApproveByGrant(b, k, g) PROVE RowsWellFormed'
  BY <1>7 DEF ApproveByGrant, GrantVerifies, SetState, targetVars
<1>8. ASSUME NEW b \in Brokers, NEW k \in Keys, Abort(b, k)
      PROVE RowsWellFormed'
  BY <1>8 DEF Abort, SetState, targetVars
<1>9. ASSUME NEW b \in Brokers, NEW k \in Keys, CommitReconciled(b, k)
      PROVE RowsWellFormed'
  BY <1>9 DEF CommitReconciled, CommitAllowed, AlreadyApplied, Settle,
     SetState, targetVars
<1>10. ASSUME NEW b \in Brokers, NEW k \in Keys, CommitReplayed(b, k)
      PROVE RowsWellFormed'
  BY <1>10 DEF CommitReplayed, Executes, CommitAllowed, AlreadyApplied,
     TargetAcceptsFence, Settle, SetState
<1>11. ASSUME NEW b \in Brokers, NEW k \in Keys, CommitApplied(b, k)
      PROVE RowsWellFormed'
  BY <1>11 DEF CommitApplied, Executes, PhysicallyApply, CommitAllowed,
     AlreadyApplied, TargetAcceptsFence, Settle, SetState
<1>12. ASSUME NEW b \in Brokers, NEW k \in Keys, CommitAmbiguous(b, k)
      PROVE RowsWellFormed'
  BY <1>12 DEF CommitAmbiguous, Executes, PhysicallyApply, CommitAllowed,
     AlreadyApplied, TargetAcceptsFence, Settle, SetState
<1>13. ASSUME NEW b \in Brokers, NEW k \in Keys, CommitCrashed(b, k)
      PROVE RowsWellFormed'
  <2>1. RollsBack(b)
    BY <1>13 DEF CommitCrashed
  <2> QED
    BY <1>13, <2>1, RollsBackTokens DEF CommitCrashed, Executes,
       PhysicallyApply, CommitAllowed, AlreadyApplied, TargetAcceptsFence
<1>14. ASSUME NEW b \in Brokers, NEW k \in Keys, Compensate(b, k)
      PROVE RowsWellFormed'
  BY <1>14 DEF Compensate, Compensates, PhysicallyUndo, TargetAcceptsFence,
     Settle, SetState
<1>18. ASSUME NEW b \in Brokers, NEW k \in Keys, CompensateCrashed(b, k)
      PROVE RowsWellFormed'
  <2>1. RollsBack(b)
    BY <1>18 DEF CompensateCrashed
  <2> QED
    BY <1>18, <2>1, RollsBackTokens DEF CompensateCrashed, Compensates,
       PhysicallyUndo, TargetAcceptsFence
<1>15. ASSUME NEW g \in GrantIds, NEW k \in Keys, NEW exact \in BOOLEAN,
      NEW ttl \in TTLs, Issue(g, k, exact, ttl) PROVE RowsWellFormed'
  BY <1>15 DEF Issue, NotIssued, dbVars, targetVars
<1>16. CASE Tick
  BY <1>16 DEF Tick, dbVars, targetVars
<1>17. ASSUME NEW b \in Brokers, Restart(b) PROVE RowsWellFormed'
  BY <1>17 DEF Restart, dbVars, targetVars
<1> HIDE DEF TypeOK, RowsWellFormed
<1> QED
  BY <1>1, <1>2, <1>3, <1>4, <1>5, <1>6, <1>7, <1>8, <1>9, <1>10, <1>11,
     <1>12, <1>13, <1>14, <1>15, <1>16, <1>17, <1>18
  DEF Next, Commit, CommitReturns

\* No step makes a row and the target disagree about an application.
LEMMA TargetStep == TypeOK /\ RowsWellFormed /\ TargetHoldsTheIntent
      /\ [Next]_vars => TargetHoldsTheIntent'
<1> SUFFICES ASSUME TypeOK, RowsWellFormed, TargetHoldsTheIntent,
      [Next]_vars PROVE TargetHoldsTheIntent'
  OBVIOUS
<1> USE ConstantsAssumption DEF TypeOK, RowsWellFormed, TargetHoldsTheIntent,
      WasApplied, States
<1>1. CASE UNCHANGED vars
  BY <1>1 DEF vars, dbVars, targetVars
<1>2. ASSUME NEW k \in Keys, NEW o \in Operations, Propose(k, o)
      PROVE TargetHoldsTheIntent'
  BY <1>2 DEF Propose, SetState, targetVars
<1>3. ASSUME NEW b \in Brokers, NEW k \in Keys, Prepare(b, k)
      PROVE TargetHoldsTheIntent'
  BY <1>3 DEF Prepare, TakeFence, SetState, targetVars
<1>4. ASSUME NEW b \in Brokers, NEW k \in Keys, AcquireFence(b, k)
      PROVE TargetHoldsTheIntent'
  BY <1>4 DEF AcquireFence, TakeFence, targetVars
<1>5. ASSUME NEW b \in Brokers, NEW k \in Keys, ReadToken(b, k)
      PROVE TargetHoldsTheIntent'
  BY <1>5 DEF ReadToken, dbVars, targetVars
<1>6. ASSUME NEW b \in Brokers, NEW k \in Keys, ApproveByPolicy(b, k)
      PROVE TargetHoldsTheIntent'
  BY <1>6 DEF ApproveByPolicy, SetState, targetVars
<1>7. ASSUME NEW b \in Brokers, NEW k \in Keys, NEW g \in GrantIds,
      ApproveByGrant(b, k, g) PROVE TargetHoldsTheIntent'
  BY <1>7 DEF ApproveByGrant, GrantVerifies, SetState, targetVars
<1>8. ASSUME NEW b \in Brokers, NEW k \in Keys, Abort(b, k)
      PROVE TargetHoldsTheIntent'
  BY <1>8 DEF Abort, SetState, targetVars
<1>9. ASSUME NEW b \in Brokers, NEW k \in Keys, CommitReconciled(b, k)
      PROVE TargetHoldsTheIntent'
  BY <1>9 DEF CommitReconciled, CommitAllowed, AlreadyApplied, Settle,
     SetState, targetVars
<1>10. ASSUME NEW b \in Brokers, NEW k \in Keys, CommitReplayed(b, k)
      PROVE TargetHoldsTheIntent'
  BY <1>10 DEF CommitReplayed, Executes, CommitAllowed, AlreadyApplied,
     TargetAcceptsFence, Settle, SetState
<1>11. ASSUME NEW b \in Brokers, NEW k \in Keys, CommitApplied(b, k)
      PROVE TargetHoldsTheIntent'
  BY <1>11 DEF CommitApplied, Executes, PhysicallyApply, CommitAllowed,
     AlreadyApplied, TargetAcceptsFence, Settle, SetState
<1>12. ASSUME NEW b \in Brokers, NEW k \in Keys, CommitAmbiguous(b, k)
      PROVE TargetHoldsTheIntent'
  BY <1>12 DEF CommitAmbiguous, Executes, PhysicallyApply, CommitAllowed,
     AlreadyApplied, TargetAcceptsFence, Settle, SetState
<1>13. ASSUME NEW b \in Brokers, NEW k \in Keys, CommitCrashed(b, k)
      PROVE TargetHoldsTheIntent'
  BY <1>13 DEF CommitCrashed, RollsBack, Executes, PhysicallyApply,
     CommitAllowed, AlreadyApplied, TargetAcceptsFence, dbVars
<1>14. ASSUME NEW b \in Brokers, NEW k \in Keys, Compensate(b, k)
      PROVE TargetHoldsTheIntent'
  BY <1>14 DEF Compensate, Compensates, PhysicallyUndo, TargetAcceptsFence,
     Settle, SetState
<1>18. ASSUME NEW b \in Brokers, NEW k \in Keys, CompensateCrashed(b, k)
      PROVE TargetHoldsTheIntent'
  BY <1>18 DEF CompensateCrashed, Compensates, PhysicallyUndo, RollsBack,
     TargetAcceptsFence, dbVars
<1>15. ASSUME NEW g \in GrantIds, NEW k \in Keys, NEW exact \in BOOLEAN,
      NEW ttl \in TTLs, Issue(g, k, exact, ttl) PROVE TargetHoldsTheIntent'
  BY <1>15 DEF Issue, NotIssued, dbVars, targetVars
<1>16. CASE Tick
  BY <1>16 DEF Tick, dbVars, targetVars
<1>17. ASSUME NEW b \in Brokers, Restart(b) PROVE TargetHoldsTheIntent'
  BY <1>17 DEF Restart, dbVars, targetVars
<1> HIDE DEF TypeOK, TargetHoldsTheIntent
<1> QED
  BY <1>1, <1>2, <1>3, <1>4, <1>5, <1>6, <1>7, <1>8, <1>9, <1>10, <1>11,
     <1>12, <1>13, <1>14, <1>15, <1>16, <1>17, <1>18
  DEF Next, Commit, CommitReturns

\* No step applies or compensates an effect a second time.
LEMMA OnceStep == TypeOK /\ RowsWellFormed /\ TargetHoldsTheIntent
      /\ PhysicalAtMostOnce /\ [Next]_vars => PhysicalAtMostOnce'
<1> SUFFICES ASSUME TypeOK, RowsWellFormed, TargetHoldsTheIntent,
      PhysicalAtMostOnce, [Next]_vars PROVE PhysicalAtMostOnce'
  OBVIOUS
<1> USE ConstantsAssumption DEF TypeOK, RowsWellFormed, TargetHoldsTheIntent,
      PhysicalAtMostOnce, WasApplied, Reversible, States
<1>1. CASE UNCHANGED vars
  BY <1>1 DEF vars, dbVars, targetVars
<1>2. ASSUME NEW k \in Keys, NEW o \in Operations, Propose(k, o)
      PROVE PhysicalAtMostOnce'
  BY <1>2 DEF Propose, SetState, targetVars
<1>3. ASSUME NEW b \in Brokers, NEW k \in Keys, Prepare(b, k)
      PROVE PhysicalAtMostOnce'
  BY <1>3 DEF Prepare, TakeFence, SetState, targetVars
<1>4. ASSUME NEW b \in Brokers, NEW k \in Keys, AcquireFence(b, k)
      PROVE PhysicalAtMostOnce'
  BY <1>4 DEF AcquireFence, TakeFence, targetVars
<1>5. ASSUME NEW b \in Brokers, NEW k \in Keys, ReadToken(b, k)
      PROVE PhysicalAtMostOnce'
  BY <1>5 DEF ReadToken, dbVars, targetVars
<1>6. ASSUME NEW b \in Brokers, NEW k \in Keys, ApproveByPolicy(b, k)
      PROVE PhysicalAtMostOnce'
  BY <1>6 DEF ApproveByPolicy, SetState, targetVars
<1>7. ASSUME NEW b \in Brokers, NEW k \in Keys, NEW g \in GrantIds,
      ApproveByGrant(b, k, g) PROVE PhysicalAtMostOnce'
  BY <1>7 DEF ApproveByGrant, GrantVerifies, SetState, targetVars
<1>8. ASSUME NEW b \in Brokers, NEW k \in Keys, Abort(b, k)
      PROVE PhysicalAtMostOnce'
  BY <1>8 DEF Abort, SetState, targetVars
<1>9. ASSUME NEW b \in Brokers, NEW k \in Keys, CommitReconciled(b, k)
      PROVE PhysicalAtMostOnce'
  BY <1>9 DEF CommitReconciled, CommitAllowed, AlreadyApplied, Settle,
     SetState, targetVars
<1>10. ASSUME NEW b \in Brokers, NEW k \in Keys, CommitReplayed(b, k)
      PROVE PhysicalAtMostOnce'
  BY <1>10 DEF CommitReplayed, Executes, CommitAllowed, AlreadyApplied,
     TargetAcceptsFence, Settle, SetState
<1>11. ASSUME NEW b \in Brokers, NEW k \in Keys, CommitApplied(b, k)
      PROVE PhysicalAtMostOnce'
  BY <1>11 DEF CommitApplied, Executes, PhysicallyApply, CommitAllowed,
     AlreadyApplied, TargetAcceptsFence, Settle, SetState
<1>12. ASSUME NEW b \in Brokers, NEW k \in Keys, CommitAmbiguous(b, k)
      PROVE PhysicalAtMostOnce'
  BY <1>12 DEF CommitAmbiguous, Executes, PhysicallyApply, CommitAllowed,
     AlreadyApplied, TargetAcceptsFence, Settle, SetState
<1>13. ASSUME NEW b \in Brokers, NEW k \in Keys, CommitCrashed(b, k)
      PROVE PhysicalAtMostOnce'
  BY <1>13 DEF CommitCrashed, RollsBack, Executes, PhysicallyApply,
     CommitAllowed, AlreadyApplied, TargetAcceptsFence, dbVars
<1>14. ASSUME NEW b \in Brokers, NEW k \in Keys, Compensate(b, k)
      PROVE PhysicalAtMostOnce'
  BY <1>14 DEF Compensate, Compensates, PhysicallyUndo, TargetAcceptsFence,
     Settle, SetState
<1>18. ASSUME NEW b \in Brokers, NEW k \in Keys, CompensateCrashed(b, k)
      PROVE PhysicalAtMostOnce'
  BY <1>18 DEF CompensateCrashed, Compensates, PhysicallyUndo, RollsBack,
     TargetAcceptsFence, dbVars
<1>15. ASSUME NEW g \in GrantIds, NEW k \in Keys, NEW exact \in BOOLEAN,
      NEW ttl \in TTLs, Issue(g, k, exact, ttl) PROVE PhysicalAtMostOnce'
  BY <1>15 DEF Issue, NotIssued, dbVars, targetVars
<1>16. CASE Tick
  BY <1>16 DEF Tick, dbVars, targetVars
<1>17. ASSUME NEW b \in Brokers, Restart(b) PROVE PhysicalAtMostOnce'
  BY <1>17 DEF Restart, dbVars, targetVars
<1> HIDE DEF TypeOK, PhysicalAtMostOnce
<1> QED
  BY <1>1, <1>2, <1>3, <1>4, <1>5, <1>6, <1>7, <1>8, <1>9, <1>10, <1>11,
     <1>12, <1>13, <1>14, <1>15, <1>16, <1>17, <1>18
  DEF Next, Commit, CommitReturns

\* No step spends a grant twice, or for another intent.
LEMMA GrantsStep == TypeOK /\ RowsWellFormed /\ GrantsBindOneIntent
      /\ [Next]_vars => GrantsBindOneIntent'
<1> SUFFICES ASSUME TypeOK, RowsWellFormed, GrantsBindOneIntent,
      [Next]_vars PROVE GrantsBindOneIntent'
  OBVIOUS
<1> USE ConstantsAssumption DEF TypeOK, RowsWellFormed, GrantsBindOneIntent,
      Irreversible, NotIssued, States
<1>1. CASE UNCHANGED vars
  BY <1>1 DEF vars, dbVars, targetVars
<1>2. ASSUME NEW k \in Keys, NEW o \in Operations, Propose(k, o)
      PROVE GrantsBindOneIntent'
  BY <1>2 DEF Propose, SetState, targetVars
<1>3. ASSUME NEW b \in Brokers, NEW k \in Keys, Prepare(b, k)
      PROVE GrantsBindOneIntent'
  BY <1>3 DEF Prepare, TakeFence, SetState, targetVars
<1>4. ASSUME NEW b \in Brokers, NEW k \in Keys, AcquireFence(b, k)
      PROVE GrantsBindOneIntent'
  BY <1>4 DEF AcquireFence, TakeFence, targetVars
<1>5. ASSUME NEW b \in Brokers, NEW k \in Keys, ReadToken(b, k)
      PROVE GrantsBindOneIntent'
  BY <1>5 DEF ReadToken, dbVars, targetVars
<1>6. ASSUME NEW b \in Brokers, NEW k \in Keys, ApproveByPolicy(b, k)
      PROVE GrantsBindOneIntent'
  BY <1>6 DEF ApproveByPolicy, SetState, targetVars
<1>7. ASSUME NEW b \in Brokers, NEW k \in Keys, NEW g \in GrantIds,
      ApproveByGrant(b, k, g) PROVE GrantsBindOneIntent'
  BY <1>7 DEF ApproveByGrant, GrantVerifies, SetState, targetVars
<1>8. ASSUME NEW b \in Brokers, NEW k \in Keys, Abort(b, k)
      PROVE GrantsBindOneIntent'
  BY <1>8 DEF Abort, SetState, targetVars
<1>9. ASSUME NEW b \in Brokers, NEW k \in Keys, CommitReconciled(b, k)
      PROVE GrantsBindOneIntent'
  BY <1>9 DEF CommitReconciled, CommitAllowed, AlreadyApplied, Settle,
     SetState, targetVars
<1>10. ASSUME NEW b \in Brokers, NEW k \in Keys, CommitReplayed(b, k)
      PROVE GrantsBindOneIntent'
  BY <1>10 DEF CommitReplayed, Executes, CommitAllowed, AlreadyApplied,
     TargetAcceptsFence, Settle, SetState
<1>11. ASSUME NEW b \in Brokers, NEW k \in Keys, CommitApplied(b, k)
      PROVE GrantsBindOneIntent'
  BY <1>11 DEF CommitApplied, Executes, PhysicallyApply, CommitAllowed,
     AlreadyApplied, TargetAcceptsFence, Settle, SetState
<1>12. ASSUME NEW b \in Brokers, NEW k \in Keys, CommitAmbiguous(b, k)
      PROVE GrantsBindOneIntent'
  BY <1>12 DEF CommitAmbiguous, Executes, PhysicallyApply, CommitAllowed,
     AlreadyApplied, TargetAcceptsFence, Settle, SetState
<1>13. ASSUME NEW b \in Brokers, NEW k \in Keys, CommitCrashed(b, k)
      PROVE GrantsBindOneIntent'
  BY <1>13 DEF CommitCrashed, RollsBack, Executes, PhysicallyApply,
     CommitAllowed, AlreadyApplied, TargetAcceptsFence, dbVars
<1>14. ASSUME NEW b \in Brokers, NEW k \in Keys, Compensate(b, k)
      PROVE GrantsBindOneIntent'
  BY <1>14 DEF Compensate, Compensates, PhysicallyUndo, TargetAcceptsFence,
     Settle, SetState
<1>18. ASSUME NEW b \in Brokers, NEW k \in Keys, CompensateCrashed(b, k)
      PROVE GrantsBindOneIntent'
  BY <1>18 DEF CompensateCrashed, Compensates, PhysicallyUndo, RollsBack,
     TargetAcceptsFence, dbVars
<1>15. ASSUME NEW g \in GrantIds, NEW k \in Keys, NEW exact \in BOOLEAN,
      NEW ttl \in TTLs, Issue(g, k, exact, ttl) PROVE GrantsBindOneIntent'
  BY <1>15 DEF Issue, dbVars, targetVars
<1>16. CASE Tick
  BY <1>16 DEF Tick, dbVars, targetVars
<1>17. ASSUME NEW b \in Brokers, Restart(b) PROVE GrantsBindOneIntent'
  BY <1>17 DEF Restart, dbVars, targetVars
<1> HIDE DEF TypeOK, GrantsBindOneIntent
<1> QED
  BY <1>1, <1>2, <1>3, <1>4, <1>5, <1>6, <1>7, <1>8, <1>9, <1>10, <1>11,
     <1>12, <1>13, <1>14, <1>15, <1>16, <1>17, <1>18
  DEF Next, Commit, CommitReturns

\* No step brings an ungranted irreversible operation to the target.
LEMMA GrantedStep == TypeOK /\ RowsWellFormed /\ TargetHoldsTheIntent
      /\ IrreversibleIsGranted /\ [Next]_vars => IrreversibleIsGranted'
<1> SUFFICES ASSUME TypeOK, RowsWellFormed, TargetHoldsTheIntent,
      IrreversibleIsGranted, [Next]_vars PROVE IrreversibleIsGranted'
  OBVIOUS
<1> USE ConstantsAssumption DEF TypeOK, RowsWellFormed, TargetHoldsTheIntent,
      IrreversibleIsGranted, Irreversible, WasApplied, States
<1>1. CASE UNCHANGED vars
  BY <1>1 DEF vars, dbVars, targetVars
<1>2. ASSUME NEW k \in Keys, NEW o \in Operations, Propose(k, o)
      PROVE IrreversibleIsGranted'
  BY <1>2 DEF Propose, SetState, targetVars
<1>3. ASSUME NEW b \in Brokers, NEW k \in Keys, Prepare(b, k)
      PROVE IrreversibleIsGranted'
  BY <1>3 DEF Prepare, TakeFence, SetState, targetVars
<1>4. ASSUME NEW b \in Brokers, NEW k \in Keys, AcquireFence(b, k)
      PROVE IrreversibleIsGranted'
  BY <1>4 DEF AcquireFence, TakeFence, targetVars
<1>5. ASSUME NEW b \in Brokers, NEW k \in Keys, ReadToken(b, k)
      PROVE IrreversibleIsGranted'
  BY <1>5 DEF ReadToken, dbVars, targetVars
<1>6. ASSUME NEW b \in Brokers, NEW k \in Keys, ApproveByPolicy(b, k)
      PROVE IrreversibleIsGranted'
  BY <1>6 DEF ApproveByPolicy, SetState, targetVars
<1>7. ASSUME NEW b \in Brokers, NEW k \in Keys, NEW g \in GrantIds,
      ApproveByGrant(b, k, g) PROVE IrreversibleIsGranted'
  BY <1>7 DEF ApproveByGrant, GrantVerifies, SetState, targetVars
<1>8. ASSUME NEW b \in Brokers, NEW k \in Keys, Abort(b, k)
      PROVE IrreversibleIsGranted'
  BY <1>8 DEF Abort, SetState, targetVars
<1>9. ASSUME NEW b \in Brokers, NEW k \in Keys, CommitReconciled(b, k)
      PROVE IrreversibleIsGranted'
  BY <1>9 DEF CommitReconciled, CommitAllowed, AlreadyApplied, Settle,
     SetState, targetVars
<1>10. ASSUME NEW b \in Brokers, NEW k \in Keys, CommitReplayed(b, k)
      PROVE IrreversibleIsGranted'
  BY <1>10 DEF CommitReplayed, Executes, CommitAllowed, AlreadyApplied,
     TargetAcceptsFence, Settle, SetState
<1>11. ASSUME NEW b \in Brokers, NEW k \in Keys, CommitApplied(b, k)
      PROVE IrreversibleIsGranted'
  BY <1>11 DEF CommitApplied, Executes, PhysicallyApply, CommitAllowed,
     AlreadyApplied, TargetAcceptsFence, Settle, SetState
<1>12. ASSUME NEW b \in Brokers, NEW k \in Keys, CommitAmbiguous(b, k)
      PROVE IrreversibleIsGranted'
  BY <1>12 DEF CommitAmbiguous, Executes, PhysicallyApply, CommitAllowed,
     AlreadyApplied, TargetAcceptsFence, Settle, SetState
<1>13. ASSUME NEW b \in Brokers, NEW k \in Keys, CommitCrashed(b, k)
      PROVE IrreversibleIsGranted'
  BY <1>13 DEF CommitCrashed, RollsBack, Executes, PhysicallyApply,
     CommitAllowed, AlreadyApplied, TargetAcceptsFence, dbVars
<1>14. ASSUME NEW b \in Brokers, NEW k \in Keys, Compensate(b, k)
      PROVE IrreversibleIsGranted'
  BY <1>14 DEF Compensate, Compensates, PhysicallyUndo, TargetAcceptsFence,
     Settle, SetState
<1>18. ASSUME NEW b \in Brokers, NEW k \in Keys, CompensateCrashed(b, k)
      PROVE IrreversibleIsGranted'
  BY <1>18 DEF CompensateCrashed, Compensates, PhysicallyUndo, RollsBack,
     TargetAcceptsFence, dbVars
<1>15. ASSUME NEW g \in GrantIds, NEW k \in Keys, NEW exact \in BOOLEAN,
      NEW ttl \in TTLs, Issue(g, k, exact, ttl) PROVE IrreversibleIsGranted'
  BY <1>15 DEF Issue, NotIssued, dbVars, targetVars
<1>16. CASE Tick
  BY <1>16 DEF Tick, dbVars, targetVars
<1>17. ASSUME NEW b \in Brokers, Restart(b) PROVE IrreversibleIsGranted'
  BY <1>17 DEF Restart, dbVars, targetVars
<1> HIDE DEF TypeOK, IrreversibleIsGranted
<1> QED
  BY <1>1, <1>2, <1>3, <1>4, <1>5, <1>6, <1>7, <1>8, <1>9, <1>10, <1>11,
     <1>12, <1>13, <1>14, <1>15, <1>16, <1>17, <1>18
  DEF Next, Commit, CommitReturns

\* A new fence is above every token and above what the target has seen.
LEMMA TakeFenceAgrees ==
  ASSUME TypeOK, FencesAgree, NEW b \in Brokers, NEW k \in Keys,
         TakeFence(b, k), highest' = highest
  PROVE  FencesAgree'
<1> DEFINE new == [version |-> fence[k] + 1, owner |-> b]
<1>1. /\ fence' = [fence EXCEPT ![k] = @ + 1]
      /\ owner' = [owner EXCEPT ![k] = b]
      /\ token' = [token EXCEPT ![b][k] = new]
  BY DEF TakeFence, TypeOK
<1>2. \A c \in Brokers, j \in Keys :
        token'[c][j] = IF c = b /\ j = k THEN new ELSE token[c][j]
  BY <1>1 DEF TypeOK
<1>3. \A j \in Keys : /\ fence'[j] = IF j = k THEN fence[k] + 1 ELSE fence[j]
                      /\ owner'[j] = IF j = k THEN b ELSE owner[j]
  BY <1>1 DEF TypeOK
<1>4. \A j \in Keys : /\ fence[j] \in Nat /\ highest[j] \in Nat
                      /\ highest[j] <= fence[j]
  BY DEF TypeOK, FencesAgree
<1>5. \A j \in Keys, c \in Brokers :
        /\ token[c][j].version \in Nat
        /\ token[c][j].version <= fence[j]
        /\ token[c][j].version = fence[j] /\ fence[j] > 0
             => token[c][j] = [version |-> fence[j], owner |-> owner[j]]
        /\ \A d \in Brokers : token[c][j].version = token[d][j].version
             => token[c][j] = token[d][j]
  BY DEF TypeOK, Tokens, FencesAgree, HoldsFence, RowToken
<1>6. ASSUME NEW j \in Keys PROVE highest'[j] <= fence'[j]
  BY <1>3, <1>4
<1>7. ASSUME NEW j \in Keys, NEW c \in Brokers
      PROVE  /\ token'[c][j].version <= fence'[j]
             /\ token'[c][j].version = fence'[j] /\ fence'[j] > 0
                  => token'[c][j] = [version |-> fence'[j],
                  owner |-> owner'[j]]
             /\ \A d \in Brokers : token'[c][j].version = token'[d][j].version
                  => token'[c][j] = token'[d][j]
  <2>1. CASE j # k
    BY <2>1, <1>2, <1>3, <1>5
  <2>2. CASE j = k
    <3>1. token'[b][k] = new /\ fence'[k] = fence[k] + 1 /\ owner'[k] = b
      BY <1>2, <1>3
    <3>2. ASSUME NEW d \in Brokers, d # b
          PROVE  /\ token'[d][k] = token[d][k]
                 /\ token[d][k].version \in Nat
                 /\ token[d][k].version < fence[k] + 1
      <4>1. token'[d][k] = token[d][k]
        BY <3>2, <1>2
      <4>2. token[d][k].version \in Nat /\ token[d][k].version <= fence[k]
        BY <1>5
      <4>3. fence[k] \in Nat
        BY <1>4
      <4> QED
        BY <4>1, <4>2, <4>3
    <3>3. new.version = fence[k] + 1
      OBVIOUS
    <3>4. fence[k] \in Nat
      BY <1>4
    <3> HIDE DEF new
    <3>5. CASE c = b
      BY <3>1, <3>2, <3>3, <3>4, <3>5, <2>2 DEF new
    <3>6. CASE c # b
      <4>1. /\ token'[c][k] = token[c][k]
            /\ token[c][k].version \in Nat
            /\ token[c][k].version < fence[k] + 1
        BY <3>2, <3>6
      <4>2. ASSUME NEW d \in Brokers,
            token'[c][k].version = token'[d][k].version
            PROVE  token'[c][k] = token'[d][k]
        <5>1. d # b
          BY <4>1, <4>2, <3>1, <3>3, <3>4
        <5>2. token'[d][k] = token[d][k]
          BY <3>2, <5>1
        <5>3. token[c][k].version = token[d][k].version
          BY <4>1, <4>2, <5>2
        <5>4. token[c][k] = token[d][k]
          BY <5>3, <1>5
        <5> QED
          BY <4>1, <5>2, <5>4
      <4> QED
        BY <4>1, <4>2, <3>1, <3>4, <2>2
    <3> QED
      BY <3>5, <3>6
  <2> QED
    BY <2>1, <2>2
<1> QED
  BY <1>6, <1>7 DEF FencesAgree, HoldsFence, RowToken

\* The target has seen the row's fence, and only tokens are lost.
LEMMA RollsBackFences ==
  ASSUME TypeOK, RowsWellFormed, FencesAgree, NEW b \in Brokers, NEW k \in Keys,
         RollsBack(b), HoldsFence(b, k), TargetAcceptsFence(b, k)
  PROVE  FencesAgree'
<1> USE DEF NoToken, RowToken, HoldsFence
<1>1. fence' = fence /\ owner' = owner
  BY RollsBackTokens
<1>2. \A c \in Brokers, j \in Keys :
        token'[c][j] = token[c][j] \/ token'[c][j] = NoToken
  BY RollsBackTokens
<1> SUFFICES ASSUME NEW j \in Keys
             PROVE  /\ highest'[j] <= fence[j]
                    /\ \A c \in Brokers :
                         /\ token'[c][j].version <= fence[j]
                         /\ token'[c][j].version = fence[j] /\ fence[j] > 0
                              => token'[c][j] = RowToken(j)
                         /\ \A d \in Brokers :
                              token'[c][j].version = token'[d][j].version
                                => token'[c][j] = token'[d][j]
  BY <1>1 DEF FencesAgree
<1>3. /\ highest[j] <= fence[j] /\ fence[j] \in Nat
      /\ token[b][k].version = fence[k]
      /\ highest' = [highest EXCEPT ![k] = token[b][k].version]
  <2>1. highest[j] <= fence[j]
    BY DEF FencesAgree
  <2>2. fence[j] \in Nat
    BY DEF TypeOK
  <2>3. token[b][k].version = fence[k]
    OBVIOUS
  <2> QED
    BY <2>1, <2>2, <2>3 DEF TargetAcceptsFence
<1>4. highest'[j] <= fence[j]
  BY <1>3 DEF TypeOK
<1>5. ASSUME NEW c \in Brokers
      PROVE  /\ token'[c][j].version <= fence[j]
             /\ token'[c][j].version = fence[j] /\ fence[j] > 0
                  => token'[c][j] = RowToken(j)
  BY <1>2, <1>3, <1>5 DEF FencesAgree
<1>6. ASSUME NEW c \in Brokers, NEW d \in Brokers,
             token'[c][j].version = token'[d][j].version
      PROVE  token'[c][j] = token'[d][j]
  <2>1. \A e \in Brokers : token[e][j].version = 0 => token[e][j] = NoToken
    BY DEF RowsWellFormed
  <2>2. token[c][j].version = token[d][j].version => token[c][j] = token[d][j]
    BY DEF FencesAgree
  <2>3. NoToken.version = 0
    OBVIOUS
  <2>4. CASE token'[c][j] = NoToken \/ token'[d][j] = NoToken
    BY <1>2, <1>6, <2>1, <2>3, <2>4
  <2>5. CASE token'[c][j] = token[c][j] /\ token'[d][j] = token[d][j]
    BY <1>6, <2>2, <2>5
  <2> QED
    BY <1>2, <2>4, <2>5
<1> QED
  BY <1>4, <1>5, <1>6

\* No step lets a token or the target get ahead of the row's fence.
LEMMA FencesStep == TypeOK /\ RowsWellFormed /\ FencesAgree /\ [Next]_vars
      => FencesAgree'
<1> SUFFICES ASSUME TypeOK, RowsWellFormed, FencesAgree, [Next]_vars
      PROVE FencesAgree'
  OBVIOUS
<1> USE ConstantsAssumption DEF TypeOK, RowsWellFormed, FencesAgree,
      HoldsFence, RowToken, NoToken, Tokens
<1>1. CASE UNCHANGED vars
  BY <1>1 DEF vars, dbVars, targetVars
<1>2. ASSUME NEW k \in Keys, NEW o \in Operations, Propose(k, o)
      PROVE FencesAgree'
  BY <1>2 DEF Propose, SetState, targetVars
<1>3. ASSUME NEW b \in Brokers, NEW k \in Keys, Prepare(b, k)
      PROVE FencesAgree'
  BY <1>3, TakeFenceAgrees DEF Prepare, targetVars
<1>4. ASSUME NEW b \in Brokers, NEW k \in Keys, AcquireFence(b, k)
      PROVE FencesAgree'
  BY <1>4, TakeFenceAgrees DEF AcquireFence, targetVars
<1>5. ASSUME NEW b \in Brokers, NEW k \in Keys, ReadToken(b, k)
      PROVE FencesAgree'
  BY <1>5 DEF ReadToken, dbVars, targetVars
<1>6. ASSUME NEW b \in Brokers, NEW k \in Keys, ApproveByPolicy(b, k)
      PROVE FencesAgree'
  BY <1>6 DEF ApproveByPolicy, SetState, targetVars
<1>7. ASSUME NEW b \in Brokers, NEW k \in Keys, NEW g \in GrantIds,
      ApproveByGrant(b, k, g) PROVE FencesAgree'
  BY <1>7 DEF ApproveByGrant, GrantVerifies, SetState, targetVars
<1>8. ASSUME NEW b \in Brokers, NEW k \in Keys, Abort(b, k) PROVE FencesAgree'
  BY <1>8 DEF Abort, SetState, targetVars
<1>9. ASSUME NEW b \in Brokers, NEW k \in Keys, CommitReconciled(b, k)
      PROVE FencesAgree'
  BY <1>9 DEF CommitReconciled, CommitAllowed, AlreadyApplied, Settle,
     SetState, targetVars
<1>10. ASSUME NEW b \in Brokers, NEW k \in Keys, CommitReplayed(b, k)
      PROVE FencesAgree'
  BY <1>10 DEF CommitReplayed, Executes, CommitAllowed, AlreadyApplied,
     TargetAcceptsFence, Settle, SetState
<1>11. ASSUME NEW b \in Brokers, NEW k \in Keys, CommitApplied(b, k)
      PROVE FencesAgree'
  BY <1>11 DEF CommitApplied, Executes, PhysicallyApply, CommitAllowed,
     AlreadyApplied, TargetAcceptsFence, Settle, SetState
<1>12. ASSUME NEW b \in Brokers, NEW k \in Keys, CommitAmbiguous(b, k)
      PROVE FencesAgree'
  BY <1>12 DEF CommitAmbiguous, Executes, PhysicallyApply, CommitAllowed,
     AlreadyApplied, TargetAcceptsFence, Settle, SetState
<1>13. ASSUME NEW b \in Brokers, NEW k \in Keys, CommitCrashed(b, k)
      PROVE FencesAgree'
  BY <1>13, RollsBackFences DEF CommitCrashed, Executes, CommitAllowed
<1>14. ASSUME NEW b \in Brokers, NEW k \in Keys, Compensate(b, k)
      PROVE FencesAgree'
  BY <1>14 DEF Compensate, Compensates, PhysicallyUndo, TargetAcceptsFence,
     Settle, SetState
<1>18. ASSUME NEW b \in Brokers, NEW k \in Keys, CompensateCrashed(b, k)
      PROVE FencesAgree'
  BY <1>18, RollsBackFences DEF CompensateCrashed, Compensates
<1>15. ASSUME NEW g \in GrantIds, NEW k \in Keys, NEW exact \in BOOLEAN,
      NEW ttl \in TTLs, Issue(g, k, exact, ttl) PROVE FencesAgree'
  BY <1>15 DEF Issue, NotIssued, dbVars, targetVars
<1>16. CASE Tick
  BY <1>16 DEF Tick, dbVars, targetVars
<1>17. ASSUME NEW b \in Brokers, Restart(b) PROVE FencesAgree'
  BY <1>17 DEF Restart, dbVars, targetVars
<1> HIDE DEF TypeOK, FencesAgree
<1> QED
  BY <1>1, <1>2, <1>3, <1>4, <1>5, <1>6, <1>7, <1>8, <1>9, <1>10, <1>11,
     <1>12, <1>13, <1>14, <1>15, <1>16, <1>17, <1>18
  DEF Next, Commit, CommitReturns

-----------------------------------------------------------------------------
(* The safety theorems. *)

\* The initial state satisfies the inductive invariant.
LEMMA InitIInv == Init => IInv
<1> SUFFICES ASSUME Init PROVE IInv
  OBVIOUS
<1>1. TypeOK
  BY InitTypeOK
<1>2. RowsWellFormed /\ TargetHoldsTheIntent /\ PhysicalAtMostOnce
  BY DEF Init, RowsWellFormed, TargetHoldsTheIntent, PhysicalAtMostOnce
<1>3. GrantsBindOneIntent /\ IrreversibleIsGranted
  BY ConstantsAssumption DEF Init, GrantsBindOneIntent, IrreversibleIsGranted
<1>4. FencesAgree
  <2> SUFFICES ASSUME NEW k \in Keys
               PROVE  /\ highest[k] <= fence[k]
                      /\ \A b \in Brokers :
                           /\ token[b][k].version <= fence[k]
                           /\ token[b][k].version = fence[k] /\ fence[k] > 0
                                => HoldsFence(b, k)
                           /\ \A c \in Brokers :
                                token[b][k].version = token[c][k].version
                                  => token[b][k] = token[c][k]
    BY DEF FencesAgree
  <2>1. highest[k] = 0 /\ fence[k] = 0
    BY DEF Init
  <2>2. \A b \in Brokers : token[b][k] = NoToken
    BY DEF Init
  <2>3. NoToken.version = 0
    BY DEF NoToken
  <2> QED
    BY <2>1, <2>2, <2>3
<1> QED
  BY <1>1, <1>2, <1>3, <1>4 DEF IInv

\* The conjunction of the safety invariants is inductive.
LEMMA StepIInv == IInv /\ [Next]_vars => IInv'
  BY StepTypeOK, RowsStep, TargetStep, OnceStep, GrantsStep, GrantedStep,
     FencesStep DEF IInv

\* The inductive invariant holds in every reachable state.
THEOREM Invariance == Spec => []IInv
  BY InitIInv, StepIInv, PTL DEF Spec

\* The target and the rows never disagree about an application.
THEOREM TargetAgrees == Spec => []TargetHoldsTheIntent
<1>1. IInv => TargetHoldsTheIntent
  BY DEF IInv
<1> QED
  BY <1>1, Invariance, PTL

\* However commits and compensations crash, retry and race, the target applies
\* an effect at most once and undoes it at most once; what it has undone is a
\* reversible effect that was not abandoned, and a row that says so is right.
THEOREM AtMostOnce == Spec => []PhysicalAtMostOnce
<1>1. IInv => PhysicalAtMostOnce
  BY DEF IInv
<1> QED
  BY <1>1, Invariance, PTL

\* The two databases tell one story, of an effect that happened once.
THEOREM OnceAsProposed == Spec => []AppliedOnceAsProposed
<1>1. TargetHoldsTheIntent /\ PhysicalAtMostOnce => AppliedOnceAsProposed
  BY DEF AppliedOnceAsProposed
<1> QED
  BY <1>1, TargetAgrees, AtMostOnce, PTL

\* Grants and irreversible intents are matched one to one.
THEOREM GrantsMatch == Spec => []GrantsBindOneIntent
<1>1. IInv => GrantsBindOneIntent
  BY DEF IInv
<1> QED
  BY <1>1, Invariance, PTL

\* Nothing irreversible reaches the target without a spent grant.
THEOREM NoUngrantedApplication == Spec => []IrreversibleIsGranted
<1>1. IInv => IrreversibleIsGranted
  BY DEF IInv
<1> QED
  BY <1>1, Invariance, PTL

\* Grants and irreversible applications are matched one to one.
THEOREM ApprovalBinds == Spec => []ApprovalIsBinding
<1>1. GrantsBindOneIntent /\ IrreversibleIsGranted => ApprovalIsBinding
  BY DEF ApprovalIsBinding
<1> QED
  BY <1>1, GrantsMatch, NoUngrantedApplication, PTL

\* Fencing is coherent across the rows, the target and every stale token.
THEOREM FencingCoherent == Spec => []FencesAgree
<1>1. IInv => FencesAgree
  BY DEF IInv
<1> QED
  BY <1>1, Invariance, PTL

-----------------------------------------------------------------------------
(* The outbox.  The invariant is inductive once a key without a row is known *)
(* to have no event.                                                         *)

\* An intent that was never proposed has told the outbox nothing.
NoRowNoEvent ==
  \A k \in Keys : state[k] = "absent" => \A i \in DOMAIN outbox : outbox[i].key # k

HistoryInv == NoRowNoEvent /\ OutboxIsTheHistory

\* What may follow an event of an intent: the two disjuncts of the invariant,
\* on the row before and after.
FollowsRow(k, type) ==
  \/ type = "fence_acquired" /\ state'[k] = state[k] /\ fence'[k] = fence[k] + 1
  \/ /\ type = state'[k]
     /\ <<state[k], state'[k]>> \in Lifecycle
     /\ fence'[k] = fence[k] + (IF type = "prepared" THEN 1 ELSE 0)

\* Every method that writes a row ends in Enqueue: if the row moved as the
\* lifecycle allows, the longer outbox is still the history of the rows.
LEMMA EnqueueKeepsHistory ==
  ASSUME TypeOK, HistoryInv, NEW k \in Keys, NEW type,
         Enqueue(k, type), state'[k] # "absent",
         \A j \in Keys \ {k} : state'[j] = state[j] /\ fence'[j] = fence[j],
         state[k] = "absent" \/ FollowsRow(k, type)
  PROVE  HistoryInv'
<1> DEFINE n == Len(outbox)
           e == [key |-> k, type |-> type, state |-> state'[k], fence |-> fence'[k]]
<1>0. outbox \in Seq(Events) /\ n \in Nat /\ DOMAIN outbox = 1 .. n
  BY DEF TypeOK
<1>1. /\ DOMAIN outbox' = 1 .. n + 1
      /\ \A i \in 1 .. n : outbox'[i] = outbox[i]
      /\ outbox'[n + 1] = e
  BY <1>0 DEF Enqueue
<1>2. NoRowNoEvent'
  <2> SUFFICES ASSUME NEW j \in Keys, state'[j] = "absent",
                      NEW i \in DOMAIN outbox'
               PROVE  outbox'[i].key # j
    BY DEF NoRowNoEvent
  <2>1. j # k /\ state[j] = "absent"
    OBVIOUS
  <2>2. CASE i = n + 1
    BY <2>1, <2>2, <1>1
  <2>3. CASE i \in 1 .. n
    BY <2>1, <2>3, <1>0, <1>1 DEF HistoryInv, NoRowNoEvent
  <2> QED
    BY <2>2, <2>3, <1>0, <1>1
<1>3. ASSUME NEW j \in Keys, state'[j] # "absent"
      PROVE  \E i \in DOMAIN outbox' :
               /\ outbox'[i].key = j
               /\ outbox'[i].state = state'[j]
               /\ outbox'[i].fence = fence'[j]
               /\ \A m \in DOMAIN outbox' : m > i => outbox'[m].key # j
  <2>1. CASE j = k
    <3>1. n + 1 \in DOMAIN outbox' /\ \A m \in DOMAIN outbox' : ~(m > n + 1)
      BY <1>0, <1>1
    <3> QED
      BY <2>1, <3>1, <1>1
  <2>2. CASE j # k
    <3>1. PICK i \in 1 .. n :
            /\ outbox[i].key = j
            /\ outbox[i].state = state[j]
            /\ outbox[i].fence = fence[j]
            /\ \A m \in 1 .. n : m > i => outbox[m].key # j
      BY <2>2, <1>0, <1>3 DEF HistoryInv, OutboxIsTheHistory
    <3>2. i \in DOMAIN outbox' /\ outbox'[i] = outbox[i]
      BY <3>1, <1>0, <1>1
    <3>3. ASSUME NEW m \in DOMAIN outbox', m > i
          PROVE  outbox'[m].key # j
      <4>1. CASE m = n + 1
        BY <4>1, <2>2, <1>1
      <4>2. CASE m \in 1 .. n
        BY <4>2, <3>1, <3>3, <1>1
      <4> QED
        BY <4>1, <4>2, <1>0, <1>1
    <3> QED
      BY <3>1, <3>2, <3>3, <2>2
  <2> QED
    BY <2>1, <2>2
<1>4. ASSUME NEW i \in DOMAIN outbox', NEW j \in DOMAIN outbox', Successive(i, j)'
      PROVE  \/ /\ outbox'[j].type = "fence_acquired"
                /\ outbox'[j].state = outbox'[i].state
                /\ outbox'[j].fence = outbox'[i].fence + 1
             \/ /\ outbox'[j].type = outbox'[j].state
                /\ <<outbox'[i].state, outbox'[j].state>> \in Lifecycle
                /\ outbox'[j].fence = outbox'[i].fence
                     + (IF outbox'[j].type = "prepared" THEN 1 ELSE 0)
  <2>1. /\ i \in 1 .. n /\ i < j
        /\ outbox'[i].key = outbox'[j].key
        /\ \A m \in i + 1 .. j - 1 : outbox'[m].key # outbox'[i].key
    BY <1>0, <1>1, <1>4 DEF Successive
  <2>2. CASE j \in 1 .. n
    <3>1. Successive(i, j)
      BY <2>1, <2>2, <1>0, <1>1 DEF Successive
    <3> QED
      BY <3>1, <2>1, <2>2, <1>0, <1>1 DEF HistoryInv, OutboxIsTheHistory
  <2>3. CASE j = n + 1
    <3>1. outbox[i].key = k /\ \A m \in i + 1 .. n : outbox[m].key # k
      BY <2>1, <2>3, <1>0, <1>1
    <3>2. state[k] # "absent"
      BY <3>1, <2>1, <1>0 DEF HistoryInv, NoRowNoEvent
    <3>3. PICK l \in 1 .. n :
            /\ outbox[l].key = k
            /\ outbox[l].state = state[k]
            /\ outbox[l].fence = fence[k]
            /\ \A m \in 1 .. n : m > l => outbox[m].key # k
      BY <3>2, <1>0 DEF HistoryInv, OutboxIsTheHistory
    <3>4. l = i
      <4>1. ~(l > i)
        BY <3>1, <3>3, <1>0, <2>1
      <4>2. ~(i > l)
        BY <3>1, <3>3, <2>1
      <4> QED
        BY <4>1, <4>2, <1>0, <2>1
    <3>5. /\ outbox'[j].type = type
          /\ outbox'[j].state = state'[k]
          /\ outbox'[j].fence = fence'[k]
      BY <2>3, <1>1
    <3>6. outbox'[i].state = state[k] /\ outbox'[i].fence = fence[k]
      BY <3>3, <3>4, <1>1, <2>1
    <3> QED
      BY <3>2, <3>5, <3>6 DEF FollowsRow
  <2> QED
    BY <2>2, <2>3, <1>0, <1>1
<1> QED
  BY <1>2, <1>3, <1>4 DEF HistoryInv, OutboxIsTheHistory

\* Each method moves its row along the lifecycle and reports the row it leaves.
LEMMA HistoryStep ==
  ASSUME IInv, HistoryInv, [Next]_vars PROVE HistoryInv'
<1>a. TypeOK /\ TargetHoldsTheIntent
  BY DEF IInv
<1>0. ASSUME UNCHANGED <<state, fence, outbox>> PROVE HistoryInv'
  BY <1>0 DEF HistoryInv, NoRowNoEvent, OutboxIsTheHistory, Successive
<1>1. CASE UNCHANGED vars
  BY <1>1, <1>0 DEF vars, dbVars
<1>2. ASSUME NEW k \in Keys, NEW o \in Operations, Propose(k, o)
      PROVE  HistoryInv'
  BY <1>2, <1>a, EnqueueKeepsHistory DEF Propose, SetState, TypeOK
<1>3. ASSUME NEW b \in Brokers, NEW k \in Keys, Prepare(b, k)
      PROVE  HistoryInv'
  <2>1. FollowsRow(k, "prepared")
    BY <1>3, <1>a DEF Prepare, TakeFence, SetState, FollowsRow, Lifecycle, TypeOK
  <2> QED
    BY <1>3, <1>a, <2>1, EnqueueKeepsHistory DEF Prepare, TakeFence, SetState, TypeOK
<1>4. ASSUME NEW b \in Brokers, NEW k \in Keys, AcquireFence(b, k)
      PROVE  HistoryInv'
  <2>1. FollowsRow(k, "fence_acquired")
    BY <1>4, <1>a DEF AcquireFence, TakeFence, FollowsRow, TypeOK
  <2> QED
    BY <1>4, <1>a, <2>1, EnqueueKeepsHistory DEF AcquireFence, TakeFence, TypeOK
<1>5. ASSUME NEW k \in Keys, NEW s \in States, s # "prepared", SetState(k, s),
             UNCHANGED fence, Enqueue(k, s), <<state[k], s>> \in Lifecycle
      PROVE  HistoryInv'
  <2>1. state'[k] = s /\ FollowsRow(k, s)
    BY <1>5, <1>a DEF SetState, FollowsRow, TypeOK
  <2>2. s # "absent"
    BY DEF States
  <2> QED
    BY <1>5, <1>a, <2>1, <2>2, EnqueueKeepsHistory DEF SetState, TypeOK
<1>6. ASSUME NEW b \in Brokers, NEW k \in Keys, ApproveByPolicy(b, k)
      PROVE  HistoryInv'
  BY <1>6, <1>5 DEF ApproveByPolicy, Lifecycle, States
<1>7. ASSUME NEW b \in Brokers, NEW k \in Keys, NEW g \in GrantIds,
             ApproveByGrant(b, k, g)
      PROVE  HistoryInv'
  BY <1>7, <1>5 DEF ApproveByGrant, Lifecycle, States
<1>8. ASSUME NEW b \in Brokers, NEW k \in Keys, Abort(b, k)
      PROVE  HistoryInv'
  BY <1>8, <1>5 DEF Abort, Lifecycle, States
<1>9. ASSUME NEW b \in Brokers, NEW k \in Keys, Commit(b, k)
      PROVE  HistoryInv'
  <2>1. CASE CommitReconciled(b, k)
    BY <2>1, <1>5 DEF CommitReconciled, AlreadyApplied, Settle, Lifecycle, States
  <2>2. CASE CommitReplayed(b, k) \/ CommitApplied(b, k)
    BY <2>2, <1>5 DEF CommitReplayed, CommitApplied, Executes, CommitAllowed,
                      Settle, Lifecycle, States
  <2>3. CASE CommitAmbiguous(b, k)
    <3>1. CASE state[k] = "approved"
      BY <2>3, <3>1, <1>5 DEF CommitAmbiguous, Settle, Lifecycle, States
    <3>2. CASE state[k] = "ambiguous"
      BY <2>3, <3>2, <1>a DEF CommitAmbiguous, Executes, AlreadyApplied,
                              TargetHoldsTheIntent
    <3> QED
      BY <2>3, <3>1, <3>2 DEF CommitAmbiguous, Executes, CommitAllowed
  <2>4. CASE CommitCrashed(b, k)
    BY <2>4, <1>0 DEF CommitCrashed, RollsBack, dbVars
  <2> QED
    BY <1>9, <2>1, <2>2, <2>3, <2>4 DEF Commit, CommitReturns
<1>10. ASSUME NEW b \in Brokers, NEW k \in Keys,
              Compensate(b, k) \/ CompensateCrashed(b, k)
       PROVE  HistoryInv'
  <2>1. CASE Compensate(b, k)
    BY <2>1, <1>5 DEF Compensate, Compensates, Settle, Lifecycle, States
  <2>2. CASE CompensateCrashed(b, k)
    BY <2>2, <1>0 DEF CompensateCrashed, RollsBack, dbVars
  <2> QED
    BY <1>10, <2>1, <2>2
<1>11. CASE \/ \E b \in Brokers, k \in Keys : ReadToken(b, k)
            \/ \E g \in GrantIds, k \in Keys, exact \in BOOLEAN, ttl \in TTLs :
                 Issue(g, k, exact, ttl)
            \/ Tick
            \/ \E b \in Brokers : Restart(b)
  BY <1>11, <1>0 DEF ReadToken, Issue, Tick, Restart, dbVars
<1> QED
  BY <1>1, <1>2, <1>3, <1>4, <1>6, <1>7, <1>8, <1>9, <1>10, <1>11 DEF Next

\* No transition is lost, duplicated or reordered on its way to the outbox.
THEOREM OutboxFaithful == Spec => []OutboxIsTheHistory
<1>1. Init => HistoryInv
  BY DEF Init, HistoryInv, NoRowNoEvent, OutboxIsTheHistory
<1>2. IInv /\ HistoryInv /\ [Next]_vars => HistoryInv'
  BY HistoryStep
<1>3. HistoryInv => OutboxIsTheHistory
  BY DEF HistoryInv
<1> QED
  BY <1>1, <1>2, <1>3, Invariance, PTL DEF Spec

-----------------------------------------------------------------------------
(* The moment of application. *)

\* A step that changes the target irreversibly passed the grant check.
LEMMA ApplicationStep ==
  ASSUME IInv, [Next]_vars, NEW k \in Keys, applied'[k] # applied[k],
         EffectClass[applied'[k]] = "irreversible_write"
  PROVE  \E g \in GrantIds : spent[g] = k /\ GrantVerifies(g, k, TRUE)
<1>1. PICK b \in Brokers, j \in Keys : Executes(b, j) /\ PhysicallyApply(j)
  <2>1. ASSUME NEW b \in Brokers, NEW j \in Keys, Commit(b, j)
        PROVE  applied' = applied \/ (Executes(b, j) /\ PhysicallyApply(j))
    BY <2>1 DEF Commit, CommitReturns, CommitReconciled, CommitReplayed,
                CommitApplied, CommitAmbiguous, CommitCrashed, targetVars
  <2>2. ASSUME NEW j \in Keys, NEW o \in Operations, Propose(j, o)
        PROVE  applied' = applied
    BY <2>2 DEF Propose, targetVars
  <2>3. ASSUME NEW b \in Brokers, NEW j \in Keys,
               \/ Prepare(b, j) \/ AcquireFence(b, j) \/ ReadToken(b, j)
               \/ ApproveByPolicy(b, j) \/ Abort(b, j) \/ Compensate(b, j)
               \/ CompensateCrashed(b, j)
               \/ \E g \in GrantIds : ApproveByGrant(b, j, g)
        PROVE  applied' = applied
    BY <2>3 DEF Prepare, AcquireFence, ReadToken, ApproveByPolicy, Abort,
                Compensate, CompensateCrashed, PhysicallyUndo, ApproveByGrant,
                targetVars
  <2>4. CASE Tick \/ \E b \in Brokers : Restart(b)
    BY <2>4 DEF Tick, Restart, targetVars
  <2>5. ASSUME NEW g \in GrantIds, NEW j \in Keys, NEW exact \in BOOLEAN,
               NEW ttl \in TTLs, Issue(g, j, exact, ttl)
        PROVE  applied' = applied
    BY <2>5 DEF Issue, targetVars
  <2>6. CASE UNCHANGED vars
    BY <2>6 DEF vars, targetVars
  <2> QED
    BY <2>1, <2>2, <2>3, <2>4, <2>5, <2>6 DEF Next
<1>2. j = k /\ applied'[k] = op[k] /\ applied[k] = NoOp
  BY <1>1 DEF PhysicallyApply, IInv, TypeOK
<1>3. op[k] # NoOp /\ ~AlreadyApplied(k)
  BY <1>1, <1>2 DEF Executes, CommitAllowed, IInv, RowsWellFormed,
                    AlreadyApplied, WasApplied
<1>4. Irreversible(k)
  BY <1>2, <1>3 DEF Irreversible
<1>5. /\ grantId[k] # NoGrant /\ spent[grantId[k]] = k
      /\ GrantVerifies(grantId[k], k, TRUE)
  BY <1>1, <1>2, <1>3, <1>4 DEF Executes, CommitAllowed, GrantVerifies
<1>6. grantId[k] \in GrantIds
  BY <1>5 DEF IInv, TypeOK
<1> QED
  BY <1>5, <1>6

\* An irreversible operation changes the target only under a valid grant.
THEOREM AuthorisedWhenApplied == Spec => AppliedWithinValidity
<1>1. IInv /\ [Next]_vars => [AppliesUnderValidGrant]_vars
  BY ApplicationStep DEF AppliesUnderValidGrant
<1> QED
  BY <1>1, Invariance, PTL DEF Spec, AppliedWithinValidity

-----------------------------------------------------------------------------
(* The kernel implements its promise. *)

\* The kernel starts where its promise starts.
LEMMA PromiseInit == Init => Promise!Init
  BY ConstantsAssumption DEF Init, Promise!Init, Outcome

\* Each step of the kernel is a step of the promise or invisible to it.
LEMMA PromiseStep == IInv /\ [Next]_vars
      => [Promise!Next]_(Promise!promiseVars)
<1> SUFFICES ASSUME IInv, [Next]_vars
             PROVE  [Promise!Next]_(Promise!promiseVars)
  OBVIOUS
<1> DEFINE out == [k \in Keys |-> Outcome(state[k])]
           auth == {k \in Keys : grantId[k] # NoGrant}
           rev == {k \in Keys : undone[k] # 0}
<1>a. TypeOK /\ RowsWellFormed /\ TargetHoldsTheIntent
      /\ IrreversibleIsGranted
  BY DEF IInv
<1>b. ASSUME UNCHANGED <<applied, rev, out, auth>>
      PROVE  [Promise!Next]_(Promise!promiseVars)
  BY <1>b DEF Promise!promiseVars
<1>c. ASSUME NEW k \in Keys, NEW s, SetState(k, s)
      PROVE  out' = [out EXCEPT ![k] = Outcome(s)]
  BY <1>c, <1>a DEF SetState, TypeOK
<1>1. CASE UNCHANGED vars
  BY <1>1, <1>b DEF vars, dbVars, targetVars
<1>2. ASSUME NEW k \in Keys, NEW o \in Operations, Propose(k, o)
      PROVE  [Promise!Next]_(Promise!promiseVars)
  <2>1. out' = out
    BY <1>2, <1>a DEF Propose, SetState, Outcome, TypeOK
  <2> QED
    BY <1>2, <2>1, <1>b DEF Propose, targetVars
<1>3. ASSUME NEW b \in Brokers, NEW k \in Keys, Prepare(b, k)
      PROVE  [Promise!Next]_(Promise!promiseVars)
  <2>1. out' = out
    BY <1>3, <1>a DEF Prepare, SetState, Outcome, TypeOK
  <2> QED
    BY <1>3, <2>1, <1>b DEF Prepare, targetVars
<1>4. ASSUME NEW b \in Brokers, NEW k \in Keys, AcquireFence(b, k)
      PROVE  [Promise!Next]_(Promise!promiseVars)
  BY <1>4, <1>b DEF AcquireFence, targetVars
<1>5. ASSUME NEW b \in Brokers, NEW k \in Keys, ReadToken(b, k)
      PROVE  [Promise!Next]_(Promise!promiseVars)
  BY <1>5, <1>b DEF ReadToken, dbVars, targetVars
<1>6. ASSUME NEW b \in Brokers, NEW k \in Keys, ApproveByPolicy(b, k)
      PROVE  [Promise!Next]_(Promise!promiseVars)
  <2>1. out' = out
    BY <1>6, <1>a DEF ApproveByPolicy, SetState, Outcome, TypeOK
  <2> QED
    BY <1>6, <2>1, <1>b DEF ApproveByPolicy, targetVars
<1>7. ASSUME NEW b \in Brokers, NEW k \in Keys, NEW g \in GrantIds,
             ApproveByGrant(b, k, g)
      PROVE  [Promise!Next]_(Promise!promiseVars)
  <2>1. out' = out /\ out[k] = "open"
    BY <1>7, <1>a DEF ApproveByGrant, SetState, Outcome, TypeOK
  <2>2. applied' = applied /\ applied[k] = NoOp /\ k \notin auth
    BY <1>7, <1>a DEF ApproveByGrant, targetVars, RowsWellFormed
  <2>3. auth' = auth \cup {k}
    BY <1>7, <1>a, ConstantsAssumption DEF ApproveByGrant, TypeOK
  <2>4. rev' = rev
    BY <1>7 DEF ApproveByGrant, targetVars
  <2>5. Promise!Authorise(k)
    BY <2>1, <2>2, <2>3, <2>4 DEF Promise!Authorise
  <2> QED
    BY <2>5 DEF Promise!Next
<1>8. ASSUME NEW b \in Brokers, NEW k \in Keys, Abort(b, k)
      PROVE  [Promise!Next]_(Promise!promiseVars)
  <2>1. out' = [out EXCEPT ![k] = "abandoned"] /\ out[k] = "open"
    BY <1>8, <1>a DEF Abort, SetState, Outcome, TypeOK
  <2>2. k \notin rev
    BY <1>8 DEF Abort, IInv, PhysicalAtMostOnce
  <2>3. Promise!Abandon(k)
    BY <1>8, <2>1, <2>2 DEF Abort, targetVars, Promise!Abandon
  <2> QED
    BY <2>3 DEF Promise!Next
<1>9. ASSUME NEW b \in Brokers, NEW k \in Keys, CommitAllowed(b, k)
      PROVE  out[k] = "open" /\ op[k] \in Operations
                /\ (Irreversible(k) => k \in auth)
  BY <1>9, <1>a DEF CommitAllowed, Outcome, TypeOK, RowsWellFormed
<1>10. ASSUME NEW b \in Brokers, NEW k \in Keys, CommitAllowed(b, k),
              applied' = applied, undone' = undone, WasApplied(k),
              Settle(k, "committed")
       PROVE  [Promise!Next]_(Promise!promiseVars)
  <2>1. out' = [out EXCEPT ![k] = "done"]
    BY <1>10, <1>a DEF Settle, SetState, Outcome, TypeOK
  <2>2. Promise!Confirm(k)
    BY <1>9, <1>10, <2>1 DEF Promise!Confirm, WasApplied, Settle
  <2> QED
    BY <2>2 DEF Promise!Next
<1>11. ASSUME NEW b \in Brokers, NEW k \in Keys, Executes(b, k),
              PhysicallyApply(k), auth' = auth,
              out' \in {out, [out EXCEPT ![k] = "done"]}
       PROVE  [Promise!Next]_(Promise!promiseVars)
  <2>1. CommitAllowed(b, k)
    BY <1>11 DEF Executes
  <2>2. EffectClass[op[k]] = "irreversible_write" => k \in auth
    BY <1>9, <2>1, ConstantsAssumption DEF Irreversible
  <2>3. Promise!Happen(k, op[k])
    BY <1>9, <1>11, <2>1, <2>2 DEF PhysicallyApply, Promise!Happen
  <2> QED
    BY <1>9, <2>1, <2>3 DEF Promise!Next
<1>12. ASSUME NEW b \in Brokers, NEW k \in Keys, Commit(b, k)
       PROVE  [Promise!Next]_(Promise!promiseVars)
  <2>1. CASE CommitReconciled(b, k)
    BY <2>1, <1>10 DEF CommitReconciled, AlreadyApplied, targetVars
  <2>2. CASE CommitReplayed(b, k)
    BY <2>2, <1>10 DEF CommitReplayed, Executes
  <2>3. CASE CommitApplied(b, k)
    <3>1. out' = [out EXCEPT ![k] = "done"]
      BY <2>3, <1>a DEF CommitApplied, Settle, SetState, Outcome, TypeOK
    <3> QED
      BY <2>3, <3>1, <1>11 DEF CommitApplied, Settle
  <2>4. CASE CommitAmbiguous(b, k)
    <3>1. out' = out
      BY <2>4, <1>a DEF CommitAmbiguous, Executes, CommitAllowed, Settle,
                        SetState, Outcome, TypeOK
    <3> QED
      BY <2>4, <3>1, <1>11 DEF CommitAmbiguous, Settle
  <2>5. CASE CommitCrashed(b, k)
    <3>1. UNCHANGED <<out, auth>>
      BY <2>5 DEF CommitCrashed, RollsBack, dbVars
    <3>2. CASE PhysicallyApply(k)
      BY <2>5, <3>1, <3>2, <1>11 DEF CommitCrashed
    <3>3. CASE UNCHANGED <<applied, applies, undone>>
      BY <3>1, <3>3, <1>b
    <3> QED
      BY <2>5, <3>2, <3>3 DEF CommitCrashed
  <2> QED
    BY <1>12, <2>1, <2>2, <2>3, <2>4, <2>5 DEF Commit, CommitReturns
<1>13. ASSUME NEW b \in Brokers, NEW k \in Keys,
              Compensate(b, k) \/ CompensateCrashed(b, k)
       PROVE  [Promise!Next]_(Promise!promiseVars)
  <2>1. Compensates(b, k) /\ PhysicallyUndo(k)
    BY <1>13 DEF Compensate, CompensateCrashed
  <2>2. out[k] \in {"open", "done"}
    BY <2>1 DEF Compensates, Outcome
  <2>3. applied[k] # NoOp /\ EffectClass[applied[k]] = "reversible_write"
    BY <2>1 DEF Compensates, WasApplied, Reversible
  <2>4. rev' = rev \cup {k} /\ applied' = applied
    BY <2>1, <1>a DEF PhysicallyUndo, TypeOK
  <2>5. auth' = auth /\ out' \in {out, [out EXCEPT ![k] = "undone"]}
    <3>1. CASE Compensate(b, k)
      BY <3>1, <1>a DEF Compensate, Settle, SetState, Outcome, TypeOK
    <3>2. CASE CompensateCrashed(b, k)
      BY <3>2 DEF CompensateCrashed, RollsBack, dbVars
    <3> QED
      BY <1>13, <3>1, <3>2
  <2>6. Promise!Undo(k)
    BY <2>2, <2>3, <2>4, <2>5 DEF Promise!Undo
  <2> QED
    BY <2>6 DEF Promise!Next
<1>14. ASSUME NEW g \in GrantIds, NEW k \in Keys, NEW exact \in BOOLEAN,
              NEW ttl \in TTLs, Issue(g, k, exact, ttl)
       PROVE  [Promise!Next]_(Promise!promiseVars)
  BY <1>14, <1>b DEF Issue, dbVars, targetVars
<1>15. CASE Tick
  BY <1>15, <1>b DEF Tick, dbVars, targetVars
<1>16. ASSUME NEW b \in Brokers, Restart(b)
       PROVE  [Promise!Next]_(Promise!promiseVars)
  BY <1>16, <1>b DEF Restart, dbVars, targetVars
<1> QED
  BY <1>1, <1>2, <1>3, <1>4, <1>5, <1>6, <1>7, <1>8, <1>12, <1>13, <1>14,
     <1>15, <1>16 DEF Next

\* Every behaviour of the kernel is one the promise allows.
THEOREM Refinement == Spec => KeepsPromise
  BY PromiseInit, PromiseStep, Invariance, PTL DEF Spec, KeepsPromise,
     Promise!Spec

-----------------------------------------------------------------------------
(* What reading a package has established.                                 *)

Phases == {"events", "records", "obligations", "approvals", "effects", "accepted"}
Amounts == {"reserved", "actual", "released"}

\* Two events no record could account for both of.
Rival(e, f) ==
  \/ e.type \in EffectEvents /\ e.type = f.type /\ e.effect = f.effect
  \/ e.type = "effect.aborted" /\ f.type \in {"effect.committed", "effect.compensated"} /\ e.effect = f.effect
  \/ f.type = "effect.aborted" /\ e.type \in {"effect.committed", "effect.compensated"} /\ e.effect = f.effect
  \/ e.type = "approval.granted" /\ e.type = f.type /\ e.approval = f.approval

\* What is known of one event of the chain.
Grounded(i) ==
  LET e == log[i] IN
  /\ e.type \in EventTypes /\ IdentityShape(e)
  /\ \A field \in Amounts : e[field] \in Int
  /\ e.causes \subseteq 1..(i - 1)
  /\ e.type \in TaskEnds => \E j \in e.causes : log[j].type = "task.attempt_started" /\ SameAttempt(e, j)
  /\ \A a \in e.evidence : FreshAt(a, e.time) /\ \E j \in 1..(i - 1) : a \in log[j].outputs
  /\ \A a \in e.outputs : \A p \in Artifact(a).parents : \E j \in 1..(i - 1) : p \in log[j].outputs

\* The events read so far.
ChainKept ==
  /\ log \in Seq(Range(log))
  /\ forger \in Forgers
  /\ \A i \in Positions : Grounded(i)
  /\ \A i, j \in Positions : i # j => log[i].outputs \cap log[j].outputs = {} /\ ~Rival(log[i], log[j])

\* What is spent and reserved fits.
MoneyKept == Outstanding >= 0 /\ Spent + Outstanding <= Cap

\* What was checked of the records read so far.
SealKept ==
  /\ DOMAIN seal = {"claims", "obligations", "approvals", "effects"}
  /\ phase \in Phases
  /\ phase # "events" => Outstanding = 0
  /\ \A c \in seal.claims : phase # "events" /\ ClaimHolds(c)
  /\ \A o \in seal.obligations : phase # "events" /\ ObligationHolds(o)
  /\ \A id \in DOMAIN seal.approvals : phase # "events" /\ ApprovalHolds(id, seal.approvals[id])
  /\ phase \in {"effects", "accepted"} => Granted = DOMAIN seal.approvals
  /\ \A id \in DOMAIN seal.effects :
       LET r == seal.effects[id]
       IN /\ phase \in {"effects", "accepted"} /\ id \in Touched
          /\ ProposalHolds(id, r) /\ TerminalHolds(id, r) /\ ApprovalFits(id, r) /\ CommitHolds(id, r)
          /\ r.commit \in {0} \union Positions /\ r.terminal \in {0} \union Positions
  /\ phase = "accepted" => \A a \in DOMAIN seal.approvals : Cardinality(UsesOf(a)) = 1

\* The invariant of the reading.
ReadingInv == ChainKept /\ MoneyKept /\ SealKept

\* m is l and one event more.
Follows(l, e, m) == l \in Seq(Range(l)) /\ m = Append(l, e)

\* A log and its next event.
LEMMA Lengthened ==
  ASSUME NEW l, NEW e, NEW m, Follows(l, e, m)
  PROVE  /\ Len(l) \in Nat /\ DOMAIN l = 1..Len(l) /\ Len(m) = Len(l) + 1 /\ DOMAIN m = 1..(Len(l) + 1)
         /\ m[Len(l) + 1] = e /\ \A i \in DOMAIN l : i \in DOMAIN m /\ m[i] = l[i]
         /\ m \in Seq(Range(m))
<1> DEFINE S == Range(l) \union {e}
<1>1. l \in Seq(S) /\ e \in S /\ m = Append(l, e)
  <2>1. Range(l) \subseteq S
    OBVIOUS
  <2> QED
    BY <2>1, SeqMonotonic DEF Follows
<1> HIDE DEF S
<1>2. /\ Len(l) \in Nat /\ DOMAIN l = 1..Len(l) /\ Len(m) = Len(l) + 1 /\ DOMAIN m = 1..(Len(l) + 1)
      /\ m[Len(l) + 1] = e /\ \A i \in DOMAIN l : i \in DOMAIN m /\ m[i] = l[i]
  BY <1>1
<1>3. m \in Seq(Range(m))
  <2>1. m \in Seq(S)
    BY <1>1
  <2>2. Len(m) \in Nat /\ m \in [1..Len(m) -> S]
    BY <2>1, LenProperties
  <2> DEFINE R == Range(m)
  <2>3. \A i \in 1..Len(m) : m[i] \in R
    BY <1>2 DEF Range
  <2> HIDE DEF R
  <2>4. m \in [1..Len(m) -> R]
    BY <2>2, <2>3
  <2>5. m \in Seq(R)
    <3>1. PICK n \in Nat : m \in [1..n -> R]
      BY <2>2, <2>4
    <3>2. m \in UNION {[1..k -> R] : k \in Nat}
      BY <3>1, Zenon
    <3> QED
      BY <3>2, SeqDef, Zenon
  <2> QED
    BY <2>5 DEF R
<1> QED
  BY <1>2, <1>3

\* Total, of any log.
SumOf(l, field) == SumFunction([i \in DOMAIN l |-> l[i][field]])

Counted(l, field) == \A i \in DOMAIN l : l[i][field] \in Int

\* The next event adds its amount.
LEMMA SumsGrow ==
  ASSUME NEW l, NEW e, NEW m, Follows(l, e, m), NEW field,
         Counted(l, field), e[field] \in Int
  PROVE  SumOf(l, field) \in Int /\ SumOf(m, field) = SumOf(l, field) + e[field]
<1> DEFINE f == [i \in DOMAIN l |-> l[i][field]]
           g == [i \in DOMAIN m |-> m[i][field]]
           n == Len(l) + 1
<1>1. /\ Len(l) \in Nat /\ DOMAIN l = 1..Len(l) /\ DOMAIN m = 1..n /\ m[n] = e
      /\ \A i \in DOMAIN l : i \in DOMAIN m /\ m[i] = l[i]
  BY Lengthened
<1>2. IsFiniteSet(DOMAIN l) /\ n \notin DOMAIN l /\ DOMAIN m = DOMAIN l \union {n}
  <2>1. IsFiniteSet(1..Len(l))
    BY <1>1, FS_Interval
  <2> QED
    BY <1>1, <2>1
<1>3. DOMAIN f = DOMAIN l /\ DOMAIN g = DOMAIN m /\ (\A x \in DOMAIN l \union {n} : g[x] \in Int)
      /\ (\A x \in DOMAIN l : f[x] = g[x] /\ f[x] \in Int) /\ g[n] = e[field]
  <2>1. ASSUME NEW x \in DOMAIN l PROVE f[x] = g[x] /\ f[x] \in Int
    BY <1>1 DEF Counted
  <2>2. g[n] = e[field] /\ g[n] \in Int
    BY <1>1, <1>2
  <2>3. DOMAIN f = DOMAIN l /\ DOMAIN g = DOMAIN m
    OBVIOUS
  <2> HIDE DEF f, g, n
  <2> QED
    BY <2>1, <2>2, <2>3
<1>4. SumOf(l, field) = SumFunctionOnSet(f, DOMAIN l) /\ SumOf(m, field) = SumFunctionOnSet(g, DOMAIN l \union {n})
  BY <1>2, <1>3 DEF SumOf, SumFunction
<1> HIDE DEF f, g, n
<1>5. SumFunctionOnSet(g, DOMAIN l \union {n}) = g[n] + SumFunctionOnSet(g, DOMAIN l)
  BY <1>2, <1>3, SumAdd
<1>6. SumFunctionOnSet(f, DOMAIN l) = SumFunctionOnSet(g, DOMAIN l)
  BY <1>2, <1>3, SumSame
<1>7. SumFunctionOnSet(f, DOMAIN l) \in Int
  BY <1>2, <1>3, SumType
<1> QED
  BY <1>3, <1>4, <1>5, <1>6, <1>7

\* An artifact that was emitted was emitted at one place.
LEMMA PlacesAreKnown ==
  ASSUME ChainKept
  PROVE  /\ \A i \in Positions : \A a \in log[i].outputs : ProducedAt(a) = i
         /\ \A a : ProducedAt(a) # 0 => ProducedAt(a) \in Positions /\ a \in log[ProducedAt(a)].outputs
         /\ 0 \notin Positions
<1>1. 0 \notin Positions
  <2>1. Len(log) \in Nat /\ DOMAIN log = 1..Len(log)
    BY DEF ChainKept
  <2> QED
    BY <2>1 DEF Positions
<1>2. ASSUME NEW i \in Positions, NEW a \in log[i].outputs PROVE ProducedAt(a) = i
  <2>1. {j \in Positions : a \in log[j].outputs} = {i}
    BY <1>2 DEF ChainKept
  <2> QED
    BY <2>1 DEF ProducedAt
<1>3. ASSUME NEW a, ProducedAt(a) # 0 PROVE ProducedAt(a) \in Positions /\ a \in log[ProducedAt(a)].outputs
  BY <1>3 DEF ProducedAt
<1> QED
  BY <1>1, <1>2, <1>3

\* Reading starts with nothing read.
LEMMA ReadingStarts ==
  ASSUME VerifyInit
  PROVE  ReadingInv
<1>1. /\ forger \in Forgers /\ log = <<>> /\ phase = "events"
      /\ seal = [claims |-> {}, obligations |-> {}, approvals |-> <<>>, effects |-> <<>>]
  BY DEF VerifyInit
<1>2. DOMAIN log = {}
  BY <1>1
<1>3. ChainKept
  BY <1>1, <1>2 DEF ChainKept, Positions, Range
<1>4. ASSUME NEW field PROVE Total(field) = 0
  <2> DEFINE f == [i \in Positions |-> log[i][field]]
  <2>1. DOMAIN f = {}
    BY <1>2 DEF Positions
  <2> HIDE DEF f
  <2>2. SumFunctionOnSet(f, {}) = 0
    BY SumEmpty
  <2> QED
    BY <2>1, <2>2 DEF Total, SumFunction, f
<1>5. MoneyKept
  <2>1. Total("actual") = 0 /\ Total("reserved") = 0 /\ Total("released") = 0
    BY <1>4
  <2> QED
    BY <2>1, ForgersAssumption DEF MoneyKept, Outstanding, Spent
<1>6. SealKept
  BY <1>1 DEF SealKept, Phases
<1> QED
  BY <1>3, <1>5, <1>6 DEF ReadingInv

-----------------------------------------------------------------------------
(* Reading keeps it.                                                       *)

\* What the verifier has let pass of the next event.
LEMMA EventRead ==
  ASSUME ReadingInv, ReadEvent
  PROVE  \E e : /\ Readable(e) /\ log' = Append(log, e)
                /\ e.reserved \in Int /\ e.actual \in Int /\ e.released \in Int
<1>1. PICK x \in forger.events, t \in forger.times :
        \E c \in CauseSets(x.type) :
          LET e == [type |-> x.type, task |-> x.task, attempt |-> x.attempt, approval |-> x.approval,
                    effect |-> x.effect, outputs |-> x.outputs, evidence |-> x.evidence,
                    reserved |-> x.reserved, actual |-> x.actual, released |-> x.released,
                    time |-> t, causes |-> c]
          IN Readable(e) /\ log' = Append(log, e)
  BY DEF ReadEvent
<1>2. PICK c \in CauseSets(x.type) :
          LET e == [type |-> x.type, task |-> x.task, attempt |-> x.attempt, approval |-> x.approval,
                    effect |-> x.effect, outputs |-> x.outputs, evidence |-> x.evidence,
                    reserved |-> x.reserved, actual |-> x.actual, released |-> x.released,
                    time |-> t, causes |-> c]
          IN Readable(e) /\ log' = Append(log, e)
  BY <1>1
<1> DEFINE e == [type |-> x.type, task |-> x.task, attempt |-> x.attempt, approval |-> x.approval,
                 effect |-> x.effect, outputs |-> x.outputs, evidence |-> x.evidence,
                 reserved |-> x.reserved, actual |-> x.actual, released |-> x.released,
                 time |-> t, causes |-> c]
<1>3. x.reserved \in Int /\ x.actual \in Int /\ x.released \in Int
  BY ForgersAssumption DEF ReadingInv, ChainKept
<1>4. e.reserved = x.reserved /\ e.actual = x.actual /\ e.released = x.released
  OBVIOUS
<1>5. Readable(e) /\ log' = Append(log, e)
  BY <1>2, Zenon
<1> QED
  BY <1>3, <1>4, <1>5, Zenon

\* No check of an event looks further back than its predecessors.
LEMMA ChainGrows ==
  ASSUME ReadingInv, ReadEvent
  PROVE  ChainKept'
<1>1. PICK e : /\ Readable(e) /\ log' = Append(log, e)
               /\ e.reserved \in Int /\ e.actual \in Int /\ e.released \in Int
  BY EventRead
<1>2. ChainKept /\ forger' = forger
  BY DEF ReadingInv, ReadEvent
<1> PICK n : n = Len(log) + 1
  OBVIOUS
<1>3. /\ Len(log) \in Nat /\ Positions = 1..Len(log) /\ Positions' = 1..n /\ n \in Nat
      /\ log'[n] = e /\ \A i \in Positions : i \in Positions' /\ log'[i] = log[i]
      /\ log' \in Seq(Range(log'))
  <2>1. PICK l, m : l = log /\ m = log'
    OBVIOUS
  <2>2. Follows(l, e, m)
    BY <1>1, <1>2, <2>1 DEF ChainKept, Follows
  <2>3. /\ Len(l) \in Nat /\ DOMAIN l = 1..Len(l) /\ DOMAIN m = 1..(Len(l) + 1)
        /\ m[Len(l) + 1] = e /\ (\A i \in DOMAIN l : i \in DOMAIN m /\ m[i] = l[i])
        /\ m \in Seq(Range(m))
    BY <2>2, Lengthened
  <2> QED
    BY <2>1, <2>3 DEF Positions
<1>4. n \notin Positions /\ Positions' = Positions \union {n} /\ Positions = 1..(n - 1)
  BY <1>3
<1>5. /\ Shaped(e) /\ InOrder(e) /\ IdentityShape(e) /\ Outputs(e) /\ TaskCausality(e)
      /\ Evidence(e) /\ Lineage(e) /\ CountedOnce(e)
  BY <1>1 DEF Readable
<1>6. ASSUME NEW a, ProducedAt(a) # 0 PROVE \E j \in 1..(n - 1) : a \in log'[j].outputs
  <2>1. PICK j : j = ProducedAt(a)
    OBVIOUS
  <2>2. j \in Positions /\ a \in log[j].outputs
    BY <1>2, <1>6, <2>1, PlacesAreKnown
  <2> QED
    BY <1>3, <1>4, <2>2
<1>7. e.causes \subseteq 1..(n - 1)
  <2>1. CASE log = <<>>
    BY <1>5, <2>1 DEF InOrder
  <2>2. CASE log # <<>>
    BY <1>4, <1>5, <2>2 DEF InOrder
  <2> QED
    BY <2>1, <2>2
<1>8. Grounded(n)'
  <2>1. e.type \in EventTypes /\ IdentityShape(e)
    BY <1>5 DEF Shaped
  <2>2. \A field \in Amounts : e[field] \in Int
    BY <1>1 DEF Amounts
  <2>3. e.type \in TaskEnds =>
          \E j \in e.causes : log'[j].type = "task.attempt_started" /\ log'[j].task = e.task /\ log'[j].attempt = e.attempt
    <3>1. SUFFICES ASSUME e.type \in TaskEnds
                   PROVE \E j \in e.causes : /\ log'[j].type = "task.attempt_started"
                                             /\ log'[j].task = e.task /\ log'[j].attempt = e.attempt
      OBVIOUS
    <3>2. PICK j \in e.causes : log[j].type = "task.attempt_started" /\ log[j].task = e.task /\ log[j].attempt = e.attempt
      BY <1>5, <3>1 DEF TaskCausality, SameAttempt
    <3> QED
      BY <1>3, <1>4, <1>7, <3>2
  <2>4. \A a \in e.evidence : FreshAt(a, e.time)' /\ \E j \in 1..(n - 1) : a \in log'[j].outputs
    BY <1>2, <1>5, <1>6 DEF Evidence, FreshAt, Artifact
  <2>5. \A a \in e.outputs : \A p \in Artifact(a)'.parents : \E j \in 1..(n - 1) : p \in log'[j].outputs
    BY <1>2, <1>5, <1>6 DEF Lineage, Artifact
  <2> QED
    BY <1>3, <1>7, <2>1, <2>2, <2>3, <2>4, <2>5 DEF Grounded, SameAttempt, Artifact, FreshAt
<1>9. ASSUME NEW i \in Positions PROVE Grounded(i)'
  <2>1. Grounded(i)
    BY <1>2 DEF ChainKept
  <2>2. log'[i] = log[i] /\ \A j \in 1..(i - 1) : j \in Positions /\ log'[j] = log[j]
    BY <1>3
  <2> PICK d : d = log[i]
    OBVIOUS
  <2>3. d.causes \subseteq 1..(i - 1)
    BY <2>1 DEF Grounded
  <2>4. \A a : FreshAt(a, d.time) => FreshAt(a, d.time)'
    BY <1>2 DEF FreshAt, Artifact
  <2>5. \A a \in d.evidence : FreshAt(a, d.time)' /\ \E j \in 1..(i - 1) : a \in log'[j].outputs
    BY <2>1, <2>2, <2>4 DEF Grounded
  <2>6. \A a \in d.outputs : \A p \in Artifact(a)'.parents : \E j \in 1..(i - 1) : p \in log'[j].outputs
    BY <1>2, <2>1, <2>2 DEF Grounded, Artifact
  <2>7. d.type \in TaskEnds =>
          \E j \in d.causes : log'[j].type = "task.attempt_started" /\ log'[j].task = d.task /\ log'[j].attempt = d.attempt
    BY <2>1, <2>2, <2>3 DEF Grounded, SameAttempt
  <2>8. d.type \in EventTypes /\ IdentityShape(d) /\ \A field \in Amounts : d[field] \in Int
    BY <2>1 DEF Grounded
  <2>9. log'[i] = d
    BY <2>2
  <2> QED
    BY <2>3, <2>5, <2>6, <2>7, <2>8, <2>9 DEF Grounded, SameAttempt, Artifact, FreshAt
<1>10. ASSUME NEW i \in Positions PROVE log[i].outputs \cap e.outputs = {} /\ ~Rival(log[i], e) /\ ~Rival(e, log[i])
  <2>1. log[i].outputs \cap e.outputs = {}
    BY <1>5 DEF Outputs, Emitted
  <2> DEFINE d == log[i]
  <2>2. /\ e.type \in EffectEvents => ~(d.type = e.type /\ d.effect = e.effect)
        /\ e.type = "effect.aborted" => ~(d.type \in {"effect.committed", "effect.compensated"} /\ d.effect = e.effect)
        /\ e.type \in {"effect.committed", "effect.compensated"} => ~(d.type = "effect.aborted" /\ d.effect = e.effect)
        /\ e.type = "approval.granted" => ~(d.type = e.type /\ d.approval = e.approval)
    BY <1>5 DEF CountedOnce
  <2> QED
    BY <2>1, <2>2 DEF Rival
<1>11. ASSUME NEW i \in Positions', NEW j \in Positions', i # j
       PROVE log'[i].outputs \cap log'[j].outputs = {} /\ ~Rival(log'[i], log'[j])
  <2>1. CASE i \in Positions /\ j \in Positions
    BY <1>2, <1>3, <1>11, <2>1 DEF ChainKept
  <2>2. CASE i = n
    BY <1>3, <1>4, <1>10, <1>11, <2>2
  <2>3. CASE j = n
    BY <1>3, <1>4, <1>10, <1>11, <2>3
  <2> QED
    BY <1>4, <2>1, <2>2, <2>3
<1>12. \A i, j \in Positions' : i # j =>
         log'[i].outputs \cap log'[j].outputs = {} /\ ~Rival(log'[i], log'[j])
  BY <1>11
<1>13. (\A i \in Positions : Grounded(i))'
  <2>1. SUFFICES ASSUME NEW i \in Positions' PROVE Grounded(i)'
    OBVIOUS
  <2> QED
    BY <1>4, <1>8, <1>9
<1>14. (\A i, j \in Positions : i # j => log[i].outputs \cap log[j].outputs = {} /\ ~Rival(log[i], log[j]))'
  BY <1>12 DEF Rival
<1> QED
  BY <1>2, <1>3, <1>13, <1>14 DEF ChainKept

\* The totals follow the events.
LEMMA MoneyGrows ==
  ASSUME ReadingInv, ReadEvent
  PROVE  MoneyKept'
<1>1. PICK e : /\ Readable(e) /\ log' = Append(log, e)
               /\ e.reserved \in Int /\ e.actual \in Int /\ e.released \in Int
  BY EventRead
<1>2. ASSUME NEW field \in Amounts
      PROVE Total(field) \in Int /\ Total(field)' = Total(field) + e[field]
  <2>1. PICK l, m : l = log /\ m = log'
    OBVIOUS
  <2>2. Follows(l, e, m)
    BY <1>1, <2>1 DEF ReadingInv, ChainKept, Follows
  <2>3. e[field] \in Int /\ Counted(l, field)
    BY <1>1, <2>1 DEF ReadingInv, ChainKept, Positions, Grounded, Amounts, Counted
  <2>4. SumOf(l, field) \in Int /\ SumOf(m, field) = SumOf(l, field) + e[field]
    BY <2>2, <2>3, SumsGrow
  <2> QED
    BY <2>1, <2>4 DEF Total, SumOf, Positions
<1>3. Resources(e)
  BY <1>1 DEF Readable
<1>4. "actual" \in Amounts /\ "reserved" \in Amounts /\ "released" \in Amounts /\ Cap \in Int
  BY ForgersAssumption DEF Amounts
<1>5. /\ Total("actual") \in Int /\ Total("actual")' = Total("actual") + e.actual
      /\ Total("reserved") \in Int /\ Total("reserved")' = Total("reserved") + e.reserved
      /\ Total("released") \in Int /\ Total("released")' = Total("released") + e.released
  BY <1>2, <1>4
<1>6. PICK a, r, g, x, y, z : /\ a = Total("actual") /\ r = Total("reserved") /\ g = Total("released")
                              /\ x = e.actual /\ y = e.reserved /\ z = e.released
  OBVIOUS
<1>7. r - a - g + y - x - z >= 0 /\ a + x + (r - a - g + y - x - z) <= Cap
  BY <1>3, <1>6 DEF Resources, Outstanding, Spent
<1>8. (r + y) - (a + x) - (g + z) >= 0 /\ (a + x) + ((r + y) - (a + x) - (g + z)) <= Cap
  <2>1. /\ a \in Int /\ r \in Int /\ g \in Int /\ x \in Int /\ y \in Int /\ z \in Int /\ Cap \in Int
    BY <1>1, <1>4, <1>5, <1>6
  <2> QED
    BY <1>7, <2>1
<1>9. Total("actual")' = a + x /\ Total("reserved")' = r + y /\ Total("released")' = g + z
  BY <1>5, <1>6
<1> QED
  BY <1>8, <1>9 DEF MoneyKept, Outstanding, Spent

\* While events are read there are no records.
LEMMA SealWaits ==
  ASSUME ReadingInv, ReadEvent
  PROVE  SealKept'
BY DEF ReadingInv, ReadEvent, SealKept, Phases

\* Once the chain is read, what was found of it stays.
LEMMA ChainStays ==
  ASSUME ReadingInv, log' = log, forger' = forger
  PROVE  /\ ChainKept' /\ MoneyKept' /\ Outstanding' = Outstanding
         /\ \A c : ClaimHolds(c) => ClaimHolds(c)'
         /\ \A o : ObligationHolds(o) => ObligationHolds(o)'
         /\ \A id, r : ApprovalHolds(id, r) => ApprovalHolds(id, r)'
         /\ Granted' = Granted /\ Touched' = Touched /\ Positions' = Positions
         /\ \A id, r : ProposalHolds(id, r) => ProposalHolds(id, r)'
         /\ \A id, r : TerminalHolds(id, r) => TerminalHolds(id, r)'
<1>1. Positions' = Positions /\ Granted' = Granted /\ Touched' = Touched /\ Successful' = Successful
  BY DEF Positions, Granted, Touched, Successful
<1>2. \A a : ProducedAt(a)' = ProducedAt(a)
  BY <1>1 DEF ProducedAt
<1>3. \A a, time : FreshAt(a, time)' = FreshAt(a, time)
  BY DEF FreshAt, Artifact
<1>4. \A field : Total(field)' = Total(field)
  BY <1>1 DEF Total
<1>5. Outstanding' = Outstanding /\ Spent' = Spent
  BY <1>4 DEF Outstanding, Spent
<1>6. ChainKept'
  <2>1. \A e, i : SameAttempt(e, i)' = SameAttempt(e, i)
    BY DEF SameAttempt
  <2>2. \A i \in Positions : Grounded(i)'
    BY <2>1 DEF ReadingInv, ChainKept, Grounded, FreshAt, Artifact, SameAttempt
  <2> QED
    BY <1>1, <2>2 DEF ReadingInv, ChainKept, Rival
<1>7. MoneyKept'
  BY <1>5 DEF ReadingInv, MoneyKept
<1>8. \A c : ClaimHolds(c) => ClaimHolds(c)'
  BY <1>1, <1>2, <1>3 DEF ClaimHolds
<1>9. \A o : ObligationHolds(o) => ObligationHolds(o)'
  <2>1. \A t : Completion(t)' = Completion(t)
    BY <1>1 DEF Completion
  <2> QED
    BY <1>1, <2>1 DEF ObligationHolds
<1>10. \A id, r : ApprovalHolds(id, r) => ApprovalHolds(id, r)'
  BY <1>1 DEF ApprovalHolds
<1>11. \A id, r : ProposalHolds(id, r) => ProposalHolds(id, r)'
  BY <1>1, <1>2 DEF ProposalHolds
<1>12. \A id, r : TerminalHolds(id, r) => TerminalHolds(id, r)'
  <2>1. \A id, i, type : Says(id, i, type)' = Says(id, i, type)
    BY <1>1 DEF Says
  <2>2. \A id, type : Count(id, type)' = Count(id, type)
    BY <1>1, <2>1 DEF Count, Says
  <2> QED
    BY <1>1, <2>1, <2>2 DEF TerminalHolds
<1> QED
  BY <1>1, <1>5, <1>6, <1>7, <1>8, <1>9, <1>10, <1>11, <1>12

\* The bindings of an effect to its approval rest on the approvals only.
LEMMA BindingsStay ==
  ASSUME ReadingInv, log' = log, seal'.approvals = seal.approvals
  PROVE  /\ \A id, r : ApprovalFits(id, r) => ApprovalFits(id, r)'
         /\ \A id, r : CommitHolds(id, r) => CommitHolds(id, r)'
<1>1. \A id, r : ApprovalFits(id, r) => ApprovalFits(id, r)'
  BY DEF ApprovalFits
<1>2. \A id, r : CommitHolds(id, r) => CommitHolds(id, r)'
  BY DEF CommitHolds
<1> QED
  BY <1>1, <1>2

Recorded(id, r) ==
  /\ phase \in {"effects", "accepted"} /\ id \in Touched
  /\ ProposalHolds(id, r) /\ TerminalHolds(id, r) /\ ApprovalFits(id, r) /\ CommitHolds(id, r)
  /\ r.commit \in {0} \union Positions /\ r.terminal \in {0} \union Positions

\* An effect's record stays read as long as the approvals are the same.
LEMMA RecordsStay ==
  ASSUME ReadingInv, log' = log, forger' = forger, seal'.approvals = seal.approvals,
         phase' \in {"effects", "accepted"}, NEW id, NEW r, Recorded(id, r)
  PROVE  Recorded(id, r)'
BY ChainStays, BindingsStay DEF Recorded

\* The end of the chain adds that nothing is outstanding.
LEMMA EndKeeps ==
  ASSUME ReadingInv, EndEvents
  PROVE  ReadingInv'
<1>1. /\ phase = "events" /\ Outstanding = 0 /\ phase' = "records"
      /\ forger' = forger /\ log' = log /\ seal' = seal
  BY DEF EndEvents
<1>2. ChainKept' /\ MoneyKept' /\ Outstanding' = 0
  BY <1>1, ChainStays
<1>3. /\ seal.claims = {} /\ seal.obligations = {} /\ DOMAIN seal.approvals = {}
      /\ DOMAIN seal.effects = {} /\ DOMAIN seal = {"claims", "obligations", "approvals", "effects"}
  BY <1>1 DEF ReadingInv, SealKept
<1>4. SealKept'
  BY <1>1, <1>2, <1>3 DEF SealKept, Phases
<1> QED
  BY <1>2, <1>4 DEF ReadingInv

\* Reading the claims adds that they hold.
LEMMA ClaimsKeep ==
  ASSUME ReadingInv, ReadClaims
  PROVE  ReadingInv'
<1>1. PICK C \in forger.claims : (\A c \in C : ClaimHolds(c)) /\ seal' = [seal EXCEPT !.claims = C]
  BY DEF ReadClaims
<1>2. phase = "records" /\ phase' = "obligations" /\ forger' = forger /\ log' = log
  BY DEF ReadClaims
<1>3. SealKept
  BY DEF ReadingInv
<1>4. /\ DOMAIN seal' = {"claims", "obligations", "approvals", "effects"}
      /\ seal'.claims = C /\ seal'.obligations = seal.obligations
      /\ seal'.approvals = seal.approvals /\ seal'.effects = seal.effects
  BY <1>1, <1>3 DEF SealKept
<1>5. DOMAIN seal.effects = {} /\ Outstanding = 0
  BY <1>2, <1>3 DEF SealKept
<1>6. SealKept'
  BY <1>1, <1>2, <1>3, <1>4, <1>5, ChainStays DEF SealKept, Phases
<1> QED
  BY <1>2, <1>6, ChainStays DEF ReadingInv

\* Reading the obligations adds that they hold.
LEMMA ObligationsKeep ==
  ASSUME ReadingInv, ReadObligations
  PROVE  ReadingInv'
<1>1. PICK D \in forger.obligations : (\A o \in D : ObligationHolds(o)) /\ seal' = [seal EXCEPT !.obligations = D]
  BY DEF ReadObligations
<1>2. phase = "obligations" /\ phase' = "approvals" /\ forger' = forger /\ log' = log
  BY DEF ReadObligations
<1>3. SealKept
  BY DEF ReadingInv
<1>4. /\ DOMAIN seal' = {"claims", "obligations", "approvals", "effects"}
      /\ seal'.claims = seal.claims /\ seal'.obligations = D
      /\ seal'.approvals = seal.approvals /\ seal'.effects = seal.effects
  BY <1>1, <1>3 DEF SealKept
<1>5. DOMAIN seal.effects = {} /\ Outstanding = 0
  BY <1>2, <1>3 DEF SealKept
<1>6. SealKept'
  BY <1>1, <1>2, <1>3, <1>4, <1>5, ChainStays DEF SealKept, Phases
<1> QED
  BY <1>2, <1>6, ChainStays DEF ReadingInv

\* Reading an approval adds that its grant binds it.
LEMMA ApprovalKeeps ==
  ASSUME ReadingInv, ReadApproval
  PROVE  ReadingInv'
<1> DEFINE Adds(key, r) == /\ ApprovalHolds(key, r)
                           /\ seal' = [seal EXCEPT !.approvals =
                                [k \in DOMAIN @ \union {key} |-> IF k = key THEN r ELSE @[k]]]
<1>0. PICK key \in Granted \ DOMAIN seal.approvals, x \in forger.approvals, i \in Positions :
        Adds(key, [effect |-> x.effect, scope |-> x.scope, grant |-> i])
  BY Zenon DEF ReadApproval
<1> PICK r : r = [effect |-> x.effect, scope |-> x.scope, grant |-> i]
  OBVIOUS
<1>1. /\ ApprovalHolds(key, r)
      /\ seal' = [seal EXCEPT !.approvals =
                    [k \in DOMAIN @ \union {key} |-> IF k = key THEN r ELSE @[k]]]
  BY <1>0, Zenon
<1>2. phase = "approvals" /\ phase' = phase /\ forger' = forger /\ log' = log
  BY DEF ReadApproval
<1>3. SealKept
  BY DEF ReadingInv
<1>4. /\ DOMAIN seal' = {"claims", "obligations", "approvals", "effects"}
      /\ seal'.claims = seal.claims /\ seal'.obligations = seal.obligations
      /\ seal'.effects = seal.effects
      /\ seal'.approvals = [k \in DOMAIN seal.approvals \union {key} |->
                              IF k = key THEN r ELSE seal.approvals[k]]
  BY <1>1, <1>3 DEF SealKept
<1>5. DOMAIN seal.effects = {} /\ Outstanding = 0
  BY <1>2, <1>3 DEF SealKept
<1>6. \A id \in DOMAIN seal'.approvals : ApprovalHolds(id, seal'.approvals[id])
  BY <1>1, <1>3, <1>4 DEF SealKept
<1>7. SealKept'
  <2>1. \A id \in DOMAIN seal'.approvals : ApprovalHolds(id, seal.approvals[id])'
    BY <1>2, <1>6, ChainStays DEF ApprovalHolds, Positions
  <2> QED
    BY <1>2, <1>3, <1>4, <1>5, <2>1, ChainStays DEF SealKept, Phases
<1> QED
  BY <1>2, <1>7, ChainStays DEF ReadingInv

\* The end of the approvals adds that every grant has its record.
LEMMA EndApprovalsKeeps ==
  ASSUME ReadingInv, EndApprovals
  PROVE  ReadingInv'
<1>1. /\ phase = "approvals" /\ Granted = DOMAIN seal.approvals /\ phase' = "effects"
      /\ forger' = forger /\ log' = log /\ seal' = seal
  BY DEF EndApprovals
<1>2. SealKept
  BY DEF ReadingInv
<1>3. DOMAIN seal.effects = {} /\ Outstanding = 0
  BY <1>1, <1>2 DEF SealKept
<1>4. SealKept'
  BY <1>1, <1>2, <1>3, ChainStays DEF SealKept, Phases
<1> QED
  BY <1>1, <1>4, ChainStays DEF ReadingInv

\* Reading an effect adds what its record was held to.
LEMMA EffectKeeps ==
  ASSUME ReadingInv, ReadEffect
  PROVE  ReadingInv'
<1>1. PICK key \in Touched \ DOMAIN seal.effects, x \in forger.effects :
        \E i \in {j \in Positions : Says(key, j, "effect.proposed")},
           c, t \in {0} \union {j \in Positions : log[j].type \in EffectEvents \ {"effect.proposed"}} :
          LET r == [class |-> x.class, task |-> x.task, payload |-> x.payload, approval |-> x.approval,
                    state |-> x.state, proposed |-> i, commit |-> c, terminal |-> t]
          IN /\ ProposalHolds(key, r) /\ TerminalHolds(key, r) /\ ApprovalFits(key, r) /\ CommitHolds(key, r)
             /\ seal' = [seal EXCEPT !.effects =
                           [k \in DOMAIN @ \union {key} |-> IF k = key THEN r ELSE @[k]]]
  BY DEF ReadEffect
<1>2. PICK i \in {j \in Positions : Says(key, j, "effect.proposed")},
           c, t \in {0} \union {j \in Positions : log[j].type \in EffectEvents \ {"effect.proposed"}} :
          LET r == [class |-> x.class, task |-> x.task, payload |-> x.payload, approval |-> x.approval,
                    state |-> x.state, proposed |-> i, commit |-> c, terminal |-> t]
          IN /\ ProposalHolds(key, r) /\ TerminalHolds(key, r) /\ ApprovalFits(key, r) /\ CommitHolds(key, r)
             /\ seal' = [seal EXCEPT !.effects =
                           [k \in DOMAIN @ \union {key} |-> IF k = key THEN r ELSE @[k]]]
  BY <1>1
<1> DEFINE r == [class |-> x.class, task |-> x.task, payload |-> x.payload, approval |-> x.approval,
                 state |-> x.state, proposed |-> i, commit |-> c, terminal |-> t]
<1>3. /\ ProposalHolds(key, r) /\ TerminalHolds(key, r) /\ ApprovalFits(key, r) /\ CommitHolds(key, r)
      /\ seal' = [seal EXCEPT !.effects =
                    [k \in DOMAIN @ \union {key} |-> IF k = key THEN r ELSE @[k]]]
  BY <1>2, Zenon
<1>4. r.commit \in {0} \union Positions /\ r.terminal \in {0} \union Positions
  OBVIOUS
<1> HIDE DEF r
<1>5. phase = "effects" /\ phase' = phase /\ forger' = forger /\ log' = log
  BY DEF ReadEffect
<1>6. SealKept
  BY DEF ReadingInv
<1>7. /\ DOMAIN seal' = {"claims", "obligations", "approvals", "effects"}
      /\ seal'.claims = seal.claims /\ seal'.obligations = seal.obligations
      /\ seal'.approvals = seal.approvals
      /\ seal'.effects = [k \in DOMAIN seal.effects \union {key} |-> IF k = key THEN r ELSE seal.effects[k]]
  BY <1>3, <1>6 DEF SealKept
<1>9. Recorded(key, r)
  BY <1>3, <1>4, <1>5 DEF Recorded
<1>10. \A id \in DOMAIN seal.effects : Recorded(id, seal.effects[id])
  BY <1>6 DEF SealKept, Recorded
<1>11. \A id \in DOMAIN seal'.effects : Recorded(id, seal.effects[id])'
  BY <1>5, <1>7, <1>9, <1>10, RecordsStay
<1>12. SealKept'
  BY <1>5, <1>6, <1>7, <1>11, ChainStays DEF SealKept, Phases, Recorded
<1> QED
  BY <1>5, <1>12, ChainStays DEF ReadingInv

\* Acceptance adds that each approval is used once.
LEMMA AcceptKeeps ==
  ASSUME ReadingInv, Accept
  PROVE  ReadingInv'
<1>1. /\ phase = "effects" /\ phase' = "accepted" /\ forger' = forger /\ log' = log /\ seal' = seal
      /\ \A a \in DOMAIN seal.approvals : Cardinality(UsesOf(a)) = 1
  BY DEF Accept
<1>2. SealKept
  BY DEF ReadingInv
<1>3. \A id \in DOMAIN seal.effects : Recorded(id, seal.effects[id])'
  BY <1>1, <1>2, RecordsStay DEF SealKept, Recorded
<1>4. (\A a \in DOMAIN seal.approvals : Cardinality(UsesOf(a)) = 1)'
  BY <1>1 DEF UsesOf
<1>5. SealKept'
  BY <1>1, <1>2, <1>3, <1>4, ChainStays DEF SealKept, Phases, Recorded
<1> QED
  BY <1>1, <1>5, ChainStays DEF ReadingInv

\* What the verifier has read it knows, at every point of the reading.
THEOREM ReadingIsSound == VerifySpec => []ReadingInv
<1>1. VerifyInit => ReadingInv
  BY ReadingStarts
<1>2. ReadingInv /\ [VerifyNext]_packageVars => ReadingInv'
  <2> SUFFICES ASSUME ReadingInv, [VerifyNext]_packageVars PROVE ReadingInv'
    OBVIOUS
  <2>1. CASE ReadEvent
    BY <2>1, ChainGrows, MoneyGrows, SealWaits DEF ReadingInv
  <2>2. CASE EndEvents
    BY <2>2, EndKeeps
  <2>3. CASE ReadClaims
    BY <2>3, ClaimsKeep
  <2>4. CASE ReadObligations
    BY <2>4, ObligationsKeep
  <2>5. CASE ReadApproval
    BY <2>5, ApprovalKeeps
  <2>6. CASE EndApprovals
    BY <2>6, EndApprovalsKeeps
  <2>7. CASE ReadEffect
    BY <2>7, EffectKeeps
  <2>8. CASE Accept
    BY <2>8, AcceptKeeps
  <2>9. CASE UNCHANGED packageVars
    <3>1. log' = log /\ forger' = forger /\ phase' = phase /\ seal' = seal
      BY <2>9 DEF packageVars
    <3>2. SealKept'
      <4>1. SealKept
        BY DEF ReadingInv
      <4>2. \A id \in DOMAIN seal.effects : Recorded(id, seal.effects[id])'
        BY <3>1, <4>1, RecordsStay DEF SealKept, Recorded
      <4>3. \A a : UsesOf(a)' = UsesOf(a)
        BY <3>1 DEF UsesOf
      <4> QED
        BY <3>1, <4>1, <4>2, <4>3, ChainStays DEF SealKept, Recorded
    <3> QED
      BY <3>1, <3>2, ChainStays DEF ReadingInv
  <2> QED
    BY <2>1, <2>2, <2>3, <2>4, <2>5, <2>6, <2>7, <2>8, <2>9 DEF VerifyNext
<1> QED
  BY <1>1, <1>2, PTL DEF VerifySpec

-----------------------------------------------------------------------------
(* The life of an effect in an accepted package.                           *)

NewLife == [status |-> "new", by |-> None]

LifeStep(l, id, i, s) == IF l[i].effect = id THEN Lives(s, l[i]) ELSE s

\* g is the recursive function of Life; as far as n, it satisfies its equations.
LifeLike(g, l, id) ==
  g = [i \in 0..Len(l) |-> IF i = 0 THEN NewLife ELSE LifeStep(l, id, i, g[i - 1])]

Partial(g, l, id, n) ==
  /\ DOMAIN g = 0..n /\ g[0] = NewLife
  /\ \A i \in 1..n : g[i] = LifeStep(l, id, i, g[i - 1])

\* A life can be followed as far as the log goes.
LEMMA LivesExist ==
  ASSUME NEW l, Len(l) \in Nat, NEW id, NEW n \in 0..Len(l)
  PROVE  \E g : Partial(g, l, id, n)
<1> DEFINE Bad == {k \in 0..Len(l) : ~ \E g : Partial(g, l, id, k)}
<1>1. SUFFICES ASSUME Bad # {} PROVE FALSE
  OBVIOUS
<1>2. PICK k \in Bad : \A m \in Bad : k <= m
  <2>1. Bad \in SUBSET Nat
    OBVIOUS
  <2> QED
    BY <1>1, <2>1, LeastNumber
<1>3. k \in 0..Len(l) /\ ~ \E g : Partial(g, l, id, k)
  OBVIOUS
<1>4. CASE k = 0
  <2> DEFINE g == [i \in 0..0 |-> NewLife]
  <2>1. Partial(g, l, id, 0)
    BY DEF Partial
  <2> QED
    BY <1>3, <1>4, <2>1
<1>5. CASE k # 0
  <2>1. k - 1 \in 0..Len(l) /\ k - 1 \notin Bad
    BY <1>2, <1>3, <1>5
  <2>2. PICK h : Partial(h, l, id, k - 1)
    BY <2>1
  <2> DEFINE g == [i \in 0..k |-> IF i = k THEN LifeStep(l, id, k, h[k - 1]) ELSE h[i]]
  <2>3. k \in Nat /\ k > 0
    BY <1>3, <1>5
  <2>4. DOMAIN g = 0..k /\ g[0] = NewLife /\ g[k] = LifeStep(l, id, k, h[k - 1])
        /\ \A i \in 0..(k - 1) : g[i] = h[i]
    BY <2>2, <2>3 DEF Partial
  <2> HIDE DEF g
  <2>5. ASSUME NEW i \in 1..k PROVE g[i] = LifeStep(l, id, i, g[i - 1])
    <3>1. CASE i = k
      <4>1. k - 1 \in 0..(k - 1) /\ i - 1 = k - 1
        BY <2>3, <3>1
      <4> QED
        BY <2>4, <3>1, <4>1
    <3>2. CASE i # k
      <4>1. i \in 1..(k - 1) /\ i \in 0..(k - 1) /\ i - 1 \in 0..(k - 1)
        BY <2>3, <3>2
      <4>2. h[i] = LifeStep(l, id, i, h[i - 1])
        BY <2>2, <4>1 DEF Partial
      <4> QED
        BY <2>4, <4>1, <4>2
    <3> QED
      BY <3>1, <3>2
  <2>6. Partial(g, l, id, k)
    BY <2>4, <2>5 DEF Partial
  <2> QED
    BY <1>3, <2>6
<1> QED
  BY <1>4, <1>5

\* Life follows the events one by one.
LEMMA LifeUnfolds ==
  ASSUME NEW l, Len(l) \in Nat, NEW id
  PROVE  /\ Life(l, id)[0] = NewLife
         /\ \A i \in 1..Len(l) : Life(l, id)[i] = LifeStep(l, id, i, Life(l, id)[i - 1])
<1>1. Life(l, id) = CHOOSE g : LifeLike(g, l, id)
  BY DEF Life, LifeLike, LifeStep, NewLife
<1>2. PICK h : Partial(h, l, id, Len(l))
  BY LivesExist
<1> DEFINE g == [i \in 0..Len(l) |-> h[i]]
<1>3. g = [i \in 0..Len(l) |-> IF i = 0 THEN NewLife ELSE LifeStep(l, id, i, g[i - 1])]
  <2>1. ASSUME NEW i \in 0..Len(l)
        PROVE  h[i] = IF i = 0 THEN NewLife ELSE LifeStep(l, id, i, g[i - 1])
    <3>1. CASE i = 0
      BY <1>2, <3>1 DEF Partial
    <3>2. CASE i # 0
      <4>1. i \in 1..Len(l) /\ i - 1 \in 0..Len(l)
        BY <3>2
      <4>2. g[i - 1] = h[i - 1]
        BY <4>1
      <4> QED
        BY <1>2, <3>2, <4>1, <4>2 DEF Partial
    <3> QED
      BY <3>1, <3>2
  <2> QED
    BY <2>1
<1>4. LifeLike(g, l, id)
  BY <1>3 DEF LifeLike
<1> HIDE DEF g
<1>5. LifeLike(Life(l, id), l, id)
  BY <1>1, <1>4, Zenon
<1> DEFINE L == Life(l, id)
<1>6. L = [i \in 0..Len(l) |-> IF i = 0 THEN NewLife ELSE LifeStep(l, id, i, L[i - 1])]
  BY <1>5 DEF LifeLike
<1> HIDE DEF L
<1>7. L[0] = NewLife
  <2>1. 0 \in 0..Len(l)
    OBVIOUS
  <2> QED
    BY <1>6, <2>1
<1>8. ASSUME NEW i \in 1..Len(l) PROVE L[i] = LifeStep(l, id, i, L[i - 1])
  <2>1. i \in 0..Len(l) /\ i # 0
    OBVIOUS
  <2> QED
    BY <1>6, <2>1
<1> QED
  BY <1>7, <1>8 DEF L

\* The events of an effect with this record: a proposal at r.proposed, a grant
\* at g unless that is 0, and the ends the record names.
Milestones(id, r, g) ==
  /\ r.proposed \in Positions /\ log[r.proposed].type = "effect.proposed" /\ log[r.proposed].effect = id
  /\ g \in {0} \union Positions
  /\ g # 0 => /\ r.proposed < g /\ log[g].type = "approval.granted" /\ log[g].effect = id
              /\ log[g].approval # None
  /\ r.state \in {"committed", "compensated"} =>
       /\ r.commit \in Positions /\ log[r.commit].type = "effect.committed" /\ log[r.commit].effect = id
       /\ r.proposed < r.commit /\ g < r.commit
       /\ log[r.commit].approval = IF g = 0 THEN None ELSE log[g].approval
  /\ r.state = "aborted" =>
       /\ r.terminal \in Positions /\ log[r.terminal].type = "effect.aborted" /\ log[r.terminal].effect = id
       /\ r.proposed < r.terminal
  /\ r.state = "compensated" =>
       /\ r.terminal \in Positions /\ log[r.terminal].type = "effect.compensated" /\ log[r.terminal].effect = id
       /\ r.commit < r.terminal
  /\ \A i \in Positions : log[i].effect = id =>
       \/ i = r.proposed
       \/ i = g
       \/ i = r.commit /\ r.state \in {"committed", "compensated"}
       \/ i = r.terminal /\ r.state \in {"aborted", "compensated"}

GrantOf(r) == IF r.approval = None THEN 0 ELSE seal.approvals[r.approval].grant

\* A grant of an accepted package is used by the effect it is for.
LEMMA GrantsAreUsed ==
  ASSUME ReadingInv, Accepted, NEW i \in Positions, log[i].type = "approval.granted",
         log[i].effect \in DOMAIN seal.effects
  PROVE  seal.effects[log[i].effect].approval = log[i].approval /\ log[i].approval # None
         /\ seal.approvals[log[i].approval].grant = i
<1> PICK a : a = log[i].approval
  OBVIOUS
<1>1. ChainKept /\ SealKept /\ phase = "accepted"
  BY DEF ReadingInv, Accepted
<1>2. a # None
  BY <1>1 DEF ChainKept, Grounded, IdentityShape
<1>3. a \in DOMAIN seal.approvals
  BY <1>1 DEF SealKept, Granted
<1> PICK q : q = seal.approvals[a]
  OBVIOUS
<1>4. q.grant \in Positions /\ log[q.grant].type = "approval.granted" /\ log[q.grant].approval = a
      /\ log[q.grant].effect = q.effect
  BY <1>1, <1>3 DEF SealKept, ApprovalHolds
<1>5. q.grant = i
  BY <1>1, <1>4 DEF ChainKept, Rival
<1>6. PICK k \in UsesOf(a) : TRUE
  <2>1. Cardinality(UsesOf(a)) = 1
    BY <1>1, <1>3 DEF SealKept
  <2> QED
    BY <2>1, FS_EmptySet
<1>7. k \in DOMAIN seal.effects /\ seal.effects[k].approval = a
  BY DEF UsesOf
<1>8. q.effect = k
  <2>1. ApprovalFits(k, seal.effects[k])
    BY <1>1, <1>7 DEF SealKept
  <2> QED
    BY <1>2, <1>7, <2>1 DEF ApprovalFits
<1> QED
  BY <1>2, <1>4, <1>5, <1>7, <1>8

\* The record of an effect in an accepted package names all its events.
LEMMA RecordsNameAll ==
  ASSUME ReadingInv, Accepted, NEW id \in DOMAIN seal.effects, NEW r, r = seal.effects[id]
  PROVE  /\ Milestones(id, r, GrantOf(r)) /\ r.state \in EffectStates
         /\ (r.class = "irreversible_write" /\ r.commit # 0) =>
              GrantOf(r) # 0 /\ r.state \in {"committed", "compensated"}
<1>1. ChainKept /\ SealKept /\ phase = "accepted"
  BY DEF ReadingInv, Accepted
<1>2. /\ id \in Touched /\ ProposalHolds(id, r) /\ TerminalHolds(id, r) /\ ApprovalFits(id, r) /\ CommitHolds(id, r)
      /\ r.commit \in {0} \union Positions /\ r.terminal \in {0} \union Positions
  BY <1>1 DEF SealKept
<1>3. 0 \notin Positions /\ Positions = 1..Len(log) /\ Len(log) \in Nat
  BY <1>1, PlacesAreKnown DEF ChainKept, Positions
<1>4. \A i \in Positions : \A j \in log[i].causes : j \in Int /\ j < i
  BY <1>1, <1>3 DEF ChainKept, Grounded
<1>5. r.proposed \in Positions /\ log[r.proposed].type = "effect.proposed" /\ log[r.proposed].effect = id
  BY <1>2 DEF ProposalHolds
<1>6. r.state \in EffectStates
  BY <1>2 DEF TerminalHolds
<1> PICK g : g = GrantOf(r)
  OBVIOUS
<1>7. g # 0 => /\ r.approval # None /\ r.approval \in DOMAIN seal.approvals /\ g = seal.approvals[r.approval].grant
  BY <1>2 DEF GrantOf, ApprovalFits
<1>8. r.approval # None => /\ g \in Positions /\ r.proposed < g /\ log[g].type = "approval.granted" /\ log[g].effect = id
                           /\ log[g].approval = r.approval
  <2>1. SUFFICES ASSUME r.approval # None
                 PROVE /\ g \in Positions /\ r.proposed < g /\ log[g].type = "approval.granted" /\ log[g].effect = id
                       /\ log[g].approval = r.approval
    OBVIOUS
  <2> PICK q : q = seal.approvals[r.approval]
    OBVIOUS
  <2>2. r.approval \in DOMAIN seal.approvals /\ q.effect = id /\ q.grant > r.proposed
    BY <1>2, <2>1 DEF ApprovalFits
  <2>3. ApprovalHolds(r.approval, q)
    BY <1>1, <2>2 DEF SealKept
  <2>4. g = q.grant
    BY <2>1 DEF GrantOf
  <2> QED
    BY <1>3, <1>5, <2>2, <2>3, <2>4 DEF ApprovalHolds
<1>9. g \in {0} \union Positions /\ (r.approval = None => g = 0)
  BY <1>8 DEF GrantOf
<1>10. r.state \in {"committed", "compensated"} =>
       /\ r.commit \in Positions /\ log[r.commit].type = "effect.committed" /\ log[r.commit].effect = id
       /\ r.proposed < r.commit /\ g < r.commit
       /\ log[r.commit].approval = IF g = 0 THEN None ELSE log[g].approval
  <2>1. SUFFICES ASSUME r.state \in {"committed", "compensated"}
                 PROVE /\ r.commit \in Positions /\ log[r.commit].type = "effect.committed" /\ log[r.commit].effect = id
                       /\ r.proposed < r.commit /\ g < r.commit
                       /\ log[r.commit].approval = IF g = 0 THEN None ELSE log[g].approval
    OBVIOUS
  <2>2. r.commit \in Positions /\ log[r.commit].type = "effect.committed"
    BY <1>2, <2>1 DEF TerminalHolds, Says
  <2>3. r.commit # 0
    BY <1>3, <2>2
  <2>4. /\ log[r.commit].effect = id /\ log[r.commit].approval = r.approval
        /\ r.proposed \in log[r.commit].causes
        /\ r.approval # None => seal.approvals[r.approval].grant \in log[r.commit].causes
    BY <1>2, <2>3 DEF CommitHolds
  <2>5. r.proposed < r.commit
    BY <1>4, <2>2, <2>4
  <2>6. g < r.commit
    <3>1. CASE g = 0
      BY <1>3, <2>2, <3>1
    <3>2. CASE g # 0
      BY <1>4, <1>7, <2>2, <2>4, <3>2
    <3> QED
      BY <3>1, <3>2
  <2>7. log[r.commit].approval = IF g = 0 THEN None ELSE log[g].approval
    BY <1>3, <1>7, <1>8, <1>9, <2>4
  <2> QED
    BY <2>2, <2>4, <2>5, <2>6, <2>7
<1>11. r.state = "aborted" =>
       /\ r.terminal \in Positions /\ log[r.terminal].type = "effect.aborted" /\ log[r.terminal].effect = id
       /\ r.proposed < r.terminal
  BY <1>2, <1>4 DEF TerminalHolds, Says, CommitHolds
<1>12. r.state = "compensated" =>
       /\ r.terminal \in Positions /\ log[r.terminal].type = "effect.compensated" /\ log[r.terminal].effect = id
       /\ r.commit < r.terminal
  BY <1>2, <1>4 DEF TerminalHolds, Says, CommitHolds
<1>13. ASSUME NEW i \in Positions, log[i].effect = id
       PROVE \/ i = r.proposed
             \/ i = g
             \/ i = r.commit /\ r.state \in {"committed", "compensated"}
             \/ i = r.terminal /\ r.state \in {"aborted", "compensated"}
  <2>1. id # None
    <3>1. PICK j \in Positions : log[j].type \in EffectEvents /\ log[j].effect = id
      BY <1>2 DEF Touched
    <3> QED
      BY <1>1, <3>1 DEF ChainKept, Grounded, IdentityShape
  <2>2. log[i].type \in EffectEvents \union {"approval.granted"}
    <3>1. log[i].type \in EventTypes /\ IdentityShape(log[i])
      BY <1>1 DEF ChainKept, Grounded
    <3> QED
      BY <1>13, <2>1, <3>1 DEF IdentityShape, EventTypes
  <2>3. ASSUME NEW type, Count(id, type) = 0 PROVE ~Says(id, i, type)
    <3> DEFINE S == {j \in Positions : Says(id, j, type)}
    <3>1. IsFiniteSet(S)
      <4>1. IsFiniteSet(1..Len(log))
        BY <1>3, FS_Interval
      <4>2. S \in SUBSET (1..Len(log))
        BY <1>3
      <4> QED
        BY <4>1, <4>2, FS_Subset
    <3>2. S = {}
      BY <2>3, <3>1, FS_EmptySet DEF Count
    <3> QED
      BY <3>2
  <2>4. ASSUME NEW j \in Positions, log[j].effect = id, log[i].type = log[j].type, log[i].type \in EffectEvents
        PROVE  i = j
    BY <1>1, <1>13, <2>4 DEF ChainKept, Rival
  <2>5. CASE log[i].type = "effect.proposed"
    BY <1>5, <2>4, <2>5 DEF EffectEvents
  <2>6. CASE log[i].type = "effect.committed"
    <3>1. r.state \in {"committed", "compensated"}
      <4>1. SUFFICES ASSUME r.state \notin {"committed", "compensated"} PROVE FALSE
        OBVIOUS
      <4>2. Count(id, "effect.committed") = 0
        BY <1>2, <4>1 DEF TerminalHolds
      <4> QED
        BY <1>13, <2>3, <2>6, <4>2 DEF Says
    <3> QED
      BY <1>10, <2>4, <2>6, <3>1 DEF EffectEvents
  <2>7. CASE log[i].type = "effect.aborted"
    <3>1. r.state = "aborted"
      <4>1. SUFFICES ASSUME r.state # "aborted" PROVE FALSE
        OBVIOUS
      <4>2. Count(id, "effect.aborted") = 0
        BY <1>2, <4>1 DEF TerminalHolds
      <4> QED
        BY <1>13, <2>3, <2>7, <4>2 DEF Says
    <3> QED
      BY <1>11, <2>4, <2>7, <3>1 DEF EffectEvents
  <2>8. CASE log[i].type = "effect.compensated"
    <3>1. r.state = "compensated"
      <4>1. SUFFICES ASSUME r.state # "compensated" PROVE FALSE
        OBVIOUS
      <4>2. Count(id, "effect.compensated") = 0
        BY <1>2, <4>1 DEF TerminalHolds
      <4> QED
        BY <1>13, <2>3, <2>8, <4>2 DEF Says
    <3> QED
      BY <1>12, <2>4, <2>8, <3>1 DEF EffectEvents
  <2>9. CASE log[i].type = "approval.granted"
    BY <1>13, <2>9, GrantsAreUsed DEF GrantOf
  <2> QED
    BY <2>2, <2>5, <2>6, <2>7, <2>8, <2>9 DEF EffectEvents
<1>14. Milestones(id, r, g)
  BY <1>5, <1>7, <1>8, <1>9, <1>10, <1>11, <1>12, <1>13 DEF Milestones
<1>15. (r.class = "irreversible_write" /\ r.commit # 0) => g # 0 /\ r.state \in {"committed", "compensated"}
  <2>1. SUFFICES ASSUME r.class = "irreversible_write", r.commit # 0
                 PROVE  g # 0 /\ r.state \in {"committed", "compensated"}
    OBVIOUS
  <2>2. r.approval # None
    BY <1>2, <2>1 DEF CommitHolds
  <2>3. g # 0
    BY <1>3, <1>8, <2>2
  <2>4. r.state \in {"committed", "compensated"}
    BY <1>2, <2>1 DEF TerminalHolds, EffectStates
  <2> QED
    BY <2>3, <2>4
<1> QED
  BY <1>6, <1>14, <1>15

\* How far the effect has come after n events.
StatusAt(r, n) ==
  IF n < r.proposed THEN "new"
  ELSE IF r.state \in {"aborted", "compensated"} /\ n >= r.terminal THEN r.state
  ELSE IF r.state \in {"committed", "compensated"} /\ n >= r.commit THEN "committed"
  ELSE "proposed"

GrantedBy(g, n) == IF g # 0 /\ n >= g THEN log[g].approval ELSE None

\* The life goes through the milestones in their order.
LEMMA LifeIsLed ==
  ASSUME ReadingInv, NEW id, NEW r, NEW g, Milestones(id, r, g), r.state \in EffectStates,
         NEW n \in 0..Len(log)
  PROVE  Life(log, id)[n] = [status |-> StatusAt(r, n), by |-> GrantedBy(g, n)]
<1> DEFINE L == Life(log, id)
           Due(k) == [status |-> StatusAt(r, k), by |-> GrantedBy(g, k)]
           Bad == {k \in 0..Len(log) : L[k] # Due(k)}
<1>1. SUFFICES ASSUME Bad # {} PROVE FALSE
  OBVIOUS
<1>2. /\ Len(log) \in Nat /\ Positions = 1..Len(log)
  BY DEF ReadingInv, ChainKept, Positions
<1>3. L[0] = NewLife /\ \A i \in 1..Len(log) : L[i] = LifeStep(log, id, i, L[i - 1])
  BY <1>2, LifeUnfolds
<1>4. PICK k \in Bad : \A m \in Bad : k <= m
  <2>1. Bad \in SUBSET Nat
    BY <1>2
  <2> QED
    BY <1>1, <2>1, LeastNumber
<1>5. k \in 0..Len(log) /\ L[k] # Due(k)
  OBVIOUS
<1> HIDE DEF L
<1>6. /\ r.proposed \in 1..Len(log) /\ g \in 0..Len(log)
      /\ r.state \in {"committed", "compensated"} => r.commit \in 1..Len(log)
      /\ r.state \in {"aborted", "compensated"} => r.terminal \in 1..Len(log)
  BY <1>2 DEF Milestones
<1>7. CASE k = 0
  <2>1. StatusAt(r, 0) = "new" /\ GrantedBy(g, 0) = None
    BY <1>6 DEF StatusAt, GrantedBy
  <2> QED
    BY <1>3, <1>5, <1>7, <2>1 DEF NewLife
<1>8. CASE k # 0
  <2>1. k \in 1..Len(log) /\ k - 1 \in 0..Len(log) /\ k - 1 \notin Bad
    BY <1>2, <1>4, <1>5, <1>8
  <2>2. L[k] = LifeStep(log, id, k, Due(k - 1))
    BY <1>3, <2>1
  <2> PICK e, s, w : e = log[k] /\ s = StatusAt(r, k - 1) /\ w = GrantedBy(g, k - 1)
    OBVIOUS
  <2>3. L[k] = IF e.effect = id THEN Lives([status |-> s, by |-> w], e) ELSE [status |-> s, by |-> w]
    BY <2>2 DEF LifeStep
  <2>4. k \in Int /\ k - 1 \in Int
    BY <2>1
  <2>5. CASE e.effect # id
    <3>1. /\ k # r.proposed /\ k # g
          /\ r.state \in {"committed", "compensated"} => k # r.commit
          /\ r.state \in {"aborted", "compensated"} => k # r.terminal
      BY <1>6, <2>1, <2>5 DEF Milestones
    <3>2. StatusAt(r, k) = s
      BY <1>6, <2>1, <3>1 DEF StatusAt
    <3>3. GrantedBy(g, k) = w
      BY <1>6, <2>1, <3>1 DEF GrantedBy
    <3> QED
      BY <1>5, <2>3, <2>5, <3>2, <3>3
  <2>6. CASE e.effect = id
    <3>1. L[k] = Lives([status |-> s, by |-> w], e)
      BY <2>3, <2>6
    <3>2. CASE k = r.proposed
      <4>1. e.type = "effect.proposed"
        BY <3>2 DEF Milestones
      <4>2. s = "new" /\ StatusAt(r, k) = "proposed"
        BY <1>6, <2>1, <3>2 DEF StatusAt, Milestones
      <4>3. GrantedBy(g, k) = w
        BY <1>6, <2>1, <3>2 DEF GrantedBy, Milestones
      <4> QED
        BY <1>5, <3>1, <4>1, <4>2, <4>3 DEF Lives
    <3>3. CASE k = g
      <4>1. e.type = "approval.granted" /\ g # 0 /\ r.proposed < g
        BY <1>8, <3>3 DEF Milestones
      <4>2. w = None /\ GrantedBy(g, k) = e.approval
        BY <1>6, <2>1, <3>3, <4>1 DEF GrantedBy
      <4>3. s \in {"proposed", "aborted"} /\ StatusAt(r, k) = s
        BY <1>6, <2>1, <3>3, <4>1 DEF StatusAt, Milestones, EffectStates
      <4> QED
        BY <1>5, <3>1, <4>1, <4>2, <4>3 DEF Lives
    <3>4. CASE k = r.commit /\ r.state \in {"committed", "compensated"}
      <4>1. e.type = "effect.committed" /\ r.proposed < k /\ g < k /\ e.approval = IF g = 0 THEN None ELSE log[g].approval
        BY <3>4 DEF Milestones
      <4>2. w = e.approval /\ GrantedBy(g, k) = w
        BY <1>6, <2>1, <4>1 DEF GrantedBy
      <4>3. s = "proposed" /\ StatusAt(r, k) = "committed"
        BY <1>6, <2>1, <3>4, <4>1 DEF StatusAt, Milestones
      <4> QED
        BY <1>5, <3>1, <4>1, <4>2, <4>3 DEF Lives
    <3>5. CASE k = r.terminal /\ r.state = "aborted"
      <4>1. e.type = "effect.aborted" /\ r.proposed < k
        BY <3>5 DEF Milestones
      <4>2. s = "proposed" /\ StatusAt(r, k) = "aborted"
        BY <1>6, <2>1, <3>5, <4>1 DEF StatusAt
      <4>3. CASE k = g
        BY <1>8, <3>5, <4>1, <4>3 DEF Milestones
      <4>4. CASE k # g
        <5>1. GrantedBy(g, k) = w
          BY <1>6, <2>1, <4>4 DEF GrantedBy
        <5> QED
          BY <1>5, <3>1, <4>1, <4>2, <5>1 DEF Lives
      <4> QED
        BY <4>3, <4>4
    <3>6. CASE k = r.terminal /\ r.state = "compensated"
      <4>1. e.type = "effect.compensated" /\ r.proposed < r.commit /\ r.commit < k /\ g < r.commit
        BY <3>6 DEF Milestones
      <4>2. s = "committed" /\ StatusAt(r, k) = "compensated"
        BY <1>6, <2>1, <3>6, <4>1 DEF StatusAt
      <4>3. GrantedBy(g, k) = w
        BY <1>6, <2>1, <3>6, <4>1 DEF GrantedBy
      <4> QED
        BY <1>5, <3>1, <4>1, <4>2, <4>3 DEF Lives
    <3> QED
      BY <1>2, <2>1, <2>6, <3>2, <3>3, <3>4, <3>5, <3>6 DEF Milestones
  <2> QED
    BY <2>5, <2>6
<1> QED
  BY <1>7, <1>8

\* The last state of an effect's life is its record's.
LEMMA AcceptedLives ==
  ASSUME ReadingInv
  PROVE  EffectsAreLives
<1> SUFFICES ASSUME Accepted, NEW id \in DOMAIN seal.effects
             PROVE LET r == seal.effects[id]
                       end == Life(log, id)[Len(log)]
                   IN /\ end.status = r.state
                      /\ (r.class = "irreversible_write" /\ r.commit # 0) =>
                           \E i \in 1..(r.commit - 1) :
                             log[i].type = "approval.granted" /\ log[i].effect = id /\ log[i].approval = end.by
  BY DEF EffectsAreLives
<1> PICK r, end, g, n : r = seal.effects[id] /\ end = Life(log, id)[Len(log)] /\ g = GrantOf(r) /\ n = Len(log)
  OBVIOUS
<1>1. /\ Milestones(id, r, g) /\ r.state \in EffectStates
      /\ (r.class = "irreversible_write" /\ r.commit # 0) => g # 0 /\ r.state \in {"committed", "compensated"}
  BY RecordsNameAll
<1>2. n \in Nat /\ Positions = 1..n
  BY DEF ReadingInv, ChainKept, Positions
<1>3. end = [status |-> StatusAt(r, n), by |-> GrantedBy(g, n)]
  <2>1. Len(log) \in 0..Len(log)
    BY <1>2
  <2> QED
    BY <1>1, <2>1, LifeIsLed
<1>4. end.status = StatusAt(r, n) /\ end.by = GrantedBy(g, n)
  BY <1>3
<1>5. StatusAt(r, n) = r.state
  <2>1. /\ r.proposed \in 1..n
        /\ r.state \in {"committed", "compensated"} => r.commit \in 1..n
        /\ r.state \in {"aborted", "compensated"} => r.terminal \in 1..n
    BY <1>1, <1>2 DEF Milestones
  <2> QED
    BY <1>1, <1>2, <2>1 DEF StatusAt, EffectStates
<1>6. ASSUME r.class = "irreversible_write", r.commit # 0
      PROVE  \E i \in 1..(r.commit - 1) :
               log[i].type = "approval.granted" /\ log[i].effect = id /\ log[i].approval = end.by
  <2>1. g # 0 /\ g \in 1..n /\ r.commit \in 1..n /\ g < r.commit
        /\ log[g].type = "approval.granted" /\ log[g].effect = id
    BY <1>1, <1>2, <1>6 DEF Milestones
  <2>2. end.by = log[g].approval
    BY <1>2, <1>4, <2>1 DEF GrantedBy
  <2>3. g \in 1..(r.commit - 1)
    BY <1>2, <2>1
  <2> QED
    BY <2>1, <2>2, <2>3
<1> QED
  BY <1>4, <1>5, <1>6

\* What an accepted package did is bracketed.
LEMMA AcceptedWork ==
  ASSUME ReadingInv
  PROVE  TasksAreBracketed
<1> SUFFICES ASSUME Accepted PROVE TasksAreBracketed
  BY DEF TasksAreBracketed
<1>1. ChainKept /\ MoneyKept /\ SealKept /\ phase = "accepted"
  BY DEF ReadingInv, Accepted
<1>2. Total("reserved") = Spent + Total("released") /\ Spent <= Cap
  <2>1. \A field \in Amounts : Total(field) \in Int
    <3>1. ASSUME NEW field \in Amounts PROVE Total(field) \in Int
      <4> DEFINE f == [i \in Positions |-> log[i][field]]
      <4>1. IsFiniteSet(Positions)
        <5>1. Len(log) \in Nat /\ Positions = 1..Len(log)
          BY <1>1 DEF ChainKept, Positions
        <5> QED
          BY <5>1, FS_Interval
      <4>2. \A i \in Positions : f[i] \in Int
        BY <1>1 DEF ChainKept, Grounded
      <4>3. DOMAIN f = Positions
        OBVIOUS
      <4> HIDE DEF f
      <4>4. SumFunctionOnSet(f, Positions) \in Int
        BY <4>1, <4>2, SumType
      <4> QED
        BY <4>3, <4>4 DEF Total, SumFunction, f
    <3> QED
      BY <3>1
  <2> PICK a, r, g : a = Total("actual") /\ r = Total("reserved") /\ g = Total("released")
    OBVIOUS
  <2>2. a \in Int /\ r \in Int /\ g \in Int /\ Cap \in Int
    BY <2>1, ForgersAssumption DEF Amounts
  <2>3. r - a - g = 0 /\ a + (r - a - g) <= Cap
    BY <1>1 DEF MoneyKept, SealKept, Outstanding, Spent
  <2>4. r = a + g /\ a <= Cap
    BY <2>2, <2>3
  <2> QED
    BY <2>4 DEF Spent
<1>3. ASSUME NEW i \in Positions, log[i].type \in TaskEnds
      PROVE  \E j \in 1..(i - 1) : log[j].type = "task.attempt_started" /\ SameAttempt(log[i], j)
  BY <1>1, <1>3 DEF ChainKept, Grounded
<1>4. ASSUME NEW o \in seal.obligations, NEW i \in Completion(o.task)
      PROVE  o.satisfied /\ o.validation < i
  <2>1. o.satisfied /\ o.validation \in log[i].causes
    BY <1>1 DEF SealKept, ObligationHolds
  <2>2. i \in Positions /\ log[i].causes \subseteq 1..(i - 1)
    BY <1>1 DEF Completion, ChainKept, Grounded
  <2>3. i \in Int
    BY <1>1, <2>2 DEF ChainKept, Positions
  <2> QED
    BY <2>1, <2>2, <2>3
<1> QED
  BY <1>2, <1>3, <1>4 DEF TasksAreBracketed

\* Nothing in an accepted package rests on something later.
LEMMA AcceptedEvidence ==
  ASSUME ReadingInv
  PROVE  EvidenceIsCausal
<1> SUFFICES ASSUME Accepted PROVE EvidenceIsCausal
  BY DEF EvidenceIsCausal
<1>1. ChainKept /\ SealKept /\ phase = "accepted"
  BY DEF ReadingInv, Accepted
<1>2. Len(log) \in Nat /\ Positions = 1..Len(log)
  BY <1>1 DEF ChainKept, Positions
<1>3. \A i \in Positions : \A a \in log[i].outputs : ProducedAt(a) = i
  BY <1>1, PlacesAreKnown
<1>4. ASSUME NEW i \in Positions, NEW a, NEW j \in 1..(i - 1), a \in log[j].outputs
      PROVE  ProducedAt(a) \in 1..(i - 1)
  BY <1>2, <1>3, <1>4
<1>5. ASSUME NEW i \in Positions, NEW a \in log[i].evidence
      PROVE  ProducedAt(a) \in 1..(i - 1) /\ FreshAt(a, log[i].time)
  <2>1. Grounded(i)
    BY <1>1 DEF ChainKept
  <2> QED
    BY <1>4, <2>1 DEF Grounded
<1>6. ASSUME NEW a \in Emitted, NEW p \in Artifact(a).parents
      PROVE  ProducedAt(p) \in 1..(ProducedAt(a) - 1)
  <2>1. PICK i \in Positions : a \in log[i].outputs
    BY DEF Emitted
  <2>2. Grounded(i) /\ ProducedAt(a) = i
    BY <1>1, <1>3, <2>1 DEF ChainKept
  <2>3. PICK j \in 1..(i - 1) : p \in log[j].outputs
    BY <2>1, <2>2 DEF Grounded
  <2> QED
    BY <1>4, <2>2, <2>3
<1>7. ASSUME NEW c \in seal.claims, NEW a \in c.refs
      PROVE  ProducedAt(a) \in 1..c.producer /\ FreshAt(a, c.created)
  BY <1>1 DEF SealKept, ClaimHolds
<1>8. ASSUME NEW id \in DOMAIN seal.effects
      PROVE  ProducedAt(seal.effects[id].payload) \in 1..(seal.effects[id].proposed - 1)
  BY <1>1 DEF SealKept, ProposalHolds
<1> QED
  BY <1>5, <1>6, <1>7, <1>8 DEF EvidenceIsCausal

\* Whatever a package claims, one that is accepted tells of lives of effects as
\* the kernel allows them.
THEOREM LivesAreTold == VerifySpec => []EffectsAreLives
<1>1. ReadingInv => EffectsAreLives
  BY AcceptedLives
<1> QED
  BY <1>1, ReadingIsSound, PTL

\* The work an accepted package claims was paid for and rests on what was there.
THEOREM WorkStandsOnGround == VerifySpec => []WorkIsGrounded
<1>1. ReadingInv => WorkIsGrounded
  BY AcceptedWork, AcceptedEvidence DEF WorkIsGrounded
<1> QED
  BY <1>1, ReadingIsSound, PTL

=============================================================================
