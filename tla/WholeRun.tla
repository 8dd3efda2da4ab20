------------------------------ MODULE WholeRun ------------------------------
(***************************************************************************)
(* verify_whole_run_evidence (whole_run_verifier.py): the verdict on a     *)
(* sealed package from a producer who is not trusted.                      *)
(*                                                                         *)
(* The forger's package is read the way the verifier reads it: the chain   *)
(* of events, then claims, context obligations, approvals and effects.     *)
(* Every check is a conjunct of the verdict, so that each is made here as  *)
(* soon as its outcome is fixed, and a reading that fails one stops.  The  *)
(* hash chain leaves one digest for each position: digests of events are   *)
(* positions, and other digests are the values they bind.  The artifact    *)
(* set is the set of emitted artifacts.                                    *)
(***************************************************************************)
EXTENDS Integers, Sequences, FiniteSets, Functions

CONSTANTS
  Forgers,    \* [events, max, times, catalog, claims, obligations, approvals, effects]: see MCWholeRun
  Cap,        \* of the one resource of the envelope
  Deadline

\* Amounts, times and caps are whole numbers; an identifier that is absent is None.
ASSUME ForgersAssumption ==
  /\ Cap \in Nat
  /\ \A f \in Forgers :
       /\ f.times \subseteq Int
       /\ \A e \in f.events : e.reserved \in Int /\ e.actual \in Int /\ e.released \in Int

VARIABLES forger, log, phase, seal

packageVars == <<forger, log, phase, seal>>

None == "none"
Forever == -1  \* an artifact that does not age
RunEvents == {"run.started", "run.completed", "run.failed"}
TaskEnds == {"task.completed", "task.failed", "task.cancelled"}
TaskEvents == TaskEnds \union {"task.attempt_started", "task.attempt_succeeded",
                               "task.attempt_failed", "context.validated"}
EffectEvents == {"effect.proposed", "effect.committed", "effect.aborted", "effect.compensated"}
EventTypes == RunEvents \union TaskEvents \union EffectEvents
              \union {"artifact.ingested", "approval.granted"}
OutputEvents == {"run.started", "artifact.ingested", "task.attempt_succeeded", "task.completed"}

Positions == DOMAIN log
Ended == log # <<>> /\ log[Len(log)].type \in {"run.completed", "run.failed"}
Successful == log # <<>> /\ log[Len(log)].type = "run.completed"

\* Where an artifact was emitted; 0 when it was not.
ProducedAt(a) ==
  LET at == {i \in Positions : a \in log[i].outputs} IN IF at = {} THEN 0 ELSE CHOOSE i \in at : TRUE

Emitted == UNION {log[i].outputs : i \in Positions}
Artifact(a) == forger.catalog[a]
FreshAt(a, time) ==
  /\ time >= Artifact(a).created
  /\ Artifact(a).fresh # Forever => time <= Artifact(a).fresh

-----------------------------------------------------------------------------
\* Checks on one event, given those before it.

InOrder(e) ==
  /\ log = <<>> <=> e.type = "run.started"
  /\ log = <<>> => e.time = 0 /\ e.causes = {}
  /\ log # <<>> => /\ e.time >= log[Len(log)].time
                   /\ e.causes # {} /\ e.causes \subseteq Positions

IdentityShape(e) ==
  LET task == e.task # None  attempt == e.attempt # 0
      approval == e.approval # None  effect == e.effect # None
  IN /\ e.type \in RunEvents \union {"artifact.ingested"} => ~task /\ ~attempt /\ ~approval /\ ~effect
     /\ e.type = "artifact.ingested" => e.outputs # {}
     /\ e.type \in TaskEvents => task /\ attempt /\ ~approval /\ ~effect
     /\ e.type = "approval.granted" => task /\ ~attempt /\ approval /\ effect
     /\ e.type \in EffectEvents => task /\ effect /\ ~attempt

\* What one structure check leaves to the others.
Shaped(e) ==
  /\ e.type \in EventTypes /\ e.time >= 0
  /\ e.reserved >= 0 /\ e.actual >= 0 /\ e.released >= 0

Outputs(e) ==
  /\ e.outputs # {} => e.type \in OutputEvents
  /\ e.outputs \cap Emitted = {}

SameAttempt(e, i) == log[i].task = e.task /\ log[i].attempt = e.attempt

TaskCausality(e) ==
  /\ e.type = "task.attempt_started" =>
       ~\E i \in Positions : log[i].type = e.type /\ SameAttempt(e, i)
  /\ e.type \in TaskEnds =>
       \E i \in e.causes : log[i].type = "task.attempt_started" /\ SameAttempt(e, i)
  /\ e.type = "task.completed" =>
       e.outputs # {} /\ ~\E i \in Positions : log[i].type = e.type /\ log[i].task = e.task

Total(field) == SumFunction([i \in Positions |-> log[i][field]])
Spent == Total("actual")
Outstanding == Total("reserved") - Spent - Total("released")

Resources(e) ==
  LET held == Outstanding + e.reserved - e.actual - e.released
  IN held >= 0 /\ Spent + e.actual + held <= Cap

\* Mutant: evidence is looked up, its age and its place are not.
EvidenceExists(e) == \A a \in e.evidence : ProducedAt(a) # 0

Evidence(e) == \A a \in e.evidence : ProducedAt(a) # 0 /\ FreshAt(a, e.time)

\* Parents were emitted by an earlier event.
Lineage(e) ==
  \A a \in e.outputs :
    /\ Artifact(a).created >= e.time
    /\ \A p \in Artifact(a).parents : ProducedAt(p) # 0

\* No record can account for a second proposal, grant or end of an effect.
CountedOnce(e) ==
  LET alike(types) == {i \in Positions : log[i].type \in types /\ log[i].effect = e.effect}
  IN /\ e.type \in EffectEvents => alike({e.type}) = {}
     /\ e.type = "effect.aborted" => alike({"effect.committed", "effect.compensated"}) = {}
     /\ e.type \in {"effect.committed", "effect.compensated"} => alike({"effect.aborted"}) = {}
     /\ e.type = "approval.granted" =>
          ~\E i \in Positions : log[i].type = e.type /\ log[i].approval = e.approval

Readable(e) ==
  /\ Shaped(e) /\ InOrder(e) /\ IdentityShape(e) /\ Outputs(e) /\ TaskCausality(e)
  /\ Resources(e) /\ Evidence(e) /\ Lineage(e) /\ CountedOnce(e)

-----------------------------------------------------------------------------
\* Checks on the records.

VerifyInit ==
  /\ forger \in Forgers
  /\ log = <<>> /\ phase = "events"
  /\ seal = [claims |-> {}, obligations |-> {}, approvals |-> <<>>, effects |-> <<>>]

\* Causes that some check reads: the proposal and the grant of a commit, the start of a
\* completion and any number of validations, one of the other linked events.
\* Those of any other event are its predecessor.
Linked == TaskEnds \union (EffectEvents \ {"effect.proposed"}) \union {"approval.granted"}
CauseSets(type) ==
  CASE log = <<>> -> {{}}
    [] type = "effect.committed" -> {{i, j} : i, j \in Positions}
    [] type = "task.completed" ->
         {{i} \union V : i \in Positions, V \in SUBSET {j \in Positions : log[j].type = "context.validated"}}
    [] type \in Linked -> {{i} : i \in Positions}
    [] OTHER -> {{Len(log)}}

\* The last event that fits ends the run.
Fits(type) == Len(log) + 1 < forger.max \/ (Len(log) < forger.max /\ type \in RunEvents)

ReadEvent ==
  /\ phase = "events" /\ ~Ended
  /\ \E x \in {y \in forger.events : Fits(y.type)}, t \in forger.times : \E c \in CauseSets(x.type) :
       LET e == [type |-> x.type, task |-> x.task, attempt |-> x.attempt, approval |-> x.approval,
                 effect |-> x.effect, outputs |-> x.outputs, evidence |-> x.evidence,
                 reserved |-> x.reserved, actual |-> x.actual, released |-> x.released,
                 time |-> t, causes |-> c]
       IN Readable(e) /\ log' = Append(log, e)
  /\ UNCHANGED <<forger, phase, seal>>

\* The chain is complete: lifecycle, deadline and the leak.
EndEvents ==
  /\ phase = "events" /\ Ended
  /\ Successful => log[Len(log)].time <= Deadline
  /\ Outstanding = 0
  /\ phase' = "records"
  /\ UNCHANGED <<forger, log, seal>>

\* Evidence of a claim was emitted no later than the claim and is fresh when it is made.
ClaimHolds(c) ==
  /\ c.status = "supported" => c.refs # {}
  /\ c.producer \in Positions /\ c.created >= log[c.producer].time
  /\ \A a \in c.refs : /\ ProducedAt(a) \in 1..c.producer
                       /\ FreshAt(a, c.created)

ReadClaims ==
  /\ phase = "records"
  /\ \E C \in forger.claims :
       /\ \A c \in C : ClaimHolds(c)
       /\ seal' = [seal EXCEPT !.claims = C]
  /\ phase' = "obligations"
  /\ UNCHANGED <<forger, log>>

Completion(t) == {i \in Positions : log[i].type = "task.completed" /\ log[i].task = t}

\* The obligation was validated by an event of its task, a cause of its completion.
ObligationHolds(o) ==
  /\ o.validation \in Positions
  /\ LET v == log[o.validation]
     IN v.type = "context.validated" /\ v.task = o.task /\ o.refs \subseteq v.evidence
  /\ o.satisfied => o.refs # {}
  /\ Successful => o.satisfied
  /\ \A i \in Completion(o.task) : o.satisfied /\ o.validation \in log[i].causes

ReadObligations ==
  /\ phase = "obligations"
  /\ \E O \in forger.obligations :
       /\ \A o \in O : ObligationHolds(o)
       /\ \A o, p \in O : o.validation = p.validation => o = p
       /\ seal' = [seal EXCEPT !.obligations = O]
  /\ phase' = "approvals"
  /\ UNCHANGED <<forger, log>>

Granted == {log[i].approval : i \in {j \in Positions : log[j].type = "approval.granted"}}
Touched == {log[i].effect : i \in {j \in Positions : log[j].type \in EffectEvents}}

\* The single grant event binds the record.
ApprovalHolds(id, r) ==
  /\ r.grant \in Positions /\ log[r.grant].type = "approval.granted"
  /\ log[r.grant].approval = id /\ log[r.grant].effect = r.effect

\* Every granted approval has a record, and every record a grant.
ReadApproval ==
  /\ phase = "approvals"
  /\ \E id \in Granted \ DOMAIN seal.approvals, x \in forger.approvals, i \in Positions :
       LET r == [effect |-> x.effect, scope |-> x.scope, grant |-> i]
       IN /\ ApprovalHolds(id, r)
          /\ seal' = [seal EXCEPT !.approvals =
                        [k \in DOMAIN @ \union {id} |-> IF k = id THEN r ELSE @[k]]]
  /\ UNCHANGED <<forger, log, phase>>

EndApprovals ==
  /\ phase = "approvals" /\ Granted = DOMAIN seal.approvals
  /\ phase' = "effects"
  /\ UNCHANGED <<forger, log, seal>>

ProposalHolds(id, r) ==
  /\ r.proposed \in Positions
  /\ LET p == log[r.proposed]
     IN p.type = "effect.proposed" /\ p.effect = id /\ p.task = r.task /\ p.approval = None
  /\ ProducedAt(r.payload) \in 1..(r.proposed - 1)

\* The scope is the immutable part of the effect.
Scope(id, r) == [effect |-> id, class |-> r.class, task |-> r.task, payload |-> r.payload]

ApprovalFits(id, r) ==
  r.approval # None =>
    /\ r.approval \in DOMAIN seal.approvals
    /\ LET a == seal.approvals[r.approval]
       IN /\ a.effect = id /\ a.scope = Scope(id, r)
          /\ r.proposed \in log[a.grant].causes /\ a.grant > r.proposed

Says(id, i, type) == i \in Positions /\ log[i].type = type /\ log[i].effect = id
Count(id, type) == Cardinality({i \in Positions : Says(id, i, type)})

EffectStates == {"proposed", "committed", "aborted", "compensated"}

TerminalHolds(id, r) ==
  /\ r.state \in EffectStates
  /\ r.state = "proposed" => r.commit = 0 /\ r.terminal = 0
  /\ r.state = "committed" => Says(id, r.terminal, "effect.committed") /\ r.commit = r.terminal
  /\ r.state = "aborted" => Says(id, r.terminal, "effect.aborted") /\ r.commit = 0
  /\ r.state = "compensated" => Says(id, r.terminal, "effect.compensated")
                                /\ r.commit \in Positions /\ log[r.commit].type = "effect.committed"
  /\ Count(id, "effect.committed") = IF r.state \in {"committed", "compensated"} THEN 1 ELSE 0
  /\ Count(id, "effect.aborted") = IF r.state = "aborted" THEN 1 ELSE 0
  /\ Count(id, "effect.compensated") = IF r.state = "compensated" THEN 1 ELSE 0

\* Mutant: the grant need not be among the causes of the commit.
CommitAfterProposal(id, r) ==
  /\ r.commit # 0 =>
       /\ log[r.commit].effect = id /\ log[r.commit].approval = r.approval
       /\ r.proposed \in log[r.commit].causes
       /\ r.class = "irreversible_write" => r.approval # None
  /\ r.state = "aborted" => r.proposed \in log[r.terminal].causes
  /\ r.state = "compensated" => r.commit \in log[r.terminal].causes

CommitHolds(id, r) ==
  /\ r.commit # 0 =>
       /\ log[r.commit].effect = id /\ log[r.commit].approval = r.approval
       /\ r.proposed \in log[r.commit].causes
       /\ r.approval # None => seal.approvals[r.approval].grant \in log[r.commit].causes
       /\ r.class = "irreversible_write" => r.approval # None
  /\ r.state = "aborted" => r.proposed \in log[r.terminal].causes
  /\ r.state = "compensated" => r.commit \in log[r.terminal].causes

\* One record per effect.  Idempotency keys differ.
ReadEffect ==
  /\ phase = "effects"
  /\ \E id \in Touched \ DOMAIN seal.effects, x \in forger.effects :
     \E i \in {j \in Positions : Says(id, j, "effect.proposed")},
        c, t \in {0} \union {j \in Positions : log[j].type \in EffectEvents \ {"effect.proposed"}} :
       LET r == [class |-> x.class, task |-> x.task, payload |-> x.payload, approval |-> x.approval,
                 state |-> x.state, proposed |-> i, commit |-> c, terminal |-> t]
       IN /\ ProposalHolds(id, r) /\ TerminalHolds(id, r) /\ ApprovalFits(id, r) /\ CommitHolds(id, r)
          /\ seal' = [seal EXCEPT !.effects =
                        [k \in DOMAIN @ \union {id} |-> IF k = id THEN r ELSE @[k]]]
  /\ UNCHANGED <<forger, log, phase>>

UsesOf(approval) == {k \in DOMAIN seal.effects : seal.effects[k].approval = approval}

\* No approval is left over or used twice; the witness is then the recomputed one.
Accept ==
  /\ phase = "effects" /\ Touched = DOMAIN seal.effects
  /\ \A a \in DOMAIN seal.approvals : Cardinality(UsesOf(a)) = 1
  /\ phase' = "accepted"
  /\ UNCHANGED <<forger, log, seal>>

VerifyNext ==
  \/ ReadEvent \/ EndEvents \/ ReadClaims \/ ReadObligations
  \/ ReadApproval \/ EndApprovals \/ ReadEffect \/ Accept

VerifySpec == VerifyInit /\ [][VerifyNext]_packageVars

Accepted == phase = "accepted"

-----------------------------------------------------------------------------
\* What a step of an effect's life does to [status, granted by]; nothing else may happen.
Lives(s, e) ==
  LET becomes(status) == [s EXCEPT !.status = status]
  IN IF e.type = "effect.proposed" /\ s.status = "new" THEN becomes("proposed")
     ELSE IF e.type = "approval.granted" /\ s.status \in {"proposed", "aborted"} /\ s.by = None
          THEN [s EXCEPT !.by = e.approval]
     ELSE IF e.type = "effect.committed" /\ s.status = "proposed" /\ s.by = e.approval
          THEN becomes("committed")
     ELSE IF e.type = "effect.aborted" /\ s.status = "proposed" THEN becomes("aborted")
     ELSE IF e.type = "effect.compensated" /\ s.status = "committed" THEN becomes("compensated")
     ELSE becomes("impossible")

\* How the effect fares along l: life[i] is after its first i events.
Life(l, id) ==
  LET life[i \in 0..Len(l)] ==
        IF i = 0 THEN [status |-> "new", by |-> None]
        ELSE IF l[i].effect = id THEN Lives(life[i - 1], l[i])
        ELSE life[i - 1]
  IN life

\* Whatever an accepted package says of an effect is a life of the effect kernel's
\* intents: in an order the kernel could take, ending in the recorded state, with no
\* irreversible commit before a grant of just this effect.
EffectsAreLives ==
  Accepted =>
    \A id \in DOMAIN seal.effects :
      LET r == seal.effects[id]
          end == Life(log, id)[Len(log)]
      IN /\ end.status = r.state
         /\ (r.class = "irreversible_write" /\ r.commit # 0) =>
              \E i \in 1..(r.commit - 1) :
                log[i].type = "approval.granted" /\ log[i].effect = id /\ log[i].approval = end.by

\* In an accepted package the task's work is bracketed: what is reserved is spent or given
\* back, a task completes after the start of that attempt and after every validation it owes.
TasksAreBracketed ==
  Accepted =>
    /\ Total("reserved") = Spent + Total("released") /\ Spent <= Cap
    /\ \A i \in Positions : log[i].type \in TaskEnds =>
         \E j \in 1..(i - 1) : log[j].type = "task.attempt_started" /\ SameAttempt(log[i], j)
    /\ \A o \in seal.obligations : \A i \in Completion(o.task) : o.satisfied /\ o.validation < i

\* Nothing in an accepted package rests on something later, or too old: along parents,
\* evidence, claims and payloads each use follows the emission, while the artifact is fresh.
EvidenceIsCausal ==
  Accepted =>
    /\ \A i \in Positions : \A a \in log[i].evidence :
         ProducedAt(a) \in 1..(i - 1) /\ FreshAt(a, log[i].time)
    /\ \A a \in Emitted : \A p \in Artifact(a).parents : ProducedAt(p) \in 1..(ProducedAt(a) - 1)
    /\ \A c \in seal.claims : \A a \in c.refs : ProducedAt(a) \in 1..c.producer /\ FreshAt(a, c.created)
    /\ \A id \in DOMAIN seal.effects : ProducedAt(seal.effects[id].payload) \in 1..(seal.effects[id].proposed - 1)

\* An accepted package's work, and the evidence it used, rest on what was there.
WorkIsGrounded == TasksAreBracketed /\ EvidenceIsCausal
=============================================================================
