--------------------------- MODULE AdaptiveReplay ---------------------------
(***************************************************************************)
(* The history of an adaptive run (adaptive_runtime.py).  Each transition  *)
(* is recorded with the event that caused it, and a restarted              *)
(* AdaptiveRuntime parses and re-derives all of them before it goes on: a  *)
(* record its own replay refuses would end the run for good, although      *)
(* nothing was wrong when it was written.  What the parser (from_dict)     *)
(* demands and what the reducer (apply) does were written apart; this      *)
(* module states both and holds every step of the service against them.    *)
(*                                                                         *)
(* The chain of digests and revisions is left out, and with it the         *)
(* decision: it is a function of the prior state and the event.            *)
(***************************************************************************)
EXTENDS AdaptiveService

\* AdaptiveControlEvent.create, one operator per kind.
Rejected(p, at, reset)     == [kind |-> "provider.429", at |-> at, provider |-> p, reset |-> reset]
WindowOver(p, at)          == [kind |-> "provider.reset", at |-> at, provider |-> p]
Capacity(p, at, open)      == [kind |-> "provider.capacity", at |-> at, provider |-> p, open |-> open]
Cut(caps, at)              == [kind |-> "budget.cut", at |-> at, usage |-> caps]
Dispatched(t, at)          == [kind |-> "task.dispatched", at |-> at, task |-> t, usage |-> plan.cost[t]]
Settled(t, at, actual)     == [kind |-> "usage.settled", at |-> at, task |-> t, usage |-> actual]
Unresolved(t, at)          == [kind |-> "recovery.unknown", at |-> at, task |-> t, usage |-> plan.cost[t]]
CalledOff(at)             == [kind |-> "cancellation", at |-> at]

-----------------------------------------------------------------------------
(* from_dict: what can be read back. *)

ProviderKinds == {"provider.429", "provider.reset", "provider.capacity"}
UsageKinds    == {"budget.cut", "task.dispatched", "usage.settled", "recovery.unknown"}

EventParses(e) ==
  /\ e.at >= 0
  /\ e.kind = "provider.429" => e.reset >= 1
  /\ e.kind \in UsageKinds => e.usage \in Usages

StateParses(s) ==
  /\ {s.caps, s.settled, s.unknownUsage} \subseteq Usages
  /\ \A p \in Providers : s.resets[p] # None => s.resets[p] >= 1
  /\ s.completed \cap s.shed = {}
  /\ s.status \in {"running", "completed"} => s.unknown \subseteq s.shed

-----------------------------------------------------------------------------
(* apply: the events a state accepts, and the state after one of them. *)

Choice(s, at) == IF Eligible(s, at) = {} THEN None ELSE Min(Eligible(s, at))

Accepts(s, e) ==
  /\ e.at >= s.now /\ s.status = "running"
  /\ e.kind \in ProviderKinds => e.provider \in ProvidersOfRun
  /\ e.kind = "provider.429" => e.reset > e.at
  /\ e.kind = "provider.reset" => s.resets[e.provider] # None /\ e.at >= s.resets[e.provider]
  /\ e.kind = "budget.cut" => Fits(e.usage, s.caps)
  /\ e.kind = "task.dispatched" => e.task = Choice(s, e.at) /\ e.usage = plan.cost[e.task]
  /\ e.kind = "usage.settled" => e.task = s.inflight /\ Fits(e.usage, plan.cost[e.task])
  /\ e.kind = "recovery.unknown" => e.task = s.inflight /\ e.usage = plan.cost[e.task]

After(s, e) ==
  CASE e.kind = "provider.429"      -> Provider429(s, e.provider, e.at, e.reset)
    [] e.kind = "provider.reset"    -> ProviderReset(s, e.provider, e.at)
    [] e.kind = "provider.capacity" -> ProviderCapacity(s, e.provider, e.at, e.open)
    [] e.kind = "budget.cut"        -> BudgetCut(s, e.usage, e.at)
    [] e.kind = "task.dispatched"   -> TaskDispatched([s EXCEPT !.now = e.at], e.task)
    [] e.kind = "usage.settled"     -> UsageSettled(s, e.task, e.usage, e.at)
    [] e.kind = "recovery.unknown"  -> UnknownInflight(s, e.task, e.at)
    [] e.kind = "cancellation"      -> Cancellation([s EXCEPT !.now = e.at])

\* replay_adaptive_records, for one record.
Replays(prior, e, next) ==
  EventParses(e) /\ StateParses(next) /\ Accepts(prior, e) /\ next = After(prior, e)

-----------------------------------------------------------------------------
(* _append_transition: the event recorded with a step. *)

\* What changed tells which event it was.  An event that changed nothing but
\* the time, as a 429 with an earlier reset, is replayed like a notice of the
\* capacity the provider has anyway.
Recorded ==
  LET at == ctl'.now
      t  == ctl.inflight
      moved == {p \in Providers : ctl'.resets[p] # ctl.resets[p]}
      turned == {p \in Providers : (p \in ctl'.closed) # (p \in ctl.closed)}
      p == CHOOSE q \in ProvidersOfRun : moved \cup turned # {} => q \in moved \cup turned
  IN IF ctl'.status = "cancelled" THEN CalledOff(at)
     ELSE IF ctl'.inflight # t
     THEN IF t = None THEN Dispatched(ctl'.inflight, at)
          ELSE IF t \in ctl'.completed
          THEN Settled(t, at, Minus(ctl'.settled, ctl.settled)) ELSE Unresolved(t, at)
     ELSE IF ctl'.caps # ctl.caps THEN Cut(ctl'.caps, at)
     ELSE IF moved = {} THEN Capacity(p, at, p \notin ctl'.closed)
     ELSE IF ctl'.resets[p] = None THEN WindowOver(p, at) ELSE Rejected(p, at, ctl'.resets[p])

\* The recorded outputs are those of the completed tasks and at most that of
\* the one in flight (AdaptiveRuntime.__init__).
OutputsAgree ==
  ctl.completed \subseteq Durable /\ Durable \subseteq ctl.completed \cup InFlight(ctl)

\* What one step leaves can be read and re-derived by a new runtime.
StepReplays ==
  /\ ctl' # ctl => Replays(ctl, Recorded, ctl')
  /\ OutputsAgree'

\* Wherever the process dies, the constructor of AdaptiveRuntime accepts what
\* it finds: every transition that was ever recorded parses, is one that the
\* reducer accepts after the one before it, and replays to the state recorded
\* with it; and the recorded outputs fit the recorded state.
HistoryReplays == [][StepReplays]_vars
=============================================================================
