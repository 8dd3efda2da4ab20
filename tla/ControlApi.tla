----------------------------- MODULE ControlApi -----------------------------
(***************************************************************************)
(* The control plane of one process (control_api.py) in front of the       *)
(* adaptive runtime (control_service.py): submissions, revision-fenced     *)
(* control events that wait for the lock of a session, recoveries,         *)
(* cancellations, approvals and event streams, over the durable events of  *)
(* several runs.  The handlers are coroutines: what happens between two    *)
(* awaits is one step.  The reducer of the controller is abstract here     *)
(* (AdaptiveController has it): a transition is one more revision.         *)
(*                                                                         *)
(* A recovery never suspends, since the lock of its new session is free:   *)
(* _pending_recoveries is zero between the steps and is left out.  What    *)
(* becomes of a request before it reaches a handler is in HttpFront.       *)
(***************************************************************************)
EXTENDS HttpFront, FiniteSets

CONSTANTS
  Run,           \* run ids
  Watcher,       \* clients that follow the events of a run
  MaxActive,     \* max_active_runs
  MaxControls,   \* max_control_events_per_run
  Followed,      \* bound: the runs whose events are followed
  Depth,         \* bound: on the transitions of each run
  MaxSessions    \* bound: on the sessions one process makes

ASSUME ControlAssumption ==
  /\ MaxActive \in Nat \ {0} /\ MaxControls \in Nat \ {0}
  /\ Followed \subseteq Run
  /\ Depth \in [Run -> Nat]

VARIABLES
  \* Durable.
  log,         \* the events of each run, in their order
  reduced,     \* what replaying the transitions of each run gives
  intent,      \* the effect the run proposed, as the broker has it
  \* In the memory of the process.
  session,     \* the _AdaptiveSession objects and the tasks that drive them
  registered,  \* _sessions: the place of a session, or 0
  active,      \* _active: the session its task drives, or 0
  \* The clients of events, with the server's coroutine for each.
  stream

durable == <<log, reduced, intent>>
memory  == <<session, registered, active>>
vars    == <<durable, memory, stream>>

Verdicts == {"completed", "failed", "cancelled", "awaiting_effects"}

Event(type, kind, revision) == [type |-> type, kind |-> kind, revision |-> revision]
Plain(type) == Event(type, "", 0)

\* append_event keeps the first event with an id.
With(events, e) == IF \E i \in DOMAIN events : events[i] = e THEN events ELSE Append(events, e)

CountOf(events, type) == Cardinality({i \in DOMAIN events : events[i].type = type})
Revision(r) == CountOf(log[r], "transition")
Started(r) == CountOf(log[r], "started") > 0

\* _run_state: the latest terminal event, "" if the run has none.
Verdict(events) ==
  LET ends == {i \in DOMAIN events : events[i].type \in Verdicts}
  IN IF ends = {} THEN ""
     ELSE events[CHOOSE i \in ends : \A j \in ends : j <= i].type

\* A session whose runtime has not seen every transition of its run.  What it
\* holds is a running state, and its next append_event is an EventConflict.
Stale(s) == session[s].revision # Revision(session[s].run)
Status(s) == IF Stale(s) THEN "running" ELSE reduced[session[s].run].status

Done(s) == session[s].drive = "ended"
Live == {s \in DOMAIN session : session[s].drive \notin {"none", "ended"}}

\* The lock is held during a dispatch, and asyncio hands it to who waits first.
LockFree(s) == session[s].drive # "working"

Set(s, next) == session' = [session EXCEPT ![s] = next]

\* _discard_finished_executions
Collected == [r \in Run |-> IF active[r] # 0 /\ Done(active[r]) THEN 0 ELSE active[r]]

\* Mutant: only runs that are recorded are counted.
RoomForRecorded == Cardinality({r \in Run : Collected[r] # 0 /\ log[r] # <<>>}) < MaxActive

Room == Cardinality({r \in Run : Collected[r] # 0}) < MaxActive

Init ==
  /\ log = [r \in Run |-> <<>>]
  /\ reduced = [r \in Run |-> [status |-> "running", inflight |-> FALSE]]
  /\ intent = [r \in Run |-> "none"]
  /\ session = <<>>
  /\ registered = [r \in Run |-> 0] /\ active = [r \in Run |-> 0]
  /\ stream \in [Watcher -> [run : Followed, phase : {"closed"}, cursor : {0}, seen : {<<>>}, ended : {FALSE}]]

-----------------------------------------------------------------------------
(* The runtime's task for a run: execute or resume_existing, and _drive. *)

NewSession(r, paused, drive) ==
  [run |-> r, revision |-> Revision(r), gate |-> ~paused, changed |-> FALSE,
   drive |-> drive, resumed |-> FALSE, cancelling |-> FALSE, queue |-> <<>>]

\* A transition of the runtime of s, by whom, to a status.
Transition(s, by, status, inflight) ==
  /\ Revision(session[s].run) < Depth[session[s].run]
  /\ log' = [log EXCEPT ![session[s].run] =
               Append(@, Event("transition", by, session[s].revision + 1))]
  /\ reduced' = [reduced EXCEPT ![session[s].run] = [status |-> status, inflight |-> inflight]]

\* _retire_session
Retire(s) ==
  registered' = [registered EXCEPT ![session[s].run] = IF @ = s THEN 0 ELSE @]

Conclude(r, verdict) == log' = [log EXCEPT ![r] = With(@, Plain(verdict))]

\* execute: admission, the first transition and run.started come before the
\* first await; a refusal leaves nothing behind.
Begin(s) ==
  LET r == session[s].run
  IN /\ session[s].drive = "starting"
     /\ \/ /\ Depth[r] > 0
           /\ log' = [log EXCEPT ![r] = <<Event("transition", "start", 1), Plain("started")>>]
           /\ Set(s, [session[s] EXCEPT !.drive = "gate", !.revision = 1])
           /\ registered' = [registered EXCEPT ![r] = s]
        \/ /\ Set(s, [session[s] EXCEPT !.drive = "ended"])
           /\ UNCHANGED <<log, registered>>
     /\ UNCHANGED <<reduced, intent, active, stream>>

\* _validate_durable_outputs of a resumed run, which may refuse what it finds.
Validate(s) ==
  /\ session[s].drive = "validating"
  /\ \E place \in {"gate", "ended"} : Set(s, [session[s] EXCEPT !.drive = place])
  /\ UNCHANGED <<durable, registered, active, stream>>

PassGate(s) ==
  /\ session[s].drive = "gate" /\ (session[s].gate \/ session[s].cancelling)
  /\ Set(s, [session[s] EXCEPT !.drive = "loop"])
  /\ UNCHANGED <<durable, registered, active, stream>>

\* The next transition of the drive would be an EventConflict: execute records
\* run.failed, resume_existing nothing.
Overtaken(s) ==
  /\ session[s].drive = "loop" /\ session[s].queue = <<>> /\ Stale(s)
  /\ IF session[s].resumed THEN UNCHANGED log ELSE Conclude(session[s].run, "failed")
  /\ Set(s, [session[s] EXCEPT !.drive = "ended"])
  /\ UNCHANGED <<reduced, intent, registered, active, stream>>

Cancelled(s) ==
  /\ session[s].drive = "loop" /\ session[s].queue = <<>> /\ session[s].cancelling
  /\ ~Stale(s) /\ Status(s) = "running"
  /\ Transition(s, "drive", "cancelled", reduced[session[s].run].inflight)
  /\ Set(s, [session[s] EXCEPT !.revision = @ + 1])
  /\ UNCHANGED <<intent, registered, active, stream>>

Dispatch(s) ==
  /\ session[s].drive = "loop" /\ session[s].queue = <<>> /\ ~session[s].cancelling
  /\ ~Stale(s) /\ Status(s) = "running" /\ ~reduced[session[s].run].inflight
  /\ Transition(s, "drive", "running", TRUE)
  /\ Set(s, [session[s] EXCEPT !.revision = @ + 1, !.drive = "working"])
  /\ UNCHANGED <<intent, registered, active, stream>>

\* Nothing can be dispatched.
Park(s) ==
  /\ session[s].drive = "loop" /\ session[s].queue = <<>> /\ ~session[s].cancelling
  /\ Status(s) = "running"
  /\ Set(s, [session[s] EXCEPT !.drive = "parked", !.changed = FALSE])
  /\ UNCHANGED <<durable, registered, active, stream>>

Wake(s) ==
  /\ session[s].drive = "parked" /\ (session[s].changed \/ session[s].cancelling)
  /\ Set(s, [session[s] EXCEPT !.drive = "loop"])
  /\ UNCHANGED <<durable, registered, active, stream>>

\* The worker's thread settles the call; a write effect has been proposed.
WorkerReturns(s) ==
  /\ session[s].drive = "working"
  /\ \E status \in {"running", "completed"} : Transition(s, "drive", status, FALSE)
  /\ intent' \in {intent, [intent EXCEPT ![session[s].run] = IF @ = "none" THEN "proposed" ELSE @]}
  /\ Set(s, [session[s] EXCEPT !.revision = @ + 1, !.drive = "loop"])
  /\ UNCHANGED <<registered, active, stream>>

\* The worker raises: the reservation is charged and the task of the drive ends;
\* execute records run.failed, unless what it caught is an ExecutionError.
WorkerFails(s) ==
  LET r == session[s].run
      charge == Append(log[r], Event("transition", "drive", session[s].revision + 1))
  IN /\ session[s].drive = "working" /\ Revision(r) < Depth[r]
     /\ \E status \in {"running", "refused"} :
          /\ reduced' = [reduced EXCEPT ![r] = [status |-> status, inflight |-> FALSE]]
          /\ IF status = "running" THEN UNCHANGED registered ELSE Retire(s)
     /\ \E recorded \in IF session[s].resumed THEN {FALSE} ELSE BOOLEAN :
          log' = [log EXCEPT ![r] = IF recorded THEN With(charge, Plain("failed")) ELSE charge]
     /\ Set(s, [session[s] EXCEPT !.revision = @ + 1, !.drive = "ended"])
     /\ UNCHANGED <<intent, active, stream>>

\* _terminal_result of a run that is over.
Finish(s) ==
  LET r == session[s].run
      verdict == CASE reduced[r].status = "cancelled" -> "cancelled"
                   [] reduced[r].status = "refused" -> "failed"
                   [] intent[r] = "none" -> "completed"
                   [] OTHER -> "awaiting_effects"
  IN /\ session[s].drive = "loop" /\ Status(s) # "running"
     /\ Conclude(r, verdict)
     /\ Set(s, [session[s] EXCEPT !.drive = "ended"])
     /\ Retire(s)
     /\ UNCHANGED <<reduced, intent, active, stream>>

\* _execution_done, the callback of the finished task.
ExecutionDone(r) ==
  /\ active[r] # 0 /\ Done(active[r])
  /\ active' = [active EXCEPT ![r] = 0]
  /\ UNCHANGED <<durable, session, registered, stream>>

-----------------------------------------------------------------------------
(* Requests. *)

\* submit
Submit(r) ==
  /\ active[r] = 0 /\ Room /\ log[r] = <<>>
  /\ Len(session) < MaxSessions
  /\ \E paused \in BOOLEAN :
       session' = Append(session, NewSession(r, paused, "starting"))
  /\ active' = [Collected EXCEPT ![r] = Len(session) + 1]
  /\ UNCHANGED <<durable, registered, stream>>

\* The accepted control events of the run and _pending_control_events.
PendingControls(r) == 
  Cardinality(UNION {{<<s, i>> : i \in DOMAIN session[s].queue} :
                     s \in {s \in DOMAIN session : session[s].run = r}})

WithinLimit(r) == CountOf(log[r], "accepted") + PendingControls(r) < MaxControls

\* The marker of an accepted request, its kind and the revision it named.
Accept(events, kind, expected) == With(events, Event("accepted", kind, expected))

\* Mutant: the revision was compared when the request came.
FencedEarly(s, expected) == expected <= session[s].revision

\* The revision is compared under the lock.
Fenced(s, expected) == expected = session[s].revision

\* The critical section of apply_adaptive_control and the marker after it; rest
\* is the queue it leaves.  A control event is one more transition, which may
\* refuse the run; runtime.resume opens the gate and changes no revision.
Apply(s, request, rest) ==
  LET r == session[s].run
      freed == [session[s] EXCEPT !.queue = rest]
      Refuse == Set(s, freed) /\ UNCHANGED <<log, reduced, registered>>
  IN IF ~Fenced(s, request.expected) THEN Refuse
     ELSE IF request.kind = "resume"
       THEN IF session[s].gate THEN Refuse
            ELSE /\ log' = [log EXCEPT ![r] =
                      Accept(With(@, Event("resumed", "", session[s].revision)),
                             "resume", request.expected)]
                 /\ Set(s, [freed EXCEPT !.gate = TRUE, !.changed = TRUE])
                 /\ UNCHANGED <<reduced, registered>>
     ELSE IF Stale(s) \/ Status(s) # "running" \/ Revision(r) = Depth[r] THEN Refuse
     ELSE /\ log' = [log EXCEPT ![r] =
               Accept(Append(@, Event("transition", "control", session[s].revision + 1)),
                      "control", request.expected)]
          /\ \E status \in {"running", "refused"} :
               /\ reduced' = [reduced EXCEPT ![r].status = status]
               /\ IF status = "running" THEN UNCHANGED registered ELSE Retire(s)
          /\ Set(s, [freed EXCEPT !.revision = @ + 1, !.changed = TRUE])

\* A control event other than coordinator.recover, for a run with a session: it
\* is applied at once, or waits while a dispatch holds the lock.
Control(r, request) ==
  LET s == registered[r]
  IN /\ Started(r) /\ s # 0 /\ WithinLimit(r)
     /\ IF LockFree(s) /\ session[s].queue = <<>>
        THEN Apply(s, request, <<>>)
        ELSE /\ Set(s, [session[s] EXCEPT !.queue = Append(@, request)])
             /\ UNCHANGED <<log, reduced, registered>>
     /\ UNCHANGED <<intent, active, stream>>

\* Without a session a paused one is made, which nobody drives; the request is
\* accepted,
ControlOrphan(r) ==
  /\ Started(r) /\ registered[r] = 0 /\ reduced[r].status = "running" /\ WithinLimit(r)
  /\ Len(session) < MaxSessions /\ Revision(r) < Depth[r]
  /\ session' = Append(session, [NewSession(r, TRUE, "none") EXCEPT
                                   !.revision = @ + 1, !.changed = TRUE])
  /\ log' = [log EXCEPT ![r] =
       Accept(Append(@, Event("transition", "control", Revision(r) + 1)), "control", Revision(r))]
  /\ \E status \in {"running", "refused"} :
       /\ reduced' = [reduced EXCEPT ![r].status = status]
       /\ registered' = [registered EXCEPT ![r] =
                           IF status = "running" THEN Len(session) + 1 ELSE 0]
  /\ UNCHANGED <<intent, active, stream>>

\* or it resumes that session, or is refused after the session was made.  The
\* runtime of a run that is over is not registered, and can be resumed as well.
ResumeOrphan(r) ==
  /\ Started(r) /\ registered[r] = 0 /\ WithinLimit(r) /\ Len(session) < MaxSessions
  /\ \E resumes \in BOOLEAN :
       /\ session' = Append(session, [NewSession(r, TRUE, "none") EXCEPT
                                        !.gate = resumes, !.changed = resumes])
       /\ log' = IF resumes
                 THEN [log EXCEPT ![r] =
                         Accept(With(@, Event("resumed", "", Revision(r))), "resume", Revision(r))]
                 ELSE log
  /\ registered' = [registered EXCEPT
                      ![r] = IF reduced[r].status = "running" THEN Len(session) + 1 ELSE 0]
  /\ UNCHANGED <<reduced, intent, active, stream>>

\* A request that waited for the lock, in the order of their arrival.
Granted(s) ==
  /\ session[s].queue # <<>> /\ LockFree(s)
  /\ Apply(s, Head(session[s].queue), Tail(session[s].queue))
  /\ UNCHANGED <<intent, active, stream>>

\* coordinator.recover needs a run without a task that goes on.
Orphan(r) == active[r] # 0 => Done(active[r])

\* coordinator.recover: a new session replaces the one there was; a call in
\* flight is settled or charged; the marker is recorded, and refused if one
\* with another time is there for this revision; then the run is driven again.
Recover(r) ==
  LET inflight == reduced[r].inflight
      before == Revision(r)
      marker == Event("accepted", "recover", before)
      known == \E i \in DOMAIN log[r] : log[r][i] = marker
      new == Len(session) + 1
  IN /\ Started(r) /\ Orphan(r) /\ Room /\ WithinLimit(r)
     /\ reduced[r].status = "running"
     /\ new <= MaxSessions /\ (inflight => before < Depth[r])
     /\ \E status \in {"running"} \cup (IF inflight THEN {"refused", "completed"} ELSE {}),
           same \in (IF known THEN BOOLEAN ELSE {TRUE}) :
          /\ reduced' = [reduced EXCEPT ![r] = [status |-> status, inflight |-> FALSE]]
          /\ registered' = [registered EXCEPT ![r] = IF status = "running" THEN new ELSE 0]
          /\ session' = Append(session, [NewSession(r, FALSE, IF same THEN "validating" ELSE "none")
                 EXCEPT !.revision = IF inflight THEN @ + 1 ELSE @,
                        !.resumed = TRUE, !.changed = TRUE])
          /\ active' = [Collected EXCEPT ![r] = IF same THEN new ELSE @]
     /\ log' = [log EXCEPT ![r] =
          Accept(IF inflight THEN Append(@, Event("transition", "recover", before + 1)) ELSE @,
                 "recover", before)]
     /\ UNCHANGED <<intent, stream>>

\* A recovery that names another revision, or a time that cannot be, is refused
\* when its session, open and driven by nobody, has replaced the one there was.
RecoverRefused(r) ==
  /\ Started(r) /\ Orphan(r) /\ Room /\ WithinLimit(r)
  /\ reduced[r].status = "running" /\ Len(session) < MaxSessions
  /\ session' = Append(session, NewSession(r, FALSE, "none"))
  /\ registered' = [registered EXCEPT ![r] = Len(session) + 1]
  /\ active' = Collected
  /\ UNCHANGED <<durable, stream>>

\* cancel
Cancel(r) ==
  /\ log[r] # <<>> /\ Verdict(log[r]) = "" /\ active[r] # 0
  /\ log' = [log EXCEPT ![r] = With(@, Plain("cancel_requested"))]
  /\ Set(active[r], [session[active[r]] EXCEPT !.cancelling = TRUE])
  /\ UNCHANGED <<reduced, intent, registered, active, stream>>

\* approve: the broker prepares and approves, then the event is recorded.  The
\* process may die in between, and somebody else may hold the fence.
Approve(r) ==
  /\ Verdict(log[r]) = "awaiting_effects"
  /\ intent[r] \in {"proposed", "prepared", "approved"}
  /\ intent' = [intent EXCEPT ![r] = "approved"]
  /\ log' = [log EXCEPT ![r] = With(@, Plain("effect_approved"))]
  /\ UNCHANGED <<reduced, memory, stream>>

\* Another broker prepares the intent first.
PreparedElsewhere(r) ==
  /\ intent[r] = "proposed" /\ Verdict(log[r]) # ""
  /\ intent' = [intent EXCEPT ![r] = "foreign"]
  /\ UNCHANGED <<log, reduced, memory, stream>>

\* What is in the memory of the process is gone, and so are its connections.
Dies ==
  /\ session' = <<>>
  /\ registered' = [r \in Run |-> 0] /\ active' = [r \in Run |-> 0]
  /\ stream' = [w \in Watcher |-> [stream[w] EXCEPT !.phase = "closed"]]

Crash == session # <<>> /\ Dies /\ UNCHANGED durable

\* The process dies in the middle of an approval.
CrashInApproval(r) ==
  /\ Verdict(log[r]) = "awaiting_effects" /\ intent[r] \in {"proposed", "prepared"}
  /\ \E state \in {"prepared", "approved"} : intent' = [intent EXCEPT ![r] = state]
  /\ Dies
  /\ UNCHANGED <<log, reduced>>

-----------------------------------------------------------------------------
(* The event stream of a run. *)

Moves(w, next) == stream' = [stream EXCEPT ![w] = next] /\ UNCHANGED <<durable, memory>>

\* GET .../events with Last-Event-ID: the cursor is behind or at the latest
\* event.  A client whose stream was ended does not come back.
Connect(w) ==
  /\ stream[w].phase = "closed" /\ ~stream[w].ended
  /\ log[stream[w].run] # <<>> /\ stream[w].cursor <= Len(log[stream[w].run])
  /\ Moves(w, [stream[w] EXCEPT !.phase = "read"])

\* The sequence of the event that was sent.
CursorAfter(follows, sent) == follows.cursor + sent

\* events(after=cursor) is read once and sent; the connection may break after
\* some of it.
SendEvents(w) ==
  LET follows == stream[w]
      fresh == Len(log[follows.run]) - follows.cursor
  IN /\ follows.phase = "read"
     /\ \E sent \in 0..fresh, phase \in {"told", "closed"} :
          /\ phase = "told" => sent = fresh
          /\ Moves(w, [follows EXCEPT !.phase = phase, !.cursor = CursorAfter(follows, sent),
                         !.seen = @ \o SubSeq(log[follows.run], follows.cursor + 1,
                                               follows.cursor + sent)])

\* Mutant: the state alone decides.
OverAndDone(follows) == Verdict(log[follows.run]) # ""

\* The run has a verdict, and nothing came after what was sent.
OverAndTold(follows) ==
  Verdict(log[follows.run]) # "" /\ follows.cursor >= Len(log[follows.run])

CheckEnd(w) ==
  LET follows == stream[w]
      over == OverAndTold(follows)
  IN /\ follows.phase = "told"
     /\ Moves(w, [follows EXCEPT !.phase = IF over THEN "closed" ELSE "read", !.ended = over])

\* The client goes away, or the connection breaks.
Disconnect(w) ==
  /\ stream[w].phase = "told"
  /\ Moves(w, [stream[w] EXCEPT !.phase = "closed"])

-----------------------------------------------------------------------------

Drive(s) ==
  \/ Begin(s) \/ Validate(s) \/ PassGate(s) \/ Overtaken(s) \/ Cancelled(s)
  \/ Dispatch(s) \/ Park(s) \/ Wake(s) \/ Finish(s)

Worker(s) == WorkerReturns(s) \/ WorkerFails(s)

\* A request names the revision there is, or one it expects there to be.
Requests(r) ==
  [kind : {"control", "resume"}, expected : {Revision(r), Revision(r) + 1}]

Client ==
  \/ \E r \in Run :
       \/ Submit(r) \/ ControlOrphan(r) \/ ResumeOrphan(r) \/ Recover(r) \/ RecoverRefused(r)
       \/ Cancel(r) \/ Approve(r)
       \/ \E request \in Requests(r) : Control(r, request)
  \/ \E w \in Watcher : Connect(w) \/ Disconnect(w)

Stream(w) == SendEvents(w) \/ CheckEnd(w)

Fault == Crash \/ \E r \in Run : CrashInApproval(r) \/ PreparedElsewhere(r)

Next ==
  \/ \E s \in DOMAIN session : Drive(s) \/ Worker(s) \/ Granted(s)
  \/ \E r \in Run : ExecutionDone(r)
  \/ \E w \in Watcher : Stream(w)
  \/ Client \/ Fault

Spec == Init /\ [][Next]_vars

-----------------------------------------------------------------------------
(* Properties *)

\* However submissions, recoveries, failures and crashes fall together, a run
\* is driven by at most one task, that task is the one a cancellation reaches,
\* and max_active_runs bounds the tasks that go on.
OneDriverEach ==
  /\ \A s \in Live : active[session[s].run] = s
  /\ Cardinality(Live) <= MaxActive

\* Requests that queue behind a lock are counted before they are accepted: the
\* limit of accepted control events per run is never passed.
ControlsAreBounded == \A r \in Run : CountOf(log[r], "accepted") <= MaxControls

\* A control event is accepted for the revision it named: the transition that
\* follows that revision is its own, never one of the drive or of a recovery
\* that came while it waited, and it is accepted once.
ControlsAreFenced ==
  \A r \in Run : \A i \in DOMAIN log[r] :
    LET e == log[r][i]
    IN e.type = "accepted" /\ e.kind = "control" =>
         Event("transition", "control", e.revision + 1) = log[r][i - 1]

\* What is accepted of the operator is within its limit and in its place.
ControlsAreOrderly == ControlsAreBounded /\ ControlsAreFenced

\* However often it reconnects, and whatever is recorded meanwhile, a client has
\* been told the events of its run from the first on, in order, each once and with
\* no gap; and at the step at which its stream is ended it has been told all that
\* are recorded, a verdict on the run among them.
StreamsTell ==
  \A w \in Watcher :
    LET told == stream'[w].seen
        recorded == log'[stream'[w].run]
    IN /\ Len(told) <= Len(recorded)
       /\ \A i \in 1..Len(told) : told[i] = recorded[i]
       /\ stream'[w].ended /\ ~stream[w].ended =>
            told = recorded /\ Verdict(recorded) # ""

StreamsTellAll == [][StreamsTell]_vars

\* A request is vetted before anything is read or served.  The front of the requests keeps
\* no state of its own, so what it does in a process that has none it does ever after.
RequestsAreVetted ==
  session = <<>> /\ log = [r \in Run |-> <<>>] => VettedBeforeServed
=============================================================================
