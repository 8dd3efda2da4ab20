-------------------------- MODULE ControlApiProofs --------------------------
(***************************************************************************)
(* Proofs about ControlApi, for any runs, clients and limits: a run has at *)
(* most one driver, the accepted control events are within their limit and *)
(* in their place, and a client is told everything, in order; and about    *)
(* HttpFront: every request is vetted before anything is read or served.   *)
(*                                                                         *)
(* The inductive invariant IInv adds to these properties what they rest    *)
(* on: which session a run's entries in _active and _sessions name, that a *)
(* session which starts has an empty log before it, and that the requests  *)
(* which wait for a lock were counted when they came.  What the front does *)
(* depends on no state: its part is at the end.                            *)
(***************************************************************************)
EXTENDS ControlApi, SumLemmas, SequenceTheorems

Types == {"transition", "started", "resumed", "accepted", "cancel_requested",
          "effect_approved"} \cup Verdicts
Kinds == {"", "start", "drive", "control", "recover", "resume"}
Events == [type : Types, kind : Kinds, revision : Nat]
Drives == {"none", "starting", "validating", "gate", "loop", "working", "parked", "ended"}
Waiting == [kind : {"control", "resume"}, expected : Nat]
Sessions == [run : Run, revision : Nat, gate : BOOLEAN, changed : BOOLEAN, drive : Drives,
             resumed : BOOLEAN, cancelling : BOOLEAN, queue : Seq(Waiting)]
Follows == [run : Followed, phase : {"closed", "read", "told"}, cursor : Nat,
            seen : Seq(Events), ended : BOOLEAN]

TypeOK ==
  /\ log \in [Run -> Seq(Events)]
  /\ reduced \in [Run -> [status : {"running", "completed", "refused", "cancelled"},
                          inflight : BOOLEAN]]
  /\ session \in Seq(Sessions)
  /\ registered \in [Run -> Nat] /\ active \in [Run -> Nat]
  /\ stream \in [Watcher -> Follows]

-----------------------------------------------------------------------------
(* Logs *)

Indices(events, type) == {i \in DOMAIN events : events[i].type = type}

\* A control event's marker comes right after its transition.
InPlace(events) ==
  \A i \in DOMAIN events :
    events[i].type = "accepted" /\ events[i].kind = "control" =>
      /\ i > 1
      /\ events[i - 1] = Event("transition", "control", events[i].revision + 1)

\* The log new extends old, by at most n markers, each in its place.
Extends(old, new, n) ==
  /\ new \in Seq(Events)
  /\ Len(old) <= Len(new)
  /\ \A i \in DOMAIN old : new[i] = old[i]
  /\ CountOf(new, "accepted") <= CountOf(old, "accepted") + n
  /\ InPlace(old) => InPlace(new)

\* An event has the type, the kind and the revision it is made of.
LEMMA EventShape ==
  ASSUME NEW type, NEW kind, NEW n
  PROVE  /\ Event(type, kind, n).type = type /\ Event(type, kind, n).kind = kind
         /\ Event(type, kind, n).revision = n
         /\ type \in Types /\ kind \in Kinds /\ n \in Nat => Event(type, kind, n) \in Events
BY DEF Event, Events

\* The events of one type in a log are finitely many.
LEMMA CountType ==
  ASSUME NEW events \in Seq(Events), NEW type
  PROVE  /\ IsFiniteSet(Indices(events, type))
         /\ CountOf(events, type) = Cardinality(Indices(events, type))
         /\ CountOf(events, type) \in Nat
<1>1. IsFiniteSet(1..Len(events)) /\ DOMAIN events = 1..Len(events)
  BY FS_Interval, LenProperties
<1>2. IsFiniteSet(Indices(events, type))
  BY <1>1, FS_Subset DEF Indices
<1> QED
  BY <1>2, FS_CardinalityType DEF CountOf, Indices

\* One more event counts for its own type.
LEMMA CountAppend ==
  ASSUME NEW events \in Seq(Events), NEW e \in Events, NEW type
  PROVE  CountOf(Append(events, e), type) =
           CountOf(events, type) + (IF e.type = type THEN 1 ELSE 0)
<1> DEFINE new == Append(events, e)
           n == Len(events) + 1
<1>1. /\ new \in Seq(Events) /\ DOMAIN new = 1..n /\ DOMAIN events = 1..(n - 1)
      /\ n \in Nat /\ n > 0 /\ new[n] = e
      /\ \A i \in 1..(n - 1) : new[i] = events[i]
  OBVIOUS
<1> HIDE DEF new, n
<1>2. n \notin 1..(n - 1) /\ 1..n = 1..(n - 1) \cup {n}
  BY <1>1
<1>3. n \notin Indices(events, type) /\ IsFiniteSet(Indices(events, type))
  BY <1>1, <1>2, CountType DEF Indices
<1>4. CASE e.type = type
  <2>1. Indices(new, type) = Indices(events, type) \cup {n}
    BY <1>1, <1>2, <1>4 DEF Indices
  <2>2. Cardinality(Indices(events, type) \cup {n}) = Cardinality(Indices(events, type)) + 1
    BY <1>3, FS_AddElement
  <2> QED
    BY <1>1, <1>4, <2>1, <2>2, CountType DEF new
<1>5. CASE e.type # type
  <2>1. Indices(new, type) = Indices(events, type)
    BY <1>1, <1>2, <1>5 DEF Indices
  <2>2. CountOf(events, type) + 0 = CountOf(events, type)
    BY CountType
  <2> QED
    BY <1>1, <1>5, <2>1, <2>2, CountType DEF new
<1> QED
  BY <1>4, <1>5

\* A log extends itself, and extensions compose.
LEMMA ExtendsSelf ==
  ASSUME NEW events \in Seq(Events), NEW n \in Nat
  PROVE  Extends(events, events, n)
BY CountType DEF Extends

LEMMA ExtendsOnward ==
  ASSUME NEW a \in Seq(Events), NEW b, NEW c, NEW n \in Nat,
         Extends(a, b, 0), Extends(b, c, n)
  PROVE  Extends(a, c, n)
<1>1. /\ CountOf(a, "accepted") \in Nat /\ CountOf(b, "accepted") \in Nat
      /\ CountOf(c, "accepted") \in Nat
  BY CountType DEF Extends
<1>2. Len(a) <= Len(c) /\ \A i \in DOMAIN a : c[i] = a[i]
  BY DEF Extends
<1> QED
  BY <1>1, <1>2 DEF Extends

\* An event that is no marker of a control event may follow any other.
LEMMA AppendExtends ==
  ASSUME NEW events \in Seq(Events), NEW e \in Events,
         NEW n \in {0, 1}, e.type = "accepted" => n = 1,
         ~ (e.type = "accepted" /\ e.kind = "control")
  PROVE  Extends(events, Append(events, e), n) /\ Extends(events, With(events, e), n)
<1> DEFINE new == Append(events, e)
<1>1. /\ new \in Seq(Events) /\ Len(new) = Len(events) + 1 /\ DOMAIN new = 1..Len(new)
      /\ DOMAIN events = 1..Len(events) /\ Len(events) \in Nat
      /\ new[Len(new)] = e
      /\ \A i \in DOMAIN events : new[i] = events[i]
  OBVIOUS
<1>2. CountOf(new, "accepted") <= CountOf(events, "accepted") + n
  BY CountAppend, CountType
<1>3. InPlace(events) => InPlace(new)
  <2> SUFFICES ASSUME InPlace(events), NEW i \in DOMAIN new, new[i].type = "accepted",
                      new[i].kind = "control"
               PROVE  /\ i > 1
                      /\ new[i - 1] = Event("transition", "control", new[i].revision + 1)
    BY DEF InPlace
  <2> HIDE DEF new
  <2>1. i \in DOMAIN events
    BY <1>1
  <2>2. i > 1 /\ events[i - 1] = Event("transition", "control", events[i].revision + 1)
    BY <1>1, <2>1 DEF InPlace
  <2>3. i - 1 \in DOMAIN events
    BY <1>1, <2>1, <2>2
  <2> QED
    BY <1>1, <2>1, <2>2, <2>3
<1>4. Extends(events, new, n)
  BY <1>1, <1>2, <1>3 DEF Extends
<1> QED
  BY <1>4, ExtendsSelf DEF With

\* A control event's marker, right after its transition, is in its place.
LEMMA AcceptExtends ==
  ASSUME NEW events \in Seq(Events), NEW n \in Nat
  PROVE  Extends(events, Accept(Append(events, Event("transition", "control", n + 1)),
                                "control", n), 1)
<1> DEFINE mid == Append(events, Event("transition", "control", n + 1))
           marker == Event("accepted", "control", n)
           new == Append(mid, marker)
<1>1. /\ Event("transition", "control", n + 1) \in Events
      /\ Event("transition", "control", n + 1).type = "transition"
      /\ marker \in Events /\ marker.type = "accepted" /\ marker.revision = n
  <2>1. "transition" \in Types /\ "accepted" \in Types /\ "control" \in Kinds /\ n + 1 \in Nat
    BY DEF Types, Kinds
  <2> QED
    BY <2>1, EventShape
<1>2. Extends(events, mid, 0)
  BY <1>1, AppendExtends
<1>3. Extends(mid, new, 1)
  <2>1. /\ new \in Seq(Events) /\ Len(new) = Len(mid) + 1 /\ DOMAIN new = 1..Len(new)
        /\ DOMAIN mid = 1..Len(mid) /\ Len(mid) \in Nat /\ Len(mid) > 0
        /\ new[Len(new)] = marker
        /\ mid[Len(mid)] = Event("transition", "control", n + 1)
        /\ \A i \in DOMAIN mid : new[i] = mid[i]
    BY <1>1
  <2>2. CountOf(new, "accepted") <= CountOf(mid, "accepted") + 1
    <3>1. mid \in Seq(Events) /\ CountOf(mid, "accepted") \in Nat
      BY <1>2, CountType DEF Extends
    <3> HIDE DEF mid
    <3>2. CountOf(Append(mid, marker), "accepted") = CountOf(mid, "accepted") + 1
      BY <1>1, <3>1, CountAppend
    <3> QED
      BY <3>1, <3>2
  <2>3. InPlace(mid) => InPlace(new)
    <3> SUFFICES ASSUME InPlace(mid), NEW i \in DOMAIN new, new[i].type = "accepted",
                        new[i].kind = "control"
                 PROVE  /\ i > 1
                        /\ new[i - 1] = Event("transition", "control", new[i].revision + 1)
      BY DEF InPlace
    <3> HIDE DEF new, mid, marker
    <3>1. CASE i \in DOMAIN mid
      <4>1. i > 1 /\ mid[i - 1] = Event("transition", "control", mid[i].revision + 1)
        BY <2>1, <3>1 DEF InPlace
      <4>2. i - 1 \in DOMAIN mid
        BY <2>1, <3>1, <4>1
      <4> QED
        BY <2>1, <3>1, <4>1, <4>2
    <3>2. CASE i \notin DOMAIN mid
      <4>1. i = Len(new) /\ i - 1 = Len(mid) /\ Len(mid) \in DOMAIN mid
        BY <2>1, <3>2
      <4> QED
        BY <1>1, <2>1, <4>1
    <3> QED
      BY <3>1, <3>2
  <2> QED
    BY <2>1, <2>2, <2>3 DEF Extends
<1>4. Accept(mid, "control", n) = new \/ Accept(mid, "control", n) = mid
  BY DEF Accept, With
<1>5. Extends(mid, mid, 1)
  BY <1>2, ExtendsSelf DEF Extends
<1>6. Extends(mid, Accept(mid, "control", n), 1)
  BY <1>3, <1>4, <1>5
<1> HIDE DEF mid, new
<1> QED
  BY <1>2, <1>6, ExtendsOnward DEF mid

-----------------------------------------------------------------------------
(* The invariant *)

\* The runs whose task goes on.
Going == {r \in Run : active[r] # 0 /\ ~Done(active[r])}

\* _active and _sessions name sessions of their run, _active the one that is
\* driven, and max_active_runs bounds the tasks that go on.
Drivers ==
  /\ \A s \in Live : active[session[s].run] = s
  /\ \A r \in Run :
       /\ active[r] # 0 => active[r] \in DOMAIN session /\ session[active[r]].run = r
       /\ registered[r] # 0 => registered[r] \in DOMAIN session /\ session[registered[r]].run = r
  /\ IsFiniteSet(Going) /\ Cardinality(Going) <= MaxActive

\* A session starts on an empty log, and only then, or once it has ended, is the
\* log of its run empty.
Begun ==
  \A s \in DOMAIN session :
    LET events == log[session[s].run]
    IN /\ session[s].drive = "starting" => events = <<>>
       /\ events = <<>> => session[s].drive \in {"starting", "ended"} /\ session[s].queue = <<>>

\* The requests that wait for a lock of a session of the run.
Pending(r) ==
  UNION {{<<s, i>> : i \in DOMAIN session[s].queue} : s \in {s \in DOMAIN session : session[s].run = r}}

\* The markers a run has and those the waiting requests may add.
Counted ==
  \A r \in Run :
    IsFiniteSet(Pending(r)) /\ CountOf(log[r], "accepted") + Cardinality(Pending(r)) <= MaxControls

Placed == \A r \in Run : InPlace(log[r])

\* A client was told what is before its cursor.
Told ==
  \A w \in Watcher :
    LET told == stream[w].seen
        recorded == log[stream[w].run]
    IN /\ Len(told) = stream[w].cursor
       /\ stream[w].cursor <= Len(recorded)
       /\ \A i \in 1..Len(told) : told[i] = recorded[i]

IInv == TypeOK /\ Drivers /\ Begun /\ Counted /\ Placed /\ Told

-----------------------------------------------------------------------------
(* Logs that grow *)

\* No log loses an event or changes one.
Grows ==
  /\ log' \in [Run -> Seq(Events)]
  /\ \A r \in Run : Extends(log[r], log'[r], 1)

\* A log that grows keeps its markers in place.
LEMMA GrowsPlaced ==
  ASSUME IInv, Grows
  PROVE  Placed'
BY DEF IInv, Placed, Grows, Extends

\* Clients that are not told anything miss nothing of what they were told.
LEMMA GrowsTold ==
  ASSUME IInv, Grows, UNCHANGED stream
  PROVE  Told'
<1> SUFFICES ASSUME NEW w \in Watcher
             PROVE  /\ Len(stream[w].seen) = stream[w].cursor
                    /\ stream[w].cursor <= Len(log'[stream[w].run])
                    /\ \A i \in 1..Len(stream[w].seen) :
                         stream[w].seen[i] = log'[stream[w].run][i]
  BY DEF Told
<1> DEFINE r == stream[w].run
<1>1. /\ r \in Run /\ stream[w].cursor \in Nat
      /\ log[r] \in Seq(Events) /\ log'[r] \in Seq(Events)
      /\ Len(log[r]) <= Len(log'[r])
      /\ \A i \in 1..Len(log[r]) : log'[r][i] = log[r][i]
  BY ControlAssumption DEF IInv, TypeOK, Follows, Grows, Extends
<1>2. /\ Len(stream[w].seen) = stream[w].cursor /\ stream[w].cursor <= Len(log[r])
      /\ \A i \in 1..Len(stream[w].seen) : stream[w].seen[i] = log[r][i]
  BY DEF IInv, Told
<1> HIDE DEF r
<1>3. /\ Len(log[r]) \in Nat /\ Len(log'[r]) \in Nat
      /\ 1..Len(stream[w].seen) \subseteq 1..Len(log[r])
  BY <1>1, <1>2
<1> QED
  BY <1>1, <1>2, <1>3 DEF r

\* One run's log grows.
LEMMA GrowsAt ==
  ASSUME IInv, NEW r \in Run, NEW events, NEW n \in {0, 1},
         log' = [log EXCEPT ![r] = events], Extends(log[r], events, n)
  PROVE  /\ Grows
         /\ log'[r] = events
         /\ \A q \in Run \ {r} : log'[q] = log[q]
<1>1. log \in [Run -> Seq(Events)] /\ log[r] \in Seq(Events) /\ events \in Seq(Events)
  BY DEF IInv, TypeOK, Extends
<1>2. /\ log' \in [Run -> Seq(Events)] /\ log'[r] = events
      /\ \A q \in Run \ {r} : log'[q] = log[q]
  BY <1>1
<1>3. CountOf(log[r], "accepted") \in Nat /\ CountOf(events, "accepted") \in Nat
  BY <1>1, CountType
<1>4. Extends(log[r], events, 1)
  BY <1>3 DEF Extends
<1>5. \A q \in Run \ {r} : Extends(log[q], log[q], 1)
  BY <1>1, ExtendsSelf
<1> QED
  BY <1>2, <1>4, <1>5 DEF Grows

\* No log grows.
LEMMA GrowsNowhere ==
  ASSUME IInv, UNCHANGED log
  PROVE  Grows
BY ExtendsSelf DEF IInv, TypeOK, Grows

-----------------------------------------------------------------------------
(* Requests that wait *)

\* A step that leaves the queues alone, but for sessions it makes, leaves the
\* waiting requests as they are.
LEMMA PendingSame ==
  ASSUME DOMAIN session \subseteq DOMAIN session',
         \A s \in DOMAIN session : /\ session'[s].run = session[s].run
                                   /\ session'[s].queue = session[s].queue,
         \A s \in DOMAIN session' \ DOMAIN session : session'[s].queue = <<>>,
         NEW r
  PROVE  Pending(r)' = Pending(r)
<1>1. \A s, i : <<s, i>> \in Pending(r) <=>
                  s \in DOMAIN session /\ session[s].run = r /\ i \in DOMAIN session[s].queue
  BY DEF Pending
<1>2. \A s, i : <<s, i>> \in Pending(r)' <=>
                  s \in DOMAIN session' /\ session'[s].run = r /\ i \in DOMAIN session'[s].queue
  BY DEF Pending
<1>3. \A s \in DOMAIN session' \ DOMAIN session : DOMAIN session'[s].queue = {}
  OBVIOUS
<1>4. \A s, i : <<s, i>> \in Pending(r)' <=> <<s, i>> \in Pending(r)
  BY <1>1, <1>2, <1>3
<1>5. /\ \A x \in Pending(r) : \E s, i : x = <<s, i>>
      /\ \A x \in Pending(r)' : \E s, i : x = <<s, i>>
  BY DEF Pending
<1>6. \A x \in Pending(r)' : x \in Pending(r)
  BY <1>4, <1>5
<1>7. \A x \in Pending(r) : x \in Pending(r)'
  BY <1>4, <1>5
<1> QED
  BY <1>6, <1>7

\* One more request waits.
LEMMA PendingMore ==
  ASSUME NEW s \in DOMAIN session, NEW request \in Waiting,
         session[s].queue \in Seq(Waiting),
         DOMAIN session' = DOMAIN session,
         \A q \in DOMAIN session : session'[q].run = session[q].run,
         \A q \in DOMAIN session \ {s} : session'[q].queue = session[q].queue,
         session'[s].queue = Append(session[s].queue, request),
         NEW r
  PROVE  Pending(r)' = IF r = session[s].run
                       THEN Pending(r) \cup {<<s, Len(session[s].queue) + 1>>} ELSE Pending(r)
<1> DEFINE n == Len(session[s].queue) + 1
<1>1. /\ DOMAIN session'[s].queue = DOMAIN session[s].queue \cup {n}
      /\ n \notin DOMAIN session[s].queue
  OBVIOUS
<1> HIDE DEF n
<1>2. \A q, i : <<q, i>> \in Pending(r) <=>
                  q \in DOMAIN session /\ session[q].run = r /\ i \in DOMAIN session[q].queue
  BY DEF Pending
<1>3. \A q, i : <<q, i>> \in Pending(r)' <=>
                  q \in DOMAIN session' /\ session'[q].run = r /\ i \in DOMAIN session'[q].queue
  BY DEF Pending
<1>4. /\ \A x \in Pending(r) : \E q, i : x = <<q, i>>
      /\ \A x \in Pending(r)' : \E q, i : x = <<q, i>>
  BY DEF Pending
<1>5. CASE r = session[s].run
  <2>1. \A q, i : <<q, i>> \in Pending(r)' <=> <<q, i>> \in Pending(r) \/ (q = s /\ i = n)
    BY <1>1, <1>2, <1>3, <1>5
  <2>2. \A x \in Pending(r)' : x \in Pending(r) \cup {<<s, n>>}
    BY <1>4, <2>1
  <2>3. \A x \in Pending(r) \cup {<<s, n>>} : x \in Pending(r)'
    BY <1>4, <2>1
  <2> QED
    BY <1>5, <2>2, <2>3 DEF n
<1>6. CASE r # session[s].run
  <2>1. \A q, i : <<q, i>> \in Pending(r)' <=> <<q, i>> \in Pending(r)
    BY <1>2, <1>3, <1>6
  <2>2. \A x \in Pending(r)' : x \in Pending(r)
    BY <1>4, <2>1
  <2>3. \A x \in Pending(r) : x \in Pending(r)'
    BY <1>4, <2>1
  <2> QED
    BY <1>6, <2>2, <2>3
<1> QED
  BY <1>5, <1>6

\* The first of the requests that wait for a lock is handled.
LEMMA PendingLess ==
  ASSUME NEW s \in DOMAIN session,
         session[s].queue \in Seq(Waiting), session[s].queue # <<>>,
         DOMAIN session' = DOMAIN session,
         \A q \in DOMAIN session : session'[q].run = session[q].run,
         \A q \in DOMAIN session \ {s} : session'[q].queue = session[q].queue,
         session'[s].queue = Tail(session[s].queue),
         NEW r
  PROVE  /\ Pending(r)' = IF r = session[s].run
                          THEN Pending(r) \ {<<s, Len(session[s].queue)>>} ELSE Pending(r)
         /\ r = session[s].run => <<s, Len(session[s].queue)>> \in Pending(r)
<1> DEFINE n == Len(session[s].queue)
<1>1. /\ n \in DOMAIN session[s].queue
      /\ DOMAIN session'[s].queue = DOMAIN session[s].queue \ {n}
  <2>1. /\ n \in Nat \ {0} /\ DOMAIN session[s].queue = 1..n
        /\ DOMAIN Tail(session[s].queue) = 1..(n - 1)
    BY EmptySeq, HeadTailProperties, LenProperties
  <2> HIDE DEF n
  <2> QED
    BY <2>1
<1> HIDE DEF n
<1>2. \A q, i : <<q, i>> \in Pending(r) <=>
                  q \in DOMAIN session /\ session[q].run = r /\ i \in DOMAIN session[q].queue
  BY DEF Pending
<1>3. \A q, i : <<q, i>> \in Pending(r)' <=>
                  q \in DOMAIN session' /\ session'[q].run = r /\ i \in DOMAIN session'[q].queue
  BY DEF Pending
<1>4. /\ \A x \in Pending(r) : \E q, i : x = <<q, i>>
      /\ \A x \in Pending(r)' : \E q, i : x = <<q, i>>
  BY DEF Pending
<1>5. CASE r = session[s].run
  <2>1. \A q, i : <<q, i>> \in Pending(r)' <=> <<q, i>> \in Pending(r) /\ ~(q = s /\ i = n)
    BY <1>1, <1>2, <1>3, <1>5
  <2>2. \A x \in Pending(r)' : x \in Pending(r) \ {<<s, n>>}
    BY <1>4, <2>1
  <2>3. \A x \in Pending(r) \ {<<s, n>>} : x \in Pending(r)'
    BY <1>4, <2>1
  <2>4. <<s, n>> \in Pending(r)
    BY <1>1, <1>2, <1>5
  <2> QED
    BY <1>5, <2>2, <2>3, <2>4 DEF n
<1>6. CASE r # session[s].run
  <2>1. \A q, i : <<q, i>> \in Pending(r)' <=> <<q, i>> \in Pending(r)
    BY <1>2, <1>3, <1>6
  <2>2. \A x \in Pending(r)' : x \in Pending(r)
    BY <1>4, <2>1
  <2>3. \A x \in Pending(r) : x \in Pending(r)'
    BY <1>4, <2>1
  <2> QED
    BY <1>6, <2>2, <2>3
<1> QED
  BY <1>5, <1>6

-----------------------------------------------------------------------------
(* Sessions that move *)

\* Session s becomes next; nobody starts a task again that has ended.
Moved(s, next) ==
  /\ s \in DOMAIN session /\ next \in Sessions /\ next.run = session[s].run
  /\ session' = [session EXCEPT ![s] = next]
  /\ session[s].drive \in {"ended", "none"} => next.drive = session[s].drive
  /\ next.drive # "starting"
  /\ UNCHANGED active

\* _sessions loses the place of a run, or names the session that moves.
Registers(s) ==
  /\ registered' \in [Run -> Nat]
  /\ \A r \in Run : \/ registered'[r] \in {registered[r], 0}
                    \/ r = session[s].run /\ registered'[r] = s

\* What a session becomes and what the others stay.
LEMMA MovedSession ==
  ASSUME IInv, NEW s, NEW next, Moved(s, next)
  PROVE  /\ session' \in Seq(Sessions) /\ DOMAIN session' = DOMAIN session
         /\ session'[s] = next
         /\ \A q \in DOMAIN session \ {s} : session'[q] = session[q]
         /\ \A q \in DOMAIN session : session[q] \in Sessions /\ session[q].run \in Run
<1>1. session \in Seq(Sessions) /\ s \in 1..Len(session) /\ DOMAIN session = 1..Len(session)
  BY DEF IInv, TypeOK, Moved
<1>2. next \in Sessions /\ session' = [session EXCEPT ![s] = next]
  BY DEF Moved
<1>3. /\ session' \in Seq(Sessions) /\ Len(session') = Len(session)
      /\ \A j \in 1..Len(session) : session'[j] = IF j = s THEN next ELSE session[j]
  BY <1>1, <1>2, ExceptSeq
<1>4. DOMAIN session' = 1..Len(session')
  BY <1>3
<1>5. \A q \in DOMAIN session : session[q] \in Sessions
  BY <1>1, ElementOfSeq
<1> QED
  BY <1>1, <1>3, <1>4, <1>5 DEF Sessions

\* A session that moves leaves a run with the driver it had, or without.
LEMMA MovedDrivers ==
  ASSUME IInv, NEW s, NEW next, Moved(s, next), Registers(s)
  PROVE  Drivers'
<1>1. /\ DOMAIN session' = DOMAIN session /\ session'[s] = next
      /\ \A q \in DOMAIN session \ {s} : session'[q] = session[q]
  BY MovedSession
<1>2. /\ s \in DOMAIN session /\ next.run = session[s].run /\ active' = active
      /\ session[s].drive \in {"ended", "none"} => next.drive = session[s].drive
  BY DEF Moved
<1>3. Live' \subseteq Live
  BY <1>1, <1>2 DEF Live
<1>4. \A q \in DOMAIN session : session'[q].run = session[q].run
  BY <1>1, <1>2
<1>5. \A q \in Live' : active'[session'[q].run] = q
  BY <1>2, <1>3, <1>4 DEF IInv, Drivers, Live
<1>6. \A r \in Run :
        /\ active'[r] # 0 => active'[r] \in DOMAIN session' /\ session'[active'[r]].run = r
        /\ registered'[r] # 0 => registered'[r] \in DOMAIN session' /\ session'[registered'[r]].run = r
  BY <1>1, <1>2, <1>4 DEF IInv, Drivers, Registers
<1>7. Going' \subseteq Going
  BY <1>1, <1>2 DEF Going, Done, IInv, Drivers
<1>8. IsFiniteSet(Going') /\ Cardinality(Going') <= MaxActive
  <2>1. IsFiniteSet(Going) /\ Cardinality(Going) <= MaxActive
    BY DEF IInv, Drivers
  <2>2. IsFiniteSet(Going') /\ Cardinality(Going') <= Cardinality(Going)
    BY <1>7, <2>1, FS_Subset
  <2> QED
    BY <2>1, <2>2, FS_CardinalityType, ControlAssumption
<1> QED
  BY <1>5, <1>6, <1>8 DEF Drivers

\* A session that moves keeps what its run's log says of it.
LEMMA MovedBegun ==
  ASSUME IInv, NEW s, NEW next, Moved(s, next), Grows,
         \A r \in Run \ {session[s].run} : log'[r] = log[r],
         log[session[s].run] = <<>> => session[s].drive = "starting",
         log'[session[s].run] = <<>> => next.drive = "ended" /\ next.queue = <<>>
  PROVE  Begun'
<1>1. /\ DOMAIN session' = DOMAIN session /\ session'[s] = next
      /\ \A q \in DOMAIN session \ {s} : session'[q] = session[q]
      /\ \A q \in DOMAIN session : session[q].run \in Run
      /\ s \in DOMAIN session /\ next.run = session[s].run /\ next.drive # "starting"
  BY MovedSession DEF Moved
<1>2. ASSUME NEW q \in DOMAIN session \ {s}, session[q].run = session[s].run
      PROVE  /\ session[q].drive # "starting"
             /\ log'[session[q].run] = <<>> => log[session[q].run] = <<>>
  <2>1. log[session[s].run] = <<>> => s \in Live
    BY <1>1 DEF Live
  <2>2. session[q].drive = "starting" => q \in Live /\ log[session[q].run] = <<>>
    BY DEF Live, IInv, Begun
  <2>3. ~(s \in Live /\ q \in Live)
    BY <1>2 DEF IInv, Drivers
  <2>4. /\ log[session[q].run] \in Seq(Events) /\ log'[session[q].run] \in Seq(Events)
        /\ Len(log[session[q].run]) <= Len(log'[session[q].run])
    BY <1>1 DEF Grows, Extends, IInv, TypeOK
  <2>5. log'[session[q].run] = <<>> => log[session[q].run] = <<>>
    BY <2>4, EmptySeq
  <2> QED
    BY <1>2, <2>1, <2>2, <2>3, <2>5
<1>3. ASSUME NEW q \in DOMAIN session \ {s}
      PROVE  LET events == log'[session'[q].run]
             IN /\ session'[q].drive = "starting" => events = <<>>
                /\ events = <<>> => session'[q].drive \in {"starting", "ended"}
                                    /\ session'[q].queue = <<>>
  <2>1. CASE session[q].run = session[s].run
    BY <1>1, <1>2, <2>1 DEF IInv, Begun
  <2>2. CASE session[q].run # session[s].run
    BY <1>1, <2>2 DEF IInv, Begun
  <2> QED
    BY <2>1, <2>2
<1> QED
  BY <1>1, <1>3 DEF Begun

\* What is counted stays within the limit if no request comes and no marker.
LEMMA SameCounted ==
  ASSUME IInv,
         \A r \in Run : /\ Pending(r)' \subseteq Pending(r)
                        /\ log'[r] \in Seq(Events)
                        /\ CountOf(log'[r], "accepted") <= CountOf(log[r], "accepted")
  PROVE  Counted'
<1> SUFFICES ASSUME NEW r \in Run
             PROVE  /\ IsFiniteSet(Pending(r)')
                    /\ CountOf(log'[r], "accepted") + Cardinality(Pending(r)') <= MaxControls
  BY DEF Counted, CountOf
<1>1. /\ IsFiniteSet(Pending(r))
      /\ CountOf(log[r], "accepted") + Cardinality(Pending(r)) <= MaxControls
  BY DEF IInv, Counted
<1>2. IsFiniteSet(Pending(r)') /\ Cardinality(Pending(r)') <= Cardinality(Pending(r))
  BY <1>1, FS_Subset
<1>3. /\ Cardinality(Pending(r)') \in Nat /\ Cardinality(Pending(r)) \in Nat
      /\ CountOf(log[r], "accepted") \in Nat /\ CountOf(log'[r], "accepted") \in Nat
  BY <1>1, <1>2, FS_CardinalityType, CountType DEF IInv, TypeOK
<1> QED
  BY <1>1, <1>2, <1>3, ControlAssumption

-----------------------------------------------------------------------------
(* The task that drives a run *)

Reductions == [Run -> [status : {"running", "completed", "refused", "cancelled"},
                       inflight : BOOLEAN]]

\* A session that moves with its queue as it is, and what its run's log becomes.
MovesQuietly(s, next, events) ==
  /\ Moved(s, next) /\ Registers(s)
  /\ next.queue = session[s].queue
  /\ log' = [log EXCEPT ![session[s].run] = events]
  /\ Extends(log[session[s].run], events, 0)
  /\ log[session[s].run] = <<>> => session[s].drive = "starting"
  /\ events = <<>> => next.drive = "ended"
  /\ reduced' \in Reductions
  /\ UNCHANGED stream

\* A session that moves quietly keeps the invariant.
LEMMA QuietMove ==
  ASSUME IInv, NEW s, NEW next, NEW events, MovesQuietly(s, next, events)
  PROVE  IInv'
<1> DEFINE r == session[s].run
<1>1. /\ r \in Run /\ s \in DOMAIN session /\ Moved(s, next) /\ Registers(s)
      /\ session' \in Seq(Sessions) /\ DOMAIN session' = DOMAIN session /\ session'[s] = next
      /\ \A q \in DOMAIN session \ {s} : session'[q] = session[q]
  BY MovedSession DEF MovesQuietly, Moved
<1>2. /\ Grows /\ log'[r] = events /\ \A q \in Run \ {r} : log'[q] = log[q]
  BY <1>1, GrowsAt DEF MovesQuietly
<1>3. TypeOK'
  BY <1>1, <1>2 DEF TypeOK, IInv, Grows, MovesQuietly, Moved, Registers, Reductions
<1>4. Drivers'
  BY <1>1, MovedDrivers
<1>5. Begun'
  <2>1. log'[r] = <<>> => next.drive = "ended" /\ next.queue = <<>>
    <3>1. /\ log[r] \in Seq(Events) /\ events \in Seq(Events) /\ Len(log[r]) <= Len(events)
      BY <1>1 DEF MovesQuietly, Extends, IInv, TypeOK
    <3>2. events = <<>> => log[r] = <<>>
      BY <3>1, EmptySeq
    <3> QED
      BY <1>1, <1>2, <3>2 DEF MovesQuietly, IInv, Begun
  <2> QED
    BY <1>1, <1>2, <2>1, MovedBegun DEF MovesQuietly
<1>6. Counted'
  <2>1. \A q : Pending(q)' = Pending(q)
    <3>1. \A q \in DOMAIN session : /\ session'[q].run = session[q].run
                                    /\ session'[q].queue = session[q].queue
      BY <1>1 DEF MovesQuietly, Moved
    <3> QED
      BY <1>1, <3>1, PendingSame
  <2>2. \A q \in Run : /\ log'[q] \in Seq(Events)
                       /\ CountOf(log'[q], "accepted") <= CountOf(log[q], "accepted")
    <3>1. CountOf(events, "accepted") <= CountOf(log[r], "accepted")
      <4>1. log[r] \in Seq(Events) /\ CountOf(log[r], "accepted") \in Nat
        BY <1>1, CountType DEF IInv, TypeOK
      <4> QED
        BY <4>1 DEF MovesQuietly, Extends
    <3>2. \A q \in Run : log[q] \in Seq(Events) /\ CountOf(log[q], "accepted") \in Nat
      BY CountType DEF IInv, TypeOK
    <3>3. \A q \in Run : log'[q] \in Seq(Events)
      BY <1>2 DEF Grows
    <3>4. ASSUME NEW q \in Run \ {r}
          PROVE  CountOf(log'[q], "accepted") <= CountOf(log[q], "accepted")
      BY <1>2, <3>2
    <3>5. CountOf(log'[r], "accepted") <= CountOf(log[r], "accepted")
      BY <1>2, <3>1
    <3> HIDE DEF r
    <3> QED
      BY <3>3, <3>4, <3>5
  <2> QED
    BY <2>1, <2>2, SameCounted
<1>7. Placed'
  BY <1>2, GrowsPlaced
<1>8. Told'
  BY <1>2, GrowsTold DEF MovesQuietly
<1> QED
  BY <1>3, <1>4, <1>5, <1>6, <1>7, <1>8 DEF IInv

\* An event of a type without markers, and a transition, may follow any other.
LEMMA PlainExtends ==
  ASSUME NEW events \in Seq(Events), NEW type \in Types, type # "accepted"
  PROVE  Extends(events, With(events, Plain(type)), 0)
<1>1. Plain(type) \in Events /\ Plain(type).type = type
  BY DEF Plain, Event, Events, Kinds
<1> QED
  BY <1>1, AppendExtends

LEMMA TransitionExtends ==
  ASSUME NEW events \in Seq(Events), NEW kind \in Kinds, NEW n \in Nat
  PROVE  /\ Extends(events, Append(events, Event("transition", kind, n)), 0)
         /\ Append(events, Event("transition", kind, n)) \in Seq(Events) \ {<<>>}
<1>1. /\ Event("transition", kind, n) \in Events
      /\ Event("transition", kind, n).type = "transition"
  BY EventShape DEF Types
<1> QED
  BY <1>1, AppendExtends

\* A resumption and its marker extend the log by one marker.
LEMMA ResumeExtends ==
  ASSUME NEW events \in Seq(Events), NEW n \in Nat, NEW expected \in Nat
  PROVE  Extends(events, Accept(With(events, Event("resumed", "", n)), "resume", expected), 1)
<1> DEFINE resumed == Event("resumed", "", n)
           marker == Event("accepted", "resume", expected)
           mid == With(events, resumed)
<1>1. /\ "resumed" \in Types /\ "" \in Kinds
      /\ "accepted" \in Types /\ "resume" \in Kinds
  BY DEF Types, Kinds
<1>2. resumed \in Events /\ resumed.type = "resumed"
  BY <1>1 DEF Event, Events
<1>3. marker \in Events /\ marker.type = "accepted" /\ marker.kind = "resume"
  BY <1>1 DEF Event, Events
<1> HIDE DEF resumed, marker
<1>4. Extends(events, mid, 0)
  BY <1>2, AppendExtends
<1>5. mid \in Seq(Events)
  BY <1>4 DEF Extends
<1> HIDE DEF mid
<1>6. Extends(mid, With(mid, marker), 1)
  BY <1>3, <1>5, AppendExtends
<1>7. Extends(events, With(mid, marker), 1)
  BY <1>4, <1>6, ExtendsOnward
<1> QED
  BY <1>7 DEF mid, resumed, marker, Accept

\* Two events appended to nothing.
LEMMA TwoEvents ==
  ASSUME NEW a, NEW b
  PROVE  Append(Append(<<>>, a), b) = <<a, b>> /\ <<a, b>> # <<>>
<1>1. /\ <<>> \in Seq({a, b}) /\ Append(<<>>, a) \in Seq({a, b}) /\ <<a, b>> \in Seq({a, b})
      /\ Append(Append(<<>>, a), b) \in Seq({a, b})
  OBVIOUS
<1>2. /\ Len(Append(Append(<<>>, a), b)) = 2 /\ Len(<<a, b>>) = 2
      /\ \A i \in 1..2 : Append(Append(<<>>, a), b)[i] = <<a, b>>[i]
  OBVIOUS
<1> QED
  BY <1>1, <1>2, SeqEqual, EmptySeq

\* What is known of a session whose coroutine is about to go on.
LEMMA DrivenSession ==
  ASSUME IInv, NEW s \in DOMAIN session
  PROVE  /\ session[s] \in Sessions /\ session[s].run \in Run
         /\ log[session[s].run] \in Seq(Events)
         /\ log[session[s].run] = <<>> => session[s].drive \in {"starting", "ended"}
         /\ session[s].drive = "starting" => log[session[s].run] = <<>>
         /\ log = [log EXCEPT ![session[s].run] = log[session[s].run]]
<1>1. session[s] \in Sessions
  BY ElementOfSeq DEF IInv, TypeOK
<1>2. session[s].run \in Run
  BY <1>1 DEF Sessions
<1> QED
  BY <1>1, <1>2 DEF IInv, TypeOK, Begun

\* A session that stays registered, or is retired.
LEMMA RegistersKept ==
  ASSUME IInv, NEW s \in DOMAIN session, UNCHANGED registered \/ Retire(s)
  PROVE  Registers(s)
BY DrivenSession DEF IInv, TypeOK, Registers, Retire

\* The first steps of a task keep the invariant.
LEMMA BeginKeepsIInv ==
  ASSUME IInv, NEW s \in DOMAIN session, Begin(s)
  PROVE  IInv'
<1> DEFINE r == session[s].run
           first == <<Event("transition", "start", 1), Plain("started")>>
<1>1. /\ session[s] \in Sessions /\ r \in Run /\ log[r] = <<>>
      /\ session[s].drive = "starting" /\ UNCHANGED <<reduced, active, stream>>
      /\ reduced \in Reductions
  BY DrivenSession DEF Begin, IInv, TypeOK, Reductions
<1>2. CASE /\ log' = [log EXCEPT ![r] = first]
           /\ Set(s, [session[s] EXCEPT !.drive = "gate", !.revision = 1])
           /\ registered' = [registered EXCEPT ![r] = s]
  <2> DEFINE next == [session[s] EXCEPT !.drive = "gate", !.revision = 1]
  <2>1. Moved(s, next) /\ next.queue = session[s].queue
    BY <1>1, <1>2 DEF Moved, Set, Sessions, Drives
  <2>2. Registers(s)
    <3>1. s \in Nat /\ registered \in [Run -> Nat]
      BY DEF IInv, TypeOK
    <3> QED
      BY <1>1, <1>2, <3>1 DEF Registers
  <2>3. Extends(log[r], first, 0) /\ first # <<>>
    <3> DEFINE one == Append(<<>>, Event("transition", "start", 1))
    <3>1. <<>> \in Seq(Events) /\ "start" \in Kinds /\ 1 \in Nat
      BY DEF Kinds
    <3>2. Extends(<<>>, one, 0) /\ one \in Seq(Events)
      BY <3>1, TransitionExtends
    <3>3. Plain("started") \in Events /\ Plain("started").type = "started"
      BY DEF Plain, Event, Events, Types, Kinds
    <3>4. Append(one, Plain("started")) = first /\ first # <<>>
      BY TwoEvents
    <3> HIDE DEF one, first
    <3>5. Extends(one, Append(one, Plain("started")), 0)
      BY <3>2, <3>3, AppendExtends
    <3>6. Extends(<<>>, first, 0)
      BY <3>1, <3>2, <3>4, <3>5, ExtendsOnward
    <3> QED
      BY <1>1, <3>4, <3>6
  <2> HIDE DEF next, first
  <2> QED
    <3>1. reduced' \in Reductions /\ UNCHANGED stream
      BY <1>1
    <3>2. MovesQuietly(s, next, first)
      BY <1>1, <1>2, <2>1, <2>2, <2>3, <3>1 DEF MovesQuietly
    <3> QED
      BY <3>2, QuietMove
<1>3. CASE /\ Set(s, [session[s] EXCEPT !.drive = "ended"])
           /\ UNCHANGED <<log, registered>>
  <2> DEFINE next == [session[s] EXCEPT !.drive = "ended"]
  <2>1. Moved(s, next) /\ next.queue = session[s].queue /\ next.drive = "ended"
    BY <1>1, <1>3 DEF Moved, Set, Sessions, Drives
  <2>2. Registers(s)
    BY <1>3, RegistersKept
  <2>3. Extends(log[r], log[r], 0) /\ log' = [log EXCEPT ![r] = log[r]]
    BY <1>1, <1>3, DrivenSession, ExtendsSelf
  <2> HIDE DEF next
  <2> QED
    BY <1>1, <2>1, <2>2, <2>3, QuietMove DEF MovesQuietly
<1> QED
  BY <1>2, <1>3 DEF Begin

\* The other steps of a task and its worker keep the invariant.
LEMMA DriveKeepsIInv ==
  ASSUME IInv, NEW s \in DOMAIN session, Drive(s) \/ Worker(s), ~Begin(s)
  PROVE  IInv'
<1> DEFINE r == session[s].run
<1>a. /\ session[s] \in Sessions /\ r \in Run /\ log[r] \in Seq(Events)
      /\ reduced \in Reductions /\ session[s].revision + 1 \in Nat
      /\ log = [log EXCEPT ![r] = log[r]]
  <2>1. /\ session[s] \in Sessions /\ r \in Run /\ log[r] \in Seq(Events)
        /\ log = [log EXCEPT ![r] = log[r]]
    BY DrivenSession
  <2>2. session[s].revision + 1 \in Nat
    BY <2>1 DEF Sessions
  <2>3. reduced \in Reductions
    BY DEF IInv, TypeOK, Reductions
  <2> QED
    BY <2>1, <2>2, <2>3
\* A step of a driven session whose log gains no marker.
<1>b. ASSUME NEW next \in Sessions, NEW events, Extends(log[r], events, 0),
             next.run = r, next.queue = session[s].queue, next.drive # "starting",
             session[s].drive \notin {"starting", "ended", "none"},
             session' = [session EXCEPT ![s] = next], log' = [log EXCEPT ![r] = events],
             UNCHANGED registered \/ Retire(s), reduced' \in Reductions,
             UNCHANGED <<active, stream>>
      PROVE  IInv'
  <2>1. log[r] # <<>>
    BY <1>b, DrivenSession
  <2>2. events # <<>>
    BY <1>a, <1>b, <2>1, EmptySeq DEF Extends
  <2>3. Moved(s, next) /\ Registers(s)
    BY <1>b, RegistersKept DEF Moved
  <2> QED
    BY <1>b, <2>1, <2>2, <2>3, QuietMove DEF MovesQuietly
<1>c. Extends(log[r], log[r], 0)
  BY <1>a, ExtendsSelf
<1>d. \A kind \in Kinds : Extends(log[r], Append(log[r], Event("transition", kind, session[s].revision + 1)), 0)
  BY <1>a, TransitionExtends
<1>e. \A status \in {"running", "completed", "refused", "cancelled"}, inflight \in BOOLEAN :
        [reduced EXCEPT ![r] = [status |-> status, inflight |-> inflight]] \in Reductions
  BY <1>a DEF Reductions
<1>1. CASE Validate(s) \/ PassGate(s) \/ Wake(s)
  <2>1. PICK place \in {"gate", "ended", "loop"} :
          session' = [session EXCEPT ![s] = [session[s] EXCEPT !.drive = place]]
    BY <1>1 DEF Validate, PassGate, Wake, Set
  <2>2. /\ session[s].drive \in {"validating", "gate", "parked"}
        /\ UNCHANGED <<log, reduced, registered, active, stream>>
    BY <1>1 DEF Validate, PassGate, Wake, durable
  <2> DEFINE next == [session[s] EXCEPT !.drive = place]
  <2>3. /\ next \in Sessions /\ next.run = r /\ next.queue = session[s].queue
        /\ next.drive # "starting"
    BY <1>a DEF Sessions, Drives
  <2> HIDE DEF next
  <2> QED
    BY <1>a, <1>b, <1>c, <2>1, <2>2, <2>3 DEF next
<1>6. CASE Park(s)
  <2> DEFINE next == [session[s] EXCEPT !.drive = "parked", !.changed = FALSE]
  <2>1. /\ session[s].drive = "loop" /\ session' = [session EXCEPT ![s] = next]
        /\ UNCHANGED <<log, reduced, registered, active, stream>>
    BY <1>6 DEF Park, Set, durable
  <2>2. /\ next \in Sessions /\ next.run = r /\ next.queue = session[s].queue
        /\ next.drive # "starting"
    BY <1>a DEF Sessions, Drives
  <2> HIDE DEF next
  <2> QED
    BY <1>a, <1>b, <1>c, <2>1, <2>2
<1>2. CASE Overtaken(s)
  <2> DEFINE next == [session[s] EXCEPT !.drive = "ended"]
  <2>1. /\ session[s].drive = "loop" /\ session' = [session EXCEPT ![s] = next]
        /\ UNCHANGED <<reduced, registered, active, stream>>
        /\ \/ log' = [log EXCEPT ![r] = log[r]]
           \/ log' = [log EXCEPT ![r] = With(log[r], Plain("failed"))]
    BY <1>2, <1>a DEF Overtaken, Set, Conclude
  <2>2. /\ next \in Sessions /\ next.run = r /\ next.queue = session[s].queue
        /\ next.drive # "starting"
    BY <1>a DEF Sessions, Drives
  <2>3. Extends(log[r], With(log[r], Plain("failed")), 0)
    BY <1>a, PlainExtends DEF Types, Verdicts
  <2> HIDE DEF next
  <2> QED
    BY <1>a, <1>b, <1>c, <2>1, <2>2, <2>3
<1>3. CASE Cancelled(s) \/ Dispatch(s) \/ WorkerReturns(s)
  <2>1. PICK place \in {"loop", "working"}, status \in {"running", "completed", "cancelled"},
             inflight \in BOOLEAN :
          /\ session' = [session EXCEPT ![s] = [session[s] EXCEPT !.revision = @ + 1, !.drive = place]]
          /\ reduced' = [reduced EXCEPT ![r] = [status |-> status, inflight |-> inflight]]
    <3>1. CASE Cancelled(s)
      <4>1. [session[s] EXCEPT !.revision = @ + 1] = [session[s] EXCEPT !.revision = @ + 1, !.drive = "loop"]
        BY <1>a, <3>1 DEF Cancelled, Sessions
      <4>2. reduced[r].inflight \in BOOLEAN
        BY <1>a DEF Reductions
      <4> QED
        BY <3>1, <4>1, <4>2 DEF Cancelled, Set, Transition
    <3>2. CASE Dispatch(s) \/ WorkerReturns(s)
      BY <3>2 DEF Dispatch, WorkerReturns, Set, Transition
    <3> QED
      BY <1>3, <3>1, <3>2
  <2>2. /\ session[s].drive \in {"loop", "working"}
        /\ log' = [log EXCEPT ![r] = Append(@, Event("transition", "drive", session[s].revision + 1))]
        /\ UNCHANGED <<registered, active, stream>>
    BY <1>3 DEF Cancelled, Dispatch, WorkerReturns, Transition
  <2> DEFINE next == [session[s] EXCEPT !.revision = @ + 1, !.drive = place]
  <2>3. /\ next \in Sessions /\ next.run = r /\ next.queue = session[s].queue
        /\ next.drive # "starting"
    BY <1>a DEF Sessions, Drives
  <2> HIDE DEF next
  <2>4. /\ log' = [log EXCEPT ![r] = Append(log[r], Event("transition", "drive", session[s].revision + 1))]
        /\ Extends(log[r], Append(log[r], Event("transition", "drive", session[s].revision + 1)), 0)
    BY <1>a, <1>d, <2>2 DEF Kinds
  <2>5. reduced' \in Reductions
    BY <1>e, <2>1
  <2> QED
    BY <1>b, <2>1, <2>2, <2>3, <2>4, <2>5 DEF next
<1>4. CASE WorkerFails(s)
  <2> DEFINE next == [session[s] EXCEPT !.revision = @ + 1, !.drive = "ended"]
             charge == Append(log[r], Event("transition", "drive", session[s].revision + 1))
  <2>1. /\ session[s].drive = "working" /\ session' = [session EXCEPT ![s] = next]
        /\ UNCHANGED registered \/ Retire(s)
        /\ \E status \in {"running", "refused"} :
             reduced' = [reduced EXCEPT ![r] = [status |-> status, inflight |-> FALSE]]
        /\ \/ log' = [log EXCEPT ![r] = charge]
           \/ log' = [log EXCEPT ![r] = With(charge, Plain("failed"))]
        /\ UNCHANGED <<active, stream>>
    BY <1>4 DEF WorkerFails, Set
  <2>2. /\ next \in Sessions /\ next.run = r /\ next.queue = session[s].queue
        /\ next.drive # "starting"
    BY <1>a DEF Sessions, Drives
  <2>3. Extends(log[r], charge, 0)
    BY <1>d DEF Kinds
  <2> HIDE DEF next, charge
  <2>4. Extends(charge, With(charge, Plain("failed")), 0)
    BY <2>3, PlainExtends DEF Types, Verdicts, Extends
  <2>5. Extends(log[r], With(charge, Plain("failed")), 0)
    BY <1>a, <2>3, <2>4, ExtendsOnward
  <2>6. reduced' \in Reductions
    BY <1>e, <2>1
  <2> QED
    BY <1>b, <2>1, <2>2, <2>3, <2>5, <2>6
<1>5. CASE Finish(s)
  <2> DEFINE next == [session[s] EXCEPT !.drive = "ended"]
  <2>1. /\ session[s].drive = "loop" /\ session' = [session EXCEPT ![s] = next]
        /\ Retire(s) /\ UNCHANGED <<reduced, active, stream>>
    BY <1>5 DEF Finish, Set
  <2>2. PICK verdict \in Verdicts : log' = [log EXCEPT ![r] = With(log[r], Plain(verdict))]
    <3>1. \E verdict \in Verdicts : Conclude(r, verdict)
      <4>1. CASE reduced[r].status = "cancelled"
        BY <1>5, <4>1 DEF Finish, Verdicts
      <4>2. CASE reduced[r].status = "refused"
        BY <1>5, <4>2 DEF Finish, Verdicts
      <4>3. CASE reduced[r].status \notin {"cancelled", "refused"} /\ intent[r] = "none"
        BY <1>5, <4>3 DEF Finish, Verdicts
      <4>4. CASE reduced[r].status \notin {"cancelled", "refused"} /\ intent[r] # "none"
        BY <1>5, <4>4 DEF Finish, Verdicts
      <4> QED
        BY <4>1, <4>2, <4>3, <4>4
    <3> QED
      BY <3>1 DEF Conclude
  <2>3. /\ next \in Sessions /\ next.run = r /\ next.queue = session[s].queue
        /\ next.drive # "starting"
    BY <1>a DEF Sessions, Drives
  <2>4. Extends(log[r], With(log[r], Plain(verdict)), 0)
    BY <1>a, PlainExtends DEF Types, Verdicts
  <2> HIDE DEF next
  <2> QED
    BY <1>a, <1>b, <2>1, <2>2, <2>3, <2>4
<1> QED
  BY <1>1, <1>2, <1>3, <1>4, <1>5, <1>6 DEF Drive, Worker

-----------------------------------------------------------------------------
(* Control events, resumptions and cancellations *)

\* A session of a run that has begun moves, and the log gains at most a marker.
MovesLoudly(s, next, events) ==
  /\ Moved(s, next) /\ Registers(s)
  /\ log' = [log EXCEPT ![session[s].run] = events]
  /\ Extends(log[session[s].run], events, 1)
  /\ log[session[s].run] # <<>>
  /\ reduced' \in Reductions
  /\ UNCHANGED stream

\* What is counted of one run is all that has to be counted again.
LEMMA CountedAt ==
  ASSUME IInv, NEW r \in Run,
         \A q \in Run \ {r} : Pending(q)' = Pending(q) /\ log'[q] = log[q],
         IsFiniteSet(Pending(r)'),
         CountOf(log'[r], "accepted") + Cardinality(Pending(r)') <= MaxControls
  PROVE  Counted'
<1>1. ASSUME NEW q \in Run \ {r}
      PROVE  /\ IsFiniteSet(Pending(q)')
             /\ CountOf(log'[q], "accepted") + Cardinality(Pending(q)') <= MaxControls
  BY DEF IInv, Counted
<1> QED
  BY <1>1 DEF Counted, CountOf

\* Such a move keeps the invariant, if what it adds was counted.
LEMMA LoudMove ==
  ASSUME IInv, NEW s, NEW next, NEW events, MovesLoudly(s, next, events), Counted'
  PROVE  IInv'
<1> DEFINE r == session[s].run
<1>1. /\ r \in Run /\ s \in DOMAIN session /\ Moved(s, next) /\ Registers(s)
      /\ session' \in Seq(Sessions)
  BY MovedSession DEF MovesLoudly, Moved
<1>2. /\ Grows /\ log'[r] = events /\ \A q \in Run \ {r} : log'[q] = log[q]
  BY <1>1, GrowsAt DEF MovesLoudly
<1>3. TypeOK'
  BY <1>1, <1>2 DEF TypeOK, IInv, Grows, MovesLoudly, Moved, Registers, Reductions
<1>4. Drivers'
  BY <1>1, MovedDrivers
<1>5. Begun'
  <2>1. /\ log[r] \in Seq(Events) /\ events \in Seq(Events) /\ Len(log[r]) <= Len(events)
        /\ log[r] # <<>>
    BY <1>1 DEF MovesLoudly, Extends, IInv, TypeOK
  <2>2. events # <<>>
    BY <2>1, EmptySeq
  <2> QED
    BY <1>1, <1>2, <2>1, <2>2, MovedBegun
<1>6. Placed' /\ Told'
  BY <1>2, GrowsPlaced, GrowsTold DEF MovesLoudly
<1> QED
  BY <1>3, <1>4, <1>5, <1>6 DEF IInv

\* What a request does once it holds the lock of a session.
LEMMA ApplyMoves ==
  ASSUME IInv, NEW s \in DOMAIN session, NEW request \in Waiting, NEW rest \in Seq(Waiting),
         log[session[s].run] # <<>>, Apply(s, request, rest), UNCHANGED <<active, stream>>
  PROVE  \E next, events : MovesLoudly(s, next, events) /\ next.queue = rest
<1> DEFINE r == session[s].run
           freed == [session[s] EXCEPT !.queue = rest]
           n == session[s].revision
<1>1. /\ session[s] \in Sessions /\ r \in Run /\ log[r] \in Seq(Events) /\ n \in Nat
      /\ session[s].drive # "starting" /\ reduced \in Reductions
      /\ log = [log EXCEPT ![r] = log[r]]
  BY DrivenSession DEF IInv, TypeOK, Reductions, Sessions
<1>2. /\ freed \in Sessions /\ freed.run = r /\ freed.drive = session[s].drive
      /\ freed.queue = rest /\ freed.revision = n
  BY <1>1 DEF Sessions
\* What is left to show of a move.
<1>3. ASSUME NEW next \in Sessions, next.run = r, next.drive = session[s].drive,
             next.queue = rest, Set(s, next), UNCHANGED registered \/ Retire(s),
             NEW events, log' = [log EXCEPT ![r] = events], Extends(log[r], events, 1),
             reduced' \in Reductions
      PROVE  \E mext, fvents : MovesLoudly(s, mext, fvents) /\ mext.queue = rest
  <2>1. Moved(s, next) /\ Registers(s)
    BY <1>1, <1>3, RegistersKept DEF Moved, Set
  <2>2. MovesLoudly(s, next, events) /\ next.queue = rest
    BY <1>3, <2>1 DEF MovesLoudly
  <2> QED
    BY <2>2
<1>4. CASE Set(s, freed) /\ UNCHANGED <<log, reduced, registered>>
  <2>1. Extends(log[r], log[r], 1) /\ log' = [log EXCEPT ![r] = log[r]]
    BY <1>1, <1>4, ExtendsSelf
  <2> HIDE DEF freed
  <2> QED
    BY <1>1, <1>2, <1>3, <1>4, <2>1
<1>5. CASE /\ log' = [log EXCEPT ![r] =
                Accept(With(@, Event("resumed", "", n)), "resume", request.expected)]
           /\ Set(s, [freed EXCEPT !.gate = TRUE, !.changed = TRUE])
           /\ UNCHANGED <<reduced, registered>>
  <2> DEFINE next == [freed EXCEPT !.gate = TRUE, !.changed = TRUE]
             mid == With(log[r], Event("resumed", "", n))
             events == Accept(mid, "resume", request.expected)
  <2>1. next \in Sessions /\ next.run = r /\ next.drive = session[s].drive /\ next.queue = rest
    BY <1>2 DEF Sessions
  <2>2. request.expected \in Nat
    BY DEF Waiting
  <2>3. log' = [log EXCEPT ![r] = events]
    BY <1>1, <1>5
  <2>4. Extends(log[r], events, 1)
    BY <1>1, <2>2, ResumeExtends
  <2> HIDE DEF next, mid, events
  <2>5. Set(s, next)
    BY <1>5 DEF next
  <2> HIDE DEF freed
  <2> QED
    BY <1>1, <1>3, <1>5, <2>1, <2>3, <2>4, <2>5
<1>6. CASE /\ request.expected = n /\ request.kind # "resume"
           /\ log' = [log EXCEPT ![r] =
                Accept(Append(@, Event("transition", "control", n + 1)), "control", request.expected)]
           /\ \E status \in {"running", "refused"} : reduced' = [reduced EXCEPT ![r].status = status]
           /\ UNCHANGED registered \/ Retire(s)
           /\ Set(s, [freed EXCEPT !.revision = @ + 1, !.changed = TRUE])
  <2> DEFINE next == [freed EXCEPT !.revision = @ + 1, !.changed = TRUE]
             events == Accept(Append(log[r], Event("transition", "control", n + 1)), "control", n)
  <2>1. next \in Sessions /\ next.run = r /\ next.drive = session[s].drive /\ next.queue = rest
    <3>1. freed.revision + 1 \in Nat
      BY <1>1, <1>2
    <3> HIDE DEF freed, n
    <3> QED
      BY <1>2, <3>1 DEF Sessions
  <2>2. Extends(log[r], events, 1)
    <3> HIDE DEF r, n
    <3> QED
      BY <1>1, AcceptExtends
  <2>3. log' = [log EXCEPT ![r] = events]
    BY <1>1, <1>6
  <2>4. reduced' \in Reductions
    <3>1. PICK status \in {"running", "refused"} : reduced' = [reduced EXCEPT ![r].status = status]
      BY <1>6
    <3> HIDE DEF next, events, freed, n
    <3> QED
      BY <1>1, <3>1 DEF Reductions
  <2>5. Set(s, next)
    BY <1>6
  <2> HIDE DEF next, events, freed
  <2> QED
    BY <1>1, <1>3, <1>6, <2>1, <2>2, <2>3, <2>4, <2>5
<1> QED
  BY <1>4, <1>5, <1>6 DEF Apply, Fenced

\* A run that has started has a log.
LEMMA StartedHasEvents ==
  ASSUME NEW r, Started(r)
  PROVE  log[r] # <<>>
<1> SUFFICES ASSUME log[r] = <<>> PROVE FALSE
  OBVIOUS
<1>1. {i \in DOMAIN log[r] : log[r][i].type = "started"} = {}
  OBVIOUS
<1>2. CountOf(log[r], "started") = 0
  BY <1>1, FS_EmptySet DEF CountOf
<1> QED
  BY <1>2 DEF Started

\* The counts of a run are numbers.
LEMMA CountsAreNumbers ==
  ASSUME IInv, NEW r \in Run
  PROVE  /\ CountOf(log[r], "accepted") \in Nat /\ Revision(r) \in Nat
         /\ IsFiniteSet(Pending(r)) /\ Cardinality(Pending(r)) \in Nat
         /\ PendingControls(r) = Cardinality(Pending(r))
<1>1. log[r] \in Seq(Events) /\ IsFiniteSet(Pending(r))
  BY DEF IInv, TypeOK, Counted
<1> QED
  BY <1>1, CountType, FS_CardinalityType DEF Revision, PendingControls, Pending

\* What a log that gains a marker counts.
LEMMA MarkerAdded ==
  ASSUME IInv, NEW r \in Run, NEW events, log' = [log EXCEPT ![r] = events],
         Extends(log[r], events, 1)
  PROVE  /\ log'[r] = events /\ \A q \in Run \ {r} : log'[q] = log[q]
         /\ CountOf(events, "accepted") <= CountOf(log[r], "accepted") + 1
         /\ CountOf(events, "accepted") \in Nat
<1>1. log'[r] = events /\ \A q \in Run \ {r} : log'[q] = log[q]
  BY GrowsAt
<1>2. events \in Seq(Events) /\ CountOf(events, "accepted") <= CountOf(log[r], "accepted") + 1
  BY DEF Extends
<1>3. CountOf(events, "accepted") \in Nat
  BY <1>2, CountType
<1> QED
  BY <1>1, <1>2, <1>3

\* A request that gets the lock adds the marker it was counted for.
LEMMA GrantedKeepsIInv ==
  ASSUME IInv, NEW s \in DOMAIN session, Granted(s)
  PROVE  IInv'
<1> DEFINE queue == session[s].queue
<1>0. PICK r \in Run : r = session[s].run
  BY DrivenSession
<1>1. /\ session[s] \in Sessions /\ r \in Run /\ queue \in Seq(Waiting) /\ queue # <<>>
      /\ log[r] # <<>>
  BY <1>0, DrivenSession DEF Granted, Sessions, IInv, Begun
<1>2. Head(queue) \in Waiting /\ Tail(queue) \in Seq(Waiting)
  BY <1>1
<1>3. PICK next, events : MovesLoudly(s, next, events) /\ next.queue = Tail(queue)
  BY <1>0, <1>1, <1>2, ApplyMoves DEF Granted
<1>4. /\ DOMAIN session' = DOMAIN session /\ session'[s] = next /\ next.run = r
      /\ \A q \in DOMAIN session \ {s} : session'[q] = session[q]
  BY <1>0, <1>3, MovedSession DEF MovesLoudly, Moved
<1>5. \A q : /\ Pending(q)' = IF q = r THEN Pending(q) \ {<<s, Len(queue)>>} ELSE Pending(q)
             /\ q = r => <<s, Len(queue)>> \in Pending(q)
  <2>1. \A q \in DOMAIN session : session'[q].run = session[q].run
    BY <1>0, <1>4
  <2>2. \A q \in DOMAIN session \ {s} : session'[q].queue = session[q].queue
    BY <1>4
  <2>3. session'[s].queue = Tail(session[s].queue)
    BY <1>3, <1>4
  <2> QED
    BY <1>0, <1>1, <1>4, <2>1, <2>2, <2>3, PendingLess
<1>6. /\ log'[r] = events /\ CountOf(events, "accepted") <= CountOf(log[r], "accepted") + 1
      /\ CountOf(events, "accepted") \in Nat
      /\ \A q \in Run \ {r} : log'[q] = log[q]
  <2>1. Extends(log[r], events, 1) /\ log' = [log EXCEPT ![r] = events]
    BY <1>0, <1>3 DEF MovesLoudly
  <2> QED
    BY <1>1, <2>1, MarkerAdded
<1>7. /\ IsFiniteSet(Pending(r)') /\ Cardinality(Pending(r)') = Cardinality(Pending(r)) - 1
      /\ Cardinality(Pending(r)) \in Nat /\ CountOf(log[r], "accepted") \in Nat
      /\ CountOf(log[r], "accepted") + Cardinality(Pending(r)) <= MaxControls
  <2>1. IsFiniteSet(Pending(r)) /\ <<s, Len(queue)>> \in Pending(r)
    BY <1>1, <1>5, CountsAreNumbers
  <2>2. Pending(r)' = Pending(r) \ {<<s, Len(queue)>>}
    BY <1>5
  <2>3. /\ IsFiniteSet(Pending(r) \ {<<s, Len(queue)>>})
        /\ Cardinality(Pending(r) \ {<<s, Len(queue)>>}) = Cardinality(Pending(r)) - 1
    BY <2>1, FS_RemoveElement
  <2>4. CountOf(log[r], "accepted") + Cardinality(Pending(r)) <= MaxControls
    BY <1>1 DEF IInv, Counted
  <2> QED
    BY <1>1, <2>2, <2>3, <2>4, CountsAreNumbers
<1>8. CountOf(log'[r], "accepted") + Cardinality(Pending(r)') <= MaxControls
  <2>1. MaxControls \in Nat
    BY ControlAssumption
  <2> HIDE DEF queue
  <2> QED
    BY <1>6, <1>7, <2>1
<1>9. \A q \in Run \ {r} : Pending(q)' = Pending(q)
  BY <1>5
<1>10. Counted'
  <2> HIDE DEF queue
  <2> QED
    BY <1>1, <1>6, <1>7, <1>8, <1>9, CountedAt
<1> QED
  BY <1>3, <1>10, LoudMove

\* A request for a run with a session is counted before it is handled.
LEMMA ControlKeepsIInv ==
  ASSUME IInv, NEW r \in Run, NEW request \in Requests(r), Control(r, request)
  PROVE  IInv'
<1> DEFINE s == registered[r]
           queue == session[s].queue
<1>1. /\ s \in DOMAIN session /\ session[s].run = r /\ session[s] \in Sessions
      /\ queue \in Seq(Waiting) /\ log[r] # <<>> /\ log[r] \in Seq(Events)
  <2>1. s \in DOMAIN session /\ session[s].run = r
    BY DEF Control, IInv, Drivers
  <2> QED
    BY <2>1, DrivenSession, StartedHasEvents DEF Control, Sessions, IInv, TypeOK
<1>2. request \in Waiting /\ UNCHANGED <<active, stream>>
  BY CountsAreNumbers DEF Requests, Waiting, Control
<1>3. /\ CountOf(log[r], "accepted") \in Nat /\ Cardinality(Pending(r)) \in Nat
      /\ IsFiniteSet(Pending(r)) /\ MaxControls \in Nat
      /\ CountOf(log[r], "accepted") + Cardinality(Pending(r)) < MaxControls
  BY CountsAreNumbers, ControlAssumption DEF Control, WithinLimit
<1>4. CASE LockFree(s) /\ queue = <<>>
  <2>1. PICK next, events : MovesLoudly(s, next, events) /\ next.queue = <<>>
    <3>1. Apply(s, request, <<>>) /\ <<>> \in Seq(Waiting)
      BY <1>4 DEF Control
    <3> HIDE DEF s
    <3> QED
      BY <1>1, <1>2, <3>1, ApplyMoves
  <2>2. /\ DOMAIN session' = DOMAIN session /\ session'[s] = next /\ next.run = r
        /\ \A q \in DOMAIN session \ {s} : session'[q] = session[q]
    BY <1>1, <2>1, MovedSession DEF MovesLoudly, Moved
  <2>3. \A q : Pending(q)' = Pending(q)
    <3>1. \A q \in DOMAIN session : /\ session'[q].run = session[q].run
                                    /\ session'[q].queue = session[q].queue
      BY <1>1, <1>4, <2>1, <2>2
    <3> QED
      BY <2>2, <3>1, PendingSame
  <2>4. /\ log'[r] = events /\ CountOf(events, "accepted") <= CountOf(log[r], "accepted") + 1
        /\ CountOf(events, "accepted") \in Nat
        /\ \A q \in Run \ {r} : log'[q] = log[q]
    <3>1. Extends(log[r], events, 1) /\ log' = [log EXCEPT ![r] = events]
      BY <1>1, <2>1 DEF MovesLoudly
    <3> QED
      BY <3>1, MarkerAdded
  <2>5. CountOf(log'[r], "accepted") + Cardinality(Pending(r)') <= MaxControls
    BY <1>3, <2>3, <2>4
  <2>6. Counted'
    BY <1>3, <2>3, <2>4, <2>5, CountedAt
  <2> QED
    BY <2>1, <2>6, LoudMove
<1>5. CASE /\ Set(s, [session[s] EXCEPT !.queue = Append(@, request)])
           /\ UNCHANGED <<log, reduced, registered>>
  <2> DEFINE next == [session[s] EXCEPT !.queue = Append(@, request)]
  <2>1. Append(queue, request) \in Seq(Waiting)
    BY <1>1, <1>2
  <2>2. /\ next \in Sessions /\ next.run = r /\ next.queue = Append(queue, request)
        /\ next.drive = session[s].drive /\ session[s].drive # "starting"
    BY <1>1, <2>1, DrivenSession DEF Sessions
  <2>3. Moved(s, next) /\ Registers(s)
    <3> HIDE DEF next
    <3>1. Moved(s, next)
      BY <1>1, <1>2, <1>5, <2>2 DEF Moved, Set, next
    <3>2. Registers(s)
      BY <1>1, <1>5, RegistersKept
    <3> QED
      BY <3>1, <3>2
  <2>4. /\ log' = [log EXCEPT ![r] = log[r]] /\ Extends(log[r], log[r], 1)
        /\ reduced' \in Reductions
    BY <1>1, <1>5, ExtendsSelf, DrivenSession DEF IInv, TypeOK, Reductions
  <2> HIDE DEF next
  <2>5. MovesLoudly(s, next, log[r])
    BY <1>1, <1>2, <2>3, <2>4 DEF MovesLoudly
  <2>6. /\ DOMAIN session' = DOMAIN session /\ session'[s] = next
        /\ \A q \in DOMAIN session \ {s} : session'[q] = session[q]
    BY <2>3, MovedSession
  <2>7. \A q : Pending(q)' = IF q = r THEN Pending(q) \cup {<<s, Len(queue) + 1>>} ELSE Pending(q)
    <3>1. \A q \in DOMAIN session : session'[q].run = session[q].run
      BY <1>1, <2>2, <2>6
    <3>2. \A q \in DOMAIN session \ {s} : session'[q].queue = session[q].queue
      BY <2>6
    <3> QED
      BY <1>1, <1>2, <2>2, <2>6, <3>1, <3>2, PendingMore
  <2>8. IsFiniteSet(Pending(r)') /\ Cardinality(Pending(r)') <= Cardinality(Pending(r)) + 1
        /\ Cardinality(Pending(r)') \in Nat
    <3>1. Pending(r)' = Pending(r) \cup {<<s, Len(queue) + 1>>}
      BY <2>7
    <3>2. /\ IsFiniteSet(Pending(r) \cup {<<s, Len(queue) + 1>>})
          /\ \/ Cardinality(Pending(r) \cup {<<s, Len(queue) + 1>>}) = Cardinality(Pending(r))
             \/ Cardinality(Pending(r) \cup {<<s, Len(queue) + 1>>}) = Cardinality(Pending(r)) + 1
      BY <1>3, FS_AddElement
    <3> QED
      BY <1>3, <3>1, <3>2
  <2>9. CountOf(log'[r], "accepted") + Cardinality(Pending(r)') <= MaxControls
    BY <1>3, <1>5, <2>8
  <2>10. Counted'
    BY <1>5, <2>7, <2>8, <2>9, CountedAt
  <2> QED
    BY <2>5, <2>10, LoudMove
<1> QED
  BY <1>4, <1>5 DEF Control

\* A cancellation reaches the session in _active.
LEMMA CancelKeepsIInv ==
  ASSUME IInv, NEW r \in Run, Cancel(r)
  PROVE  IInv'
<1> DEFINE s == active[r]
           next == [session[s] EXCEPT !.cancelling = TRUE]
           events == With(log[r], Plain("cancel_requested"))
<1>1. /\ s \in DOMAIN session /\ session[s].run = r /\ session[s] \in Sessions
      /\ log[r] # <<>> /\ log[r] \in Seq(Events) /\ session[s].drive # "starting"
  <2>1. s \in DOMAIN session /\ session[s].run = r /\ log[r] # <<>>
    BY DEF Cancel, IInv, Drivers
  <2> QED
    BY <2>1, DrivenSession
<1>2. /\ next \in Sessions /\ next.run = r /\ next.queue = session[s].queue
      /\ next.drive = session[s].drive
  BY <1>1 DEF Sessions
<1>3. session' = [session EXCEPT ![s] = next] /\ UNCHANGED <<reduced, registered, active, stream>>
  BY DEF Cancel, Set
<1>4. Extends(log[r], events, 0)
  BY <1>1, PlainExtends DEF Types
<1>5. log' = [log EXCEPT ![r] = events]
  BY DEF Cancel
<1>6. events # <<>>
  BY <1>1, <1>4, EmptySeq DEF Extends
<1> HIDE DEF next, events
<1>7. Moved(s, next) /\ Registers(s)
  BY <1>1, <1>2, <1>3, RegistersKept DEF Moved
<1>8. reduced' \in Reductions
  BY <1>3 DEF IInv, TypeOK, Reductions
<1> QED
  BY <1>1, <1>2, <1>3, <1>4, <1>5, <1>6, <1>7, <1>8, QuietMove DEF MovesQuietly

-----------------------------------------------------------------------------
(* New sessions *)

\* _active keeps the tasks that go on, and may gain the one of the new session.
Activates(r, next) ==
  \/ next.drive = "none" /\ active' \in {active, Collected}
  \/ /\ active[r] # 0 => Done(active[r])
     /\ Room /\ active' = [Collected EXCEPT ![r] = Len(session) + 1]

\* A session of the run r is made, and the run's log becomes events.
Joins(r, next, events) ==
  /\ next \in Sessions /\ next.run = r /\ next.queue = <<>>
  /\ session' = Append(session, next)
  /\ registered' \in [Run -> Nat]
  /\ \A q \in Run : \/ registered'[q] \in {registered[q], 0}
                    \/ q = r /\ registered'[q] = Len(session) + 1
  /\ Activates(r, next)
  /\ log' = [log EXCEPT ![r] = events]
  /\ Extends(log[r], events, 1)
  /\ CountOf(events, "accepted") + Cardinality(Pending(r)) <= MaxControls
  /\ next.drive = "starting" <=> log[r] = <<>>
  /\ log[r] = <<>> => events = <<>>
  /\ reduced' \in Reductions
  /\ UNCHANGED stream

\* What the new session is and what the others stay.
LEMMA JoinedSession ==
  ASSUME IInv, NEW next \in Sessions, session' = Append(session, next)
  PROVE  LET new == Len(session) + 1
         IN /\ session' \in Seq(Sessions) /\ new \in Nat \ {0} /\ new \notin DOMAIN session
            /\ DOMAIN session' = DOMAIN session \cup {new} /\ session'[new] = next
            /\ \A q \in DOMAIN session : session'[q] = session[q]
            /\ 0 \notin DOMAIN session
<1> DEFINE new == Len(session) + 1
<1>1. /\ session \in Seq(Sessions) /\ DOMAIN session = 1..Len(session) /\ Len(session) \in Nat
  BY DEF IInv, TypeOK
<1>2. /\ session' \in Seq(Sessions) /\ DOMAIN session' = 1..new /\ session'[new] = next
      /\ \A q \in DOMAIN session : session'[q] = session[q]
  BY <1>1
<1>3. 1..new = 1..Len(session) \cup {new} /\ new \notin 1..Len(session) /\ 0 \notin 1..Len(session)
  BY <1>1
<1> HIDE DEF new
<1>4. DOMAIN session' = DOMAIN session \cup {new}
  BY <1>1, <1>2, <1>3
<1>5. new \in Nat \ {0}
  BY <1>1 DEF new
<1> QED
  BY <1>1, <1>2, <1>3, <1>4, <1>5 DEF new

\* A new session drives its run alone, and there was room for it.
LEMMA JoinedDrivers ==
  ASSUME IInv, NEW r \in Run, NEW next, NEW events, Joins(r, next, events)
  PROVE  Drivers' /\ active' \in [Run -> Nat]
<1>0. PICK new : new = Len(session) + 1
  OBVIOUS
<1>1. /\ next \in Sessions /\ next.run = r /\ session' = Append(session, next)
      /\ new \in Nat \ {0} /\ new \notin DOMAIN session
      /\ DOMAIN session' = DOMAIN session \cup {new} /\ session'[new] = next
      /\ \A q \in DOMAIN session : session'[q] = session[q]
      /\ 0 \notin DOMAIN session
  BY <1>0, JoinedSession DEF Joins
<1>2. /\ active \in [Run -> Nat] /\ Collected \in [Run -> Nat]
      /\ \A q \in Run : /\ Collected[q] \in {active[q], 0}
                        /\ Collected[q] = active[q] \/ Done(active[q])
                        /\ Collected[q] # 0 <=> q \in Going
      /\ \A q \in Run : active[q] # 0 => active[q] \in DOMAIN session /\ session[active[q]].run = q
      /\ \A s \in Live : active[session[s].run] = s
      /\ \A s \in DOMAIN session : session[s].run \in Run
  <2>1. active \in [Run -> Nat]
    BY DEF IInv, TypeOK
  <2>2. \A s \in DOMAIN session : session[s].run \in Run
    BY DrivenSession
  <2> QED
    BY <2>1, <2>2 DEF IInv, Drivers, Collected, Going
<1>3. \A q \in Run :
        registered'[q] # 0 => registered'[q] \in DOMAIN session' /\ session'[registered'[q]].run = q
  BY <1>0, <1>1 DEF Joins, IInv, Drivers
<1>4. IsFiniteSet(Going) /\ Cardinality(Going) <= MaxActive /\ Cardinality(Going) \in Nat
  BY FS_CardinalityType DEF IInv, Drivers
<1>5. CASE next.drive = "none" /\ active' \in {active, Collected}
  <2>1. Live' = Live
    BY <1>1, <1>5 DEF Live
  <2>2. \A s \in Live' : active'[session'[s].run] = s
    BY <1>1, <1>2, <1>5, <2>1 DEF Live, Done
  <2>3. active' \in [Run -> Nat]
    BY <1>2, <1>5
  <2>4. \A q \in Run : active'[q] # 0 => active'[q] \in DOMAIN session' /\ session'[active'[q]].run = q
    BY <1>1, <1>2, <1>5
  <2>5. Going' \subseteq Going
    BY <1>1, <1>2, <1>5 DEF Going, Done
  <2>6. IsFiniteSet(Going') /\ Cardinality(Going') <= MaxActive
    <3>1. IsFiniteSet(Going') /\ Cardinality(Going') <= Cardinality(Going)
      BY <1>4, <2>5, FS_Subset
    <3> QED
      BY <1>4, <3>1, FS_CardinalityType, ControlAssumption
  <2> QED
    BY <1>3, <2>2, <2>3, <2>4, <2>6 DEF Drivers
<1>6. CASE /\ active[r] # 0 => Done(active[r])
           /\ Room /\ active' = [Collected EXCEPT ![r] = new]
  <2>1. Live' \subseteq Live \cup {new}
    BY <1>1 DEF Live
  <2>2. active' \in [Run -> Nat] /\ active'[r] = new /\ \A q \in Run \ {r} : active'[q] = Collected[q]
    BY <1>1, <1>2, <1>6
  <2>3. \A s \in Live : session[s].run # r /\ Collected[session[s].run] = s
    BY <1>1, <1>2, <1>6 DEF Live, Done
  <2>4. \A s \in Live' : active'[session'[s].run] = s
    BY <1>1, <1>2, <2>1, <2>2, <2>3 DEF Live
  <2>5. \A q \in Run : active'[q] # 0 => active'[q] \in DOMAIN session' /\ session'[active'[q]].run = q
    <3>1. ASSUME NEW q \in Run \ {r}, active'[q] # 0
          PROVE  active'[q] \in DOMAIN session' /\ session'[active'[q]].run = q
      <4>1. active'[q] = active[q]
        BY <1>2, <2>2, <3>1
      <4> QED
        BY <1>1, <1>2, <3>1, <4>1
    <3>2. active'[r] \in DOMAIN session' /\ session'[active'[r]].run = r
      BY <1>1, <2>2
    <3> QED
      BY <3>1, <3>2
  <2>6. Going' \subseteq Going \cup {r}
    BY <1>2, <2>2 DEF Going
  <2>7. Cardinality(Going) < MaxActive
    <3>1. {q \in Run : Collected[q] # 0} = Going
      BY <1>2 DEF Going
    <3> QED
      BY <1>6, <3>1 DEF Room
  <2>8. IsFiniteSet(Going') /\ Cardinality(Going') <= MaxActive
    <3>1. /\ IsFiniteSet(Going \cup {r}) /\ Cardinality(Going \cup {r}) <= Cardinality(Going) + 1
          /\ Cardinality(Going \cup {r}) \in Nat
      <4>1. /\ IsFiniteSet(Going \cup {r})
            /\ \/ Cardinality(Going \cup {r}) = Cardinality(Going)
               \/ Cardinality(Going \cup {r}) = Cardinality(Going) + 1
        BY <1>4, FS_AddElement
      <4> QED
        BY <1>4, <4>1
    <3>2. IsFiniteSet(Going') /\ Cardinality(Going') <= Cardinality(Going \cup {r})
      BY <2>6, <3>1, FS_Subset
    <3>3. Cardinality(Going') \in Nat
      BY <3>2, FS_CardinalityType
    <3> QED
      BY <1>4, <2>7, <3>1, <3>2, <3>3, ControlAssumption
  <2> QED
    BY <1>3, <2>2, <2>4, <2>5, <2>8 DEF Drivers
<1> QED
  BY <1>0, <1>5, <1>6 DEF Joins, Activates

\* A session that joins keeps the invariant.
LEMMA JoinKeepsIInv ==
  ASSUME IInv, NEW r \in Run, NEW next, NEW events, Joins(r, next, events)
  PROVE  IInv'
<1>0. PICK new : new = Len(session) + 1
  OBVIOUS
<1>1. /\ next \in Sessions /\ next.run = r /\ next.queue = <<>> /\ session' = Append(session, next)
      /\ session' \in Seq(Sessions) /\ new \in Nat \ {0} /\ new \notin DOMAIN session
      /\ DOMAIN session' = DOMAIN session \cup {new} /\ session'[new] = next
      /\ \A q \in DOMAIN session : session'[q] = session[q]
  BY <1>0, JoinedSession DEF Joins
<1>2. /\ Grows /\ log'[r] = events /\ \A q \in Run \ {r} : log'[q] = log[q]
  BY <1>1, GrowsAt DEF Joins
<1>3. Drivers' /\ active' \in [Run -> Nat]
  BY JoinedDrivers
<1>4. TypeOK'
  BY <1>1, <1>2, <1>3 DEF TypeOK, IInv, Grows, Joins, Reductions
<1>5. Begun'
  <2>1. /\ log[r] \in Seq(Events) /\ events \in Seq(Events) /\ Len(log[r]) <= Len(events)
    BY DEF Joins, Extends, IInv, TypeOK
  <2>2. events = <<>> <=> log[r] = <<>>
    BY <2>1, EmptySeq DEF Joins
  <2>3. next.drive = "starting" <=> log[r] = <<>>
    BY DEF Joins
  <2>4. ASSUME NEW q \in DOMAIN session
        PROVE  /\ session'[q].drive = "starting" => log'[session'[q].run] = <<>>
               /\ log'[session'[q].run] = <<>> =>
                    session'[q].drive \in {"starting", "ended"} /\ session'[q].queue = <<>>
    <3>1. log'[session[q].run] = <<>> <=> log[session[q].run] = <<>>
      BY <1>2, <2>2, DrivenSession
    <3> QED
      BY <1>1, <3>1 DEF IInv, Begun
  <2> QED
    BY <1>1, <1>2, <2>2, <2>3, <2>4 DEF Begun
<1>6. Counted'
  <2>1. \A q : Pending(q)' = Pending(q)
    <3>1. \A q \in DOMAIN session : /\ session'[q].run = session[q].run
                                    /\ session'[q].queue = session[q].queue
      BY <1>1
    <3>2. \A q \in DOMAIN session' \ DOMAIN session : session'[q].queue = <<>>
      BY <1>1
    <3> QED
      BY <1>1, <3>1, <3>2, PendingSame
  <2>2. IsFiniteSet(Pending(r)')
    BY <2>1, CountsAreNumbers
  <2>3. CountOf(log'[r], "accepted") + Cardinality(Pending(r)') <= MaxControls
    BY <1>2, <2>1 DEF Joins
  <2> QED
    BY <1>2, <2>1, <2>2, <2>3, CountedAt
<1>7. Placed' /\ Told'
  BY <1>2, GrowsPlaced, GrowsTold DEF Joins
<1> QED
  BY <1>3, <1>4, <1>5, <1>6, <1>7 DEF IInv

\* A session is made as the runtime makes it.
LEMMA NewSessionShape ==
  ASSUME IInv, NEW r \in Run, NEW paused \in BOOLEAN, NEW drive \in Drives
  PROVE  /\ NewSession(r, paused, drive) \in Sessions
         /\ NewSession(r, paused, drive).run = r
         /\ NewSession(r, paused, drive).queue = <<>>
         /\ NewSession(r, paused, drive).drive = drive
         /\ NewSession(r, paused, drive).revision \in Nat
<1>1. Revision(r) \in Nat
  BY CountsAreNumbers
<1>2. <<>> \in Seq(Waiting) /\ (~paused) \in BOOLEAN
  OBVIOUS
<1> QED
  BY <1>1, <1>2 DEF NewSession, Sessions

\* A submission keeps the invariant.
LEMMA SubmitKeepsIInv ==
  ASSUME IInv, NEW r \in Run, Submit(r)
  PROVE  IInv'
<1>1. PICK paused \in BOOLEAN : session' = Append(session, NewSession(r, paused, "starting"))
  BY DEF Submit
<1>2. PICK next : next = NewSession(r, paused, "starting")
  OBVIOUS
<1>3. next \in Sessions /\ next.run = r /\ next.queue = <<>> /\ next.drive = "starting"
  BY <1>2, NewSessionShape DEF Drives
<1>4. /\ log[r] \in Seq(Events) /\ log' = [log EXCEPT ![r] = log[r]]
      /\ registered \in [Run -> Nat] /\ UNCHANGED <<reduced, registered, stream>>
      /\ reduced \in Reductions
  BY DEF Submit, durable, IInv, TypeOK, Reductions
<1>5. Extends(log[r], log[r], 1)
  BY <1>4, ExtendsSelf
<1>6. CountOf(log[r], "accepted") + Cardinality(Pending(r)) <= MaxControls
  BY DEF IInv, Counted
<1>7. Activates(r, next)
  BY DEF Submit, Activates
<1>8. log[r] = <<>> /\ session' = Append(session, next)
  BY <1>1, <1>2 DEF Submit
<1>9. Joins(r, next, log[r])
  BY <1>3, <1>4, <1>5, <1>6, <1>7, <1>8 DEF Joins
<1> QED
  BY <1>9, JoinKeepsIInv

\* What the marker of a request counts for.
LEMMA MarkerCounts ==
  ASSUME IInv, NEW r \in Run, WithinLimit(r), NEW events, Extends(log[r], events, 1)
  PROVE  CountOf(events, "accepted") + Cardinality(Pending(r)) <= MaxControls
<1>1. /\ CountOf(events, "accepted") <= CountOf(log[r], "accepted") + 1
      /\ CountOf(events, "accepted") \in Nat
  BY CountType DEF Extends
<1>2. CountOf(log[r], "accepted") + Cardinality(Pending(r)) < MaxControls
  BY CountsAreNumbers DEF WithinLimit
<1> QED
  BY <1>1, <1>2, CountsAreNumbers, ControlAssumption

\* A control event for a run without a session makes one that nobody drives.
LEMMA ControlOrphanKeepsIInv ==
  ASSUME IInv, NEW r \in Run, ControlOrphan(r)
  PROVE  IInv'
<1> DEFINE n == Revision(r)
           plain == NewSession(r, TRUE, "none")
           next == [plain EXCEPT !.revision = @ + 1, !.changed = TRUE]
           events == Accept(Append(log[r], Event("transition", "control", n + 1)), "control", n)
<1>1. next \in Sessions /\ next.run = r /\ next.queue = <<>> /\ next.drive = "none"
  <2>1. /\ plain \in Sessions /\ plain.run = r /\ plain.queue = <<>> /\ plain.drive = "none"
        /\ plain.revision \in Nat
    <3>1. "none" \in Drives /\ TRUE \in BOOLEAN
      BY DEF Drives
    <3> QED
      BY <3>1, NewSessionShape
  <2> HIDE DEF plain
  <2>2. plain.revision + 1 \in Nat
    BY <2>1
  <2> QED
    BY <2>1, <2>2 DEF Sessions
<1>2. /\ session' = Append(session, next) /\ log' = [log EXCEPT ![r] = events]
      /\ UNCHANGED <<active, stream>>
  BY DEF ControlOrphan
<1>3. log[r] \in Seq(Events) /\ n \in Nat /\ log[r] # <<>>
  BY CountsAreNumbers, StartedHasEvents DEF ControlOrphan, IInv, TypeOK
<1>4. Extends(log[r], events, 1)
  BY <1>3, AcceptExtends
<1>5. WithinLimit(r)
  BY DEF ControlOrphan
<1>6. reduced' \in Reductions
  <2>1. reduced \in Reductions
    BY DEF IInv, TypeOK, Reductions
  <2>2. PICK status \in {"running", "refused"} : reduced' = [reduced EXCEPT ![r].status = status]
    BY DEF ControlOrphan
  <2> QED
    BY <2>1, <2>2 DEF Reductions
<1>7. /\ registered' \in [Run -> Nat]
      /\ \A q \in Run : \/ registered'[q] \in {registered[q], 0}
                        \/ q = r /\ registered'[q] = Len(session) + 1
  <2>1. registered \in [Run -> Nat] /\ Len(session) + 1 \in Nat
    BY DEF IInv, TypeOK
  <2>2. PICK place \in {Len(session) + 1, 0} : registered' = [registered EXCEPT ![r] = place]
    BY DEF ControlOrphan
  <2> QED
    BY <2>1, <2>2
<1> HIDE DEF n, next, events
<1>8. CountOf(events, "accepted") + Cardinality(Pending(r)) <= MaxControls
  BY <1>4, <1>5, MarkerCounts
<1>9. Activates(r, next)
  BY <1>1, <1>2 DEF Activates
<1>10. Joins(r, next, events)
  BY <1>1, <1>2, <1>3, <1>4, <1>6, <1>7, <1>8, <1>9 DEF Joins
<1> QED
  BY <1>10, JoinKeepsIInv

\* A session that nobody drives keeps the invariant, whatever its request came to.
LEMMA IdleJoinKeepsIInv ==
  ASSUME IInv, NEW r \in Run, NEW next \in Sessions, NEW events,
         next.run = r, next.queue = <<>>, next.drive = "none",
         session' = Append(session, next), log' = [log EXCEPT ![r] = events],
         Extends(log[r], events, 1), WithinLimit(r), log[r] # <<>>,
         NEW place \in {0, Len(session) + 1}, registered' = [registered EXCEPT ![r] = place],
         active' \in {active, Collected}, UNCHANGED <<reduced, stream>>
  PROVE  IInv'
<1>1. /\ registered' \in [Run -> Nat]
      /\ \A q \in Run : \/ registered'[q] \in {registered[q], 0}
                        \/ q = r /\ registered'[q] = Len(session) + 1
  <2>1. registered \in [Run -> Nat] /\ Len(session) + 1 \in Nat
    BY DEF IInv, TypeOK
  <2> QED
    BY <2>1
<1>2. CountOf(events, "accepted") + Cardinality(Pending(r)) <= MaxControls
  BY MarkerCounts
<1>3. reduced' \in Reductions
  BY DEF IInv, TypeOK, Reductions
<1>4. Joins(r, next, events)
  BY <1>1, <1>2, <1>3 DEF Joins, Activates
<1> QED
  BY <1>4, JoinKeepsIInv

\* A resumption, or a refusal, of a run without a session keeps the invariant.
LEMMA ResumeOrphanKeepsIInv ==
  ASSUME IInv, NEW r \in Run, ResumeOrphan(r)
  PROVE  IInv'
<1> DEFINE n == Revision(r)
           plain == NewSession(r, TRUE, "none")
           resumed == Accept(With(log[r], Event("resumed", "", n)), "resume", n)
<1>1. PICK resumes \in BOOLEAN :
        /\ session' = Append(session, [plain EXCEPT !.gate = resumes, !.changed = resumes])
        /\ log' = IF resumes THEN [log EXCEPT ![r] = resumed] ELSE log
  BY DEF ResumeOrphan
<1> DEFINE next == [plain EXCEPT !.gate = resumes, !.changed = resumes]
           events == IF resumes THEN resumed ELSE log[r]
<1>2. next \in Sessions /\ next.run = r /\ next.queue = <<>> /\ next.drive = "none"
  <2>1. "none" \in Drives /\ TRUE \in BOOLEAN
    BY DEF Drives
  <2>2. /\ plain \in Sessions /\ plain.run = r /\ plain.queue = <<>> /\ plain.drive = "none"
    BY <2>1, NewSessionShape
  <2> HIDE DEF plain
  <2> QED
    BY <2>2 DEF Sessions
<1>3. log[r] \in Seq(Events) /\ n \in Nat /\ log[r] # <<>> /\ log \in [Run -> Seq(Events)]
  BY CountsAreNumbers, StartedHasEvents DEF ResumeOrphan, IInv, TypeOK
<1>4. Extends(log[r], events, 1)
  BY <1>3, ResumeExtends, ExtendsSelf
<1>5. log' = [log EXCEPT ![r] = events] /\ session' = Append(session, next)
  <2> HIDE DEF resumed, plain
  <2> QED
    BY <1>1, <1>3
<1>6. PICK place \in {0, Len(session) + 1} : registered' = [registered EXCEPT ![r] = place]
  BY DEF ResumeOrphan
<1>7. WithinLimit(r) /\ UNCHANGED <<active, reduced, stream>>
  BY DEF ResumeOrphan
<1> HIDE DEF next, events
<1> QED
  BY <1>2, <1>3, <1>4, <1>5, <1>6, <1>7, IdleJoinKeepsIInv

\* A recovery that is refused leaves a session nobody drives.
LEMMA RecoverRefusedKeepsIInv ==
  ASSUME IInv, NEW r \in Run, RecoverRefused(r)
  PROVE  IInv'
<1> DEFINE next == NewSession(r, FALSE, "none")
           events == log[r]
<1>1. next \in Sessions /\ next.run = r /\ next.queue = <<>> /\ next.drive = "none"
  <2>1. "none" \in Drives /\ FALSE \in BOOLEAN
    BY DEF Drives
  <2> QED
    BY <2>1, NewSessionShape
<1>2. /\ session' = Append(session, next) /\ log' = log /\ WithinLimit(r)
      /\ active' = Collected /\ UNCHANGED <<reduced, stream>>
      /\ registered' = [registered EXCEPT ![r] = Len(session) + 1]
  BY DEF RecoverRefused, durable
<1>3. events \in Seq(Events) /\ events # <<>> /\ log' = [log EXCEPT ![r] = events]
  BY <1>2, StartedHasEvents DEF RecoverRefused, IInv, TypeOK
<1>4. Extends(log[r], events, 1)
  BY <1>3, ExtendsSelf
<1> HIDE DEF next
<1> QED
  BY <1>1, <1>2, <1>3, <1>4, IdleJoinKeepsIInv

\* A recovery makes a session that is driven again, or that nobody drives.
LEMMA RecoverKeepsIInv ==
  ASSUME IInv, NEW r \in Run, Recover(r)
  PROVE  IInv'
<1> DEFINE n == Revision(r)
           inflight == reduced[r].inflight
           mid == IF inflight THEN Append(log[r], Event("transition", "recover", n + 1)) ELSE log[r]
           events == Accept(mid, "recover", n)
<1>1. /\ log[r] \in Seq(Events) /\ n \in Nat /\ log[r] # <<>> /\ reduced \in Reductions
      /\ inflight \in BOOLEAN
  BY CountsAreNumbers, StartedHasEvents DEF Recover, IInv, TypeOK, Reductions
<1>2. PICK status \in {"running", "refused", "completed"}, same \in BOOLEAN :
        /\ reduced' = [reduced EXCEPT ![r] = [status |-> status, inflight |-> FALSE]]
        /\ registered' = [registered EXCEPT ![r] = IF status = "running" THEN Len(session) + 1 ELSE 0]
        /\ session' = Append(session, [NewSession(r, FALSE, IF same THEN "validating" ELSE "none")
               EXCEPT !.revision = IF inflight THEN @ + 1 ELSE @, !.resumed = TRUE, !.changed = TRUE])
        /\ active' = [Collected EXCEPT ![r] = IF same THEN Len(session) + 1 ELSE @]
  <2>1. \A status \in {"running"} \cup (IF inflight THEN {"refused", "completed"} ELSE {}) :
          status \in {"running", "refused", "completed"}
    OBVIOUS
  <2>2. \A same \in (IF \E i \in DOMAIN log[r] : log[r][i] = Event("accepted", "recover", n)
                     THEN BOOLEAN ELSE {TRUE}) : same \in BOOLEAN
    OBVIOUS
  <2> QED
    BY <2>1, <2>2 DEF Recover
<1> DEFINE plain == NewSession(r, FALSE, IF same THEN "validating" ELSE "none")
           next == [plain EXCEPT !.revision = IF inflight THEN @ + 1 ELSE @,
                                 !.resumed = TRUE, !.changed = TRUE]
<1>3. /\ next \in Sessions /\ next.run = r /\ next.queue = <<>>
      /\ next.drive = IF same THEN "validating" ELSE "none"
  <2>1. /\ plain \in Sessions /\ plain.run = r /\ plain.queue = <<>>
        /\ plain.drive = IF same THEN "validating" ELSE "none"
        /\ plain.revision \in Nat
    <3> DEFINE drive == IF same THEN "validating" ELSE "none"
    <3>1. drive \in Drives /\ FALSE \in BOOLEAN
      BY DEF Drives
    <3> HIDE DEF drive
    <3>2. /\ NewSession(r, FALSE, drive) \in Sessions /\ NewSession(r, FALSE, drive).run = r
          /\ NewSession(r, FALSE, drive).queue = <<>> /\ NewSession(r, FALSE, drive).drive = drive
          /\ NewSession(r, FALSE, drive).revision \in Nat
      BY <3>1, NewSessionShape
    <3> QED
      BY <3>2 DEF drive
  <2> HIDE DEF plain, inflight
  <2>2. (IF inflight THEN plain.revision + 1 ELSE plain.revision) \in Nat
    BY <2>1
  <2> QED
    BY <2>1, <2>2 DEF Sessions
<1>4. /\ session' = Append(session, next) /\ log' = [log EXCEPT ![r] = events]
      /\ UNCHANGED stream
  BY <1>2 DEF Recover
<1>5. Extends(log[r], events, 1)
  <2>1. Extends(log[r], mid, 0)
    <3>1. Extends(log[r], Append(log[r], Event("transition", "recover", n + 1)), 0)
      <4>1. "recover" \in Kinds /\ n + 1 \in Nat
        BY <1>1 DEF Kinds
      <4> QED
        BY <1>1, <4>1, TransitionExtends
    <3>2. Extends(log[r], log[r], 0)
      BY <1>1, ExtendsSelf
    <3> QED
      BY <3>1, <3>2
  <2>2. Extends(mid, events, 1)
    <3> DEFINE marker == Event("accepted", "recover", n)
    <3>1. "accepted" \in Types /\ "recover" \in Kinds
      BY DEF Types, Kinds
    <3>2. marker \in Events /\ marker.type = "accepted" /\ marker.kind = "recover"
      BY <1>1, <3>1 DEF Event, Events
    <3>3. mid \in Seq(Events) /\ events = With(mid, marker)
      BY <2>1 DEF Extends, Accept
    <3> HIDE DEF mid, events, marker
    <3> QED
      BY <3>2, <3>3, AppendExtends
  <2> HIDE DEF mid, events
  <2> QED
    BY <1>1, <2>1, <2>2, ExtendsOnward
<1>6. WithinLimit(r) /\ Room /\ (active[r] # 0 => Done(active[r]))
  BY DEF Recover, Orphan
<1>7. reduced' \in Reductions
  BY <1>1, <1>2 DEF Reductions
<1>8. /\ registered' \in [Run -> Nat]
      /\ \A q \in Run : \/ registered'[q] \in {registered[q], 0}
                        \/ q = r /\ registered'[q] = Len(session) + 1
  <2>1. registered \in [Run -> Nat] /\ Len(session) + 1 \in Nat
    BY DEF IInv, TypeOK
  <2>2. PICK place \in {Len(session) + 1, 0} : registered' = [registered EXCEPT ![r] = place]
    BY <1>2
  <2> QED
    BY <2>1, <2>2
<1>9. Activates(r, next)
  <2>1. CASE same
    BY <1>2, <1>6, <2>1 DEF Activates
  <2>2. CASE ~same
    <3>1. active' = Collected
      BY <1>2, <2>2 DEF Collected
    <3> QED
      BY <1>3, <2>2, <3>1 DEF Activates
  <2> QED
    BY <2>1, <2>2
<1> HIDE DEF n, next, events
<1>10. next.drive # "starting"
  BY <1>3
<1>11. CountOf(events, "accepted") + Cardinality(Pending(r)) <= MaxControls
  BY <1>5, <1>6, MarkerCounts
<1>12. Joins(r, next, events)
  BY <1>1, <1>3, <1>4, <1>5, <1>7, <1>8, <1>9, <1>10, <1>11 DEF Joins
<1> QED
  BY <1>12, JoinKeepsIInv

-----------------------------------------------------------------------------
(* Approvals, crashes and clients *)

\* Nothing that the invariant speaks of has changed.
LEMMA UnmovedKeepsIInv ==
  ASSUME IInv, UNCHANGED <<log, reduced, memory, stream>>
  PROVE  IInv'
<1>1. UNCHANGED <<log, reduced, session, registered, active, stream>>
  BY DEF memory
<1>2. TypeOK' /\ Drivers' /\ Begun' /\ Placed' /\ Told'
  BY <1>1 DEF IInv, TypeOK, Drivers, Live, Going, Done, Begun, Placed, Told
<1>3. Counted'
  BY <1>1 DEF IInv, Counted, Pending
<1> QED
  BY <1>2, <1>3 DEF IInv

\* An approval adds its event to the log of a run that is over.
LEMMA ApproveKeepsIInv ==
  ASSUME IInv, NEW r \in Run, Approve(r)
  PROVE  IInv'
<1> DEFINE events == With(log[r], Plain("effect_approved"))
<1>1. /\ log' = [log EXCEPT ![r] = events]
      /\ UNCHANGED <<reduced, session, registered, active, stream>>
  BY DEF Approve, memory
<1>2. log[r] \in Seq(Events) /\ \A q \in Run : log[q] \in Seq(Events)
  BY DEF IInv, TypeOK
<1>3. Extends(log[r], events, 0) /\ CountOf(events, "accepted") <= CountOf(log[r], "accepted")
  <2>1. "effect_approved" \in Types
    BY DEF Types
  <2>2. Extends(log[r], events, 0)
    BY <1>2, <2>1, PlainExtends
  <2>3. CountOf(log[r], "accepted") \in Nat /\ CountOf(events, "accepted") \in Nat
    BY <1>2, <2>2, CountType DEF Extends
  <2> QED
    BY <2>2, <2>3 DEF Extends
<1>4. log[r] # <<>>
  BY DEF Approve, Verdict
<1> HIDE DEF events
<1>5. /\ Grows /\ log'[r] = events /\ \A q \in Run \ {r} : log'[q] = log[q]
  BY <1>1, <1>3, GrowsAt
<1>6. events # <<>>
  BY <1>2, <1>3, <1>4, EmptySeq DEF Extends
<1>7. TypeOK'
  BY <1>1, <1>5 DEF IInv, TypeOK, Grows
<1>8. Drivers'
  BY <1>1 DEF IInv, Drivers, Live, Going, Done
<1>9. Begun'
  <2>1. \A q \in Run : log'[q] = <<>> <=> log[q] = <<>>
    BY <1>4, <1>5, <1>6
  <2> QED
    BY <1>1, <2>1, DrivenSession DEF IInv, Begun
<1>10. Counted'
  <2>1. \A q : Pending(q)' = Pending(q)
    BY <1>1 DEF Pending
  <2>2. \A q \in Run : CountOf(log'[q], "accepted") <= CountOf(log[q], "accepted")
    <3>1. \A q \in Run : CountOf(log[q], "accepted") \in Nat
      BY <1>2, CountType
    <3> QED
      BY <1>3, <1>5, <3>1
  <2> QED
    BY <1>5, <2>1, <2>2, SameCounted DEF Grows
<1>11. Placed' /\ Told'
  BY <1>1, <1>5, GrowsPlaced, GrowsTold
<1> QED
  BY <1>7, <1>8, <1>9, <1>10, <1>11 DEF IInv

\* A task that has ended leaves _active.
LEMMA ExecutionDoneKeepsIInv ==
  ASSUME IInv, NEW r \in Run, ExecutionDone(r)
  PROVE  IInv'
<1>1. /\ active' = [active EXCEPT ![r] = 0] /\ active[r] # 0 /\ Done(active[r])
      /\ UNCHANGED <<log, reduced, session, registered, stream>>
  BY DEF ExecutionDone, durable
<1>2. /\ active' \in [Run -> Nat] /\ active'[r] = 0
      /\ \A q \in Run \ {r} : active'[q] = active[q]
  BY <1>1 DEF IInv, TypeOK
<1>3. TypeOK'
  BY <1>1, <1>2 DEF IInv, TypeOK
<1>4. Drivers'
  <2>1. Live' = Live
    BY <1>1 DEF Live
  <2>2. \A s \in Live : session[s].run \in Run /\ session[s].run # r
    BY <1>1, DrivenSession DEF IInv, Drivers, Live, Done
  <2>3. Going' \subseteq Going
    BY <1>1, <1>2 DEF Going, Done
  <2>4. IsFiniteSet(Going) /\ Cardinality(Going) <= MaxActive
    BY DEF IInv, Drivers
  <2>5. IsFiniteSet(Going') /\ Cardinality(Going') <= Cardinality(Going)
    BY <2>3, <2>4, FS_Subset
  <2>6. Cardinality(Going') <= MaxActive
    BY <2>4, <2>5, FS_CardinalityType, ControlAssumption
  <2>7. \A s \in Live' : active'[session'[s].run] = s
    BY <1>1, <1>2, <2>1, <2>2 DEF IInv, Drivers
  <2>8. \A q \in Run :
          /\ active'[q] # 0 => active'[q] \in DOMAIN session' /\ session'[active'[q]].run = q
          /\ registered'[q] # 0 => registered'[q] \in DOMAIN session' /\ session'[registered'[q]].run = q
    BY <1>1, <1>2 DEF IInv, Drivers
  <2> QED
    BY <2>5, <2>6, <2>7, <2>8 DEF Drivers
<1>5. Begun' /\ Placed' /\ Told'
  BY <1>1 DEF IInv, Begun, Placed, Told
<1>6. Counted'
  BY <1>1 DEF IInv, Counted, Pending
<1> QED
  BY <1>3, <1>4, <1>5, <1>6 DEF IInv

\* A process that dies keeps its logs.
LEMMA DiesKeepsIInv ==
  ASSUME IInv, Dies, UNCHANGED <<log, reduced>>
  PROVE  IInv'
<1>1. /\ session' = <<>> /\ registered' = [r \in Run |-> 0] /\ active' = [r \in Run |-> 0]
      /\ stream' = [w \in Watcher |-> [stream[w] EXCEPT !.phase = "closed"]]
  BY DEF Dies
<1>2. stream' \in [Watcher -> Follows]
  BY <1>1 DEF IInv, TypeOK, Follows
<1>3. TypeOK'
  BY <1>1, <1>2 DEF IInv, TypeOK
<1>4. Drivers'
  <2>1. Live' = {} /\ Going' = {}
    BY <1>1 DEF Live, Going
  <2>2. IsFiniteSet({}) /\ Cardinality({}) = 0
    BY FS_EmptySet
  <2>3. IsFiniteSet(Going') /\ Cardinality(Going') = 0
    BY <2>1, <2>2
  <2> QED
    BY <1>1, <2>1, <2>3, ControlAssumption DEF Drivers
<1>5. Begun'
  BY <1>1 DEF Begun
<1>6. Counted'
  <2>1. \A r : Pending(r)' \subseteq Pending(r)
    BY <1>1 DEF Pending
  <2>2. \A r \in Run : log[r] \in Seq(Events) /\ CountOf(log[r], "accepted") \in Nat
    BY CountType DEF IInv, TypeOK
  <2> QED
    BY <2>1, <2>2, SameCounted
<1>7. Placed'
  BY DEF IInv, Placed
<1>8. Told'
  <2>1. \A w \in Watcher : /\ stream'[w].run = stream[w].run /\ stream'[w].seen = stream[w].seen
                           /\ stream'[w].cursor = stream[w].cursor
                           /\ stream'[w].ended = stream[w].ended
    BY <1>1 DEF IInv, TypeOK, Follows
  <2> QED
    BY <2>1 DEF IInv, Told
<1> QED
  BY <1>3, <1>4, <1>5, <1>6, <1>7, <1>8 DEF IInv

\* A client moves on.
LEMMA ClientMoves ==
  ASSUME IInv, NEW w \in Watcher, NEW next \in Follows, Moves(w, next),
         next.run = stream[w].run, Len(next.seen) = next.cursor,
         next.cursor <= Len(log[next.run]),
         \A i \in 1..Len(next.seen) : next.seen[i] = log[next.run][i]
  PROVE  IInv'
<1>1. /\ stream' = [stream EXCEPT ![w] = next]
      /\ UNCHANGED <<log, reduced, session, registered, active>>
  BY DEF Moves, durable, memory
<1>2. /\ stream' \in [Watcher -> Follows] /\ stream'[w] = next
      /\ \A v \in Watcher \ {w} : stream'[v] = stream[v]
  BY <1>1 DEF IInv, TypeOK
<1>3. TypeOK'
  BY <1>1, <1>2 DEF IInv, TypeOK
<1>4. Drivers' /\ Begun' /\ Placed'
  BY <1>1 DEF IInv, Drivers, Live, Going, Done, Begun, Placed
<1>5. Counted'
  BY <1>1 DEF IInv, Counted, Pending
<1>6. Told'
  BY <1>1, <1>2 DEF IInv, Told
<1> QED
  BY <1>3, <1>4, <1>5, <1>6 DEF IInv

\* What is known of a client.
LEMMA ClientShape ==
  ASSUME IInv, NEW w \in Watcher
  PROVE  /\ stream[w] \in Follows /\ stream[w].run \in Run /\ stream[w].cursor \in Nat
         /\ stream[w].seen \in Seq(Events)
         /\ log[stream[w].run] \in Seq(Events) /\ Len(log[stream[w].run]) \in Nat
         /\ Len(stream[w].seen) = stream[w].cursor
         /\ stream[w].cursor <= Len(log[stream[w].run])
         /\ \A i \in 1..Len(stream[w].seen) : stream[w].seen[i] = log[stream[w].run][i]
BY ControlAssumption DEF IInv, TypeOK, Told, Follows

\* Connections come and go.
LEMMA ConnectionsKeepIInv ==
  ASSUME IInv, NEW w \in Watcher, Connect(w) \/ Disconnect(w)
  PROVE  IInv'
<1>1. PICK phase \in {"read", "closed"} : Moves(w, [stream[w] EXCEPT !.phase = phase])
  BY DEF Connect, Disconnect
<1> DEFINE next == [stream[w] EXCEPT !.phase = phase]
<1>2. /\ next \in Follows /\ next.run = stream[w].run /\ next.seen = stream[w].seen
      /\ next.cursor = stream[w].cursor /\ next.ended = stream[w].ended
  BY ClientShape DEF Follows
<1> HIDE DEF next
<1> QED
  BY <1>1, <1>2, ClientShape, ClientMoves DEF next

\* Who was told the first events of a log, and then those that follow, was told
\* the first of them.
LEMMA ToldOn ==
  ASSUME NEW events \in Seq(Events), NEW told \in Seq(Events), NEW sent \in Nat,
         Len(told) + sent <= Len(events),
         \A i \in 1..Len(told) : told[i] = events[i]
  PROVE  LET more == told \o SubSeq(events, Len(told) + 1, Len(told) + sent)
         IN /\ more \in Seq(Events) /\ Len(more) = Len(told) + sent
            /\ \A i \in 1..Len(more) : more[i] = events[i]
<1> DEFINE n == Len(told)
           fresh == SubSeq(events, n + 1, n + sent)
           more == told \o fresh
<1>1. n \in Nat /\ n + 1 \in Int /\ n + sent \in Int /\ Len(events) \in Nat
  BY LenProperties
<1>2. \A i \in (n + 1)..(n + sent) : events[i] \in Events
  <2>1. (n + 1)..(n + sent) \subseteq 1..Len(events)
    BY <1>1
  <2>2. \A i \in 1..Len(events) : events[i] \in Events
    OBVIOUS
  <2> HIDE DEF n
  <2> QED
    BY <2>1, <2>2
<1>3. n + sent - (n + 1) + 1 = sent /\ (n + 1 <= n + sent <=> sent > 0)
  BY <1>1
<1> HIDE DEF n
<1>4. /\ fresh \in Seq(Events)
      /\ Len(fresh) = IF n + 1 <= n + sent THEN n + sent - (n + 1) + 1 ELSE 0
      /\ \A i \in 1..(n + sent - (n + 1) + 1) : fresh[i] = events[n + 1 + i - 1]
  BY <1>1, <1>2, SubSeqProperties
<1>5. Len(fresh) = sent /\ \A i \in 1..sent : fresh[i] = events[n + i]
  <2>1. \A i \in 1..sent : n + 1 + i - 1 = n + i
    BY <1>1
  <2>2. Len(fresh) = sent
    BY <1>3, <1>4
  <2> HIDE DEF fresh
  <2> QED
    BY <1>3, <1>4, <2>1, <2>2
<1> HIDE DEF fresh
<1>6. /\ more \in Seq(Events) /\ Len(more) = n + sent
      /\ \A i \in 1..(n + sent) : more[i] = IF i <= n THEN told[i] ELSE fresh[i - n]
  BY <1>4, <1>5, ConcatProperties DEF n
<1> HIDE DEF more
<1>7. \A i \in 1..(n + sent) : more[i] = events[i]
  <2> TAKE i \in 1..(n + sent)
  <2>1. CASE i <= n
    <3>1. i \in 1..n
      BY <1>1, <2>1
    <3> QED
      BY <1>6, <2>1, <3>1 DEF n
  <2>2. CASE ~ (i <= n)
    <3>1. i - n \in 1..sent /\ n + (i - n) = i
      BY <1>1, <2>2
    <3>2. fresh[i - n] = events[n + (i - n)]
      BY <1>5, <3>1
    <3> QED
      BY <1>6, <2>2, <3>1, <3>2
  <2> QED
    BY <2>1, <2>2
<1> QED
  BY <1>6, <1>7 DEF more, fresh, n

\* What is sent comes right after what was.
LEMMA SendEventsKeepsIInv ==
  ASSUME IInv, NEW w \in Watcher, SendEvents(w)
  PROVE  IInv'
<1> DEFINE follows == stream[w]
           cursor == follows.cursor
           recorded == log[follows.run]
<1>1. PICK sent \in 0..(Len(recorded) - cursor), phase \in {"told", "closed"} :
        Moves(w, [follows EXCEPT !.phase = phase, !.cursor = cursor + sent,
                    !.seen = @ \o SubSeq(recorded, cursor + 1, cursor + sent)])
  BY DEF SendEvents, CursorAfter
<1> DEFINE more == follows.seen \o SubSeq(recorded, cursor + 1, cursor + sent)
           next == [follows EXCEPT !.phase = phase, !.cursor = cursor + sent, !.seen = more]
<1>2. /\ follows \in Follows /\ cursor \in Nat /\ recorded \in Seq(Events)
      /\ Len(recorded) \in Nat /\ cursor <= Len(recorded)
      /\ follows.seen \in Seq(Events) /\ Len(follows.seen) = cursor
      /\ \A i \in 1..Len(follows.seen) : follows.seen[i] = recorded[i]
  BY ClientShape
<1>3. sent \in Nat /\ cursor + sent \in Nat /\ cursor + sent <= Len(recorded)
  BY <1>1, <1>2
<1>4. /\ more \in Seq(Events) /\ Len(more) = cursor + sent
      /\ \A i \in 1..Len(more) : more[i] = recorded[i]
  <2> DEFINE told == follows.seen
  <2>1. told \in Seq(Events) /\ Len(told) = cursor /\ more = told \o SubSeq(recorded, Len(told) + 1, Len(told) + sent)
    BY <1>2
  <2>2. Len(told) + sent <= Len(recorded) /\ \A i \in 1..Len(told) : told[i] = recorded[i]
    BY <1>2, <1>3
  <2> HIDE DEF told, more, recorded, cursor
  <2>3. /\ told \o SubSeq(recorded, Len(told) + 1, Len(told) + sent) \in Seq(Events)
        /\ Len(told \o SubSeq(recorded, Len(told) + 1, Len(told) + sent)) = Len(told) + sent
        /\ \A i \in 1..Len(told \o SubSeq(recorded, Len(told) + 1, Len(told) + sent)) :
             (told \o SubSeq(recorded, Len(told) + 1, Len(told) + sent))[i] = recorded[i]
    <3>1. recorded \in Seq(Events) /\ told \in Seq(Events) /\ sent \in Nat
      BY <1>2, <1>3, <2>1
    <3> QED
      BY <2>2, <3>1, ToldOn, Zenon
  <2> QED
    BY <2>1, <2>3
<1>5. Moves(w, next)
  BY <1>1
<1> HIDE DEF more
<1>6. /\ next.run = follows.run /\ next.cursor = cursor + sent /\ next.seen = more
      /\ next \in Follows
  <2> HIDE DEF follows, cursor, recorded
  <2> QED
    BY <1>2, <1>3, <1>4 DEF Follows
<1> HIDE DEF next
<1>7. /\ Len(next.seen) = next.cursor /\ next.cursor <= Len(log[next.run])
      /\ \A i \in 1..Len(next.seen) : next.seen[i] = log[next.run][i]
  BY <1>3, <1>4, <1>6
<1> QED
  BY <1>5, <1>6, <1>7, ClientMoves

\* The end of a stream is checked.
LEMMA CheckEndKeepsIInv ==
  ASSUME IInv, NEW w \in Watcher, CheckEnd(w)
  PROVE  IInv'
<1> DEFINE over == OverAndTold(stream[w])
           next == [stream[w] EXCEPT !.phase = IF over THEN "closed" ELSE "read", !.ended = over]
<1>1. Moves(w, next)
  BY DEF CheckEnd
<1>2. over \in BOOLEAN
  BY DEF OverAndTold
<1> HIDE DEF over
<1>3. /\ next \in Follows /\ next.run = stream[w].run /\ next.seen = stream[w].seen
      /\ next.cursor = stream[w].cursor
  BY <1>2, ClientShape DEF Follows
<1> HIDE DEF next
<1> QED
  BY <1>1, <1>3, ClientShape, ClientMoves

\* Only the check of its end ends a stream.
LEMMA EndedByCheck ==
  ASSUME IInv, [Next]_vars, NEW w \in Watcher, stream'[w].ended, ~stream[w].ended
  PROVE  CheckEnd(w)
<1>1. stream \in [Watcher -> Follows] /\ stream[w] \in Follows
  BY DEF IInv, TypeOK
<1>2. stream # stream'
  OBVIOUS
<1>3. CASE \E v \in Watcher : Stream(v)
  <2>1. PICK v \in Watcher : SendEvents(v) \/ CheckEnd(v)
    BY <1>3 DEF Stream
  <2>2. v # w => stream'[w] = stream[w]
    BY <1>1, <2>1 DEF SendEvents, CheckEnd, Moves
  <2>3. SendEvents(w) => stream'[w].ended = stream[w].ended
    BY <1>1 DEF SendEvents, Moves, Follows
  <2> QED
    BY <2>1, <2>2, <2>3
<1>4. CASE \E v \in Watcher : Connect(v) \/ Disconnect(v)
  <2>1. PICK v \in Watcher, p \in {"read", "closed"} :
          stream' = [stream EXCEPT ![v] = [stream[v] EXCEPT !.phase = p]]
    BY <1>4 DEF Connect, Disconnect, Moves
  <2> QED
    BY <1>1, <2>1 DEF Follows
<1>5. CASE Dies
  BY <1>1, <1>5 DEF Dies, Follows
<1>6. CASE UNCHANGED stream
  BY <1>2, <1>6
<1>7. \/ UNCHANGED stream \/ Dies
      \/ \E v \in Watcher : Stream(v) \/ Connect(v) \/ Disconnect(v)
  <2>1. CASE UNCHANGED vars
    BY <2>1 DEF vars
  <2>2. CASE \E v \in DOMAIN session : Drive(v) \/ Worker(v) \/ Granted(v)
    BY <2>2 DEF Drive, Worker, Granted, Begin, Validate, PassGate, Overtaken, Cancelled,
       Dispatch, Park, Wake, Finish, WorkerReturns, WorkerFails
  <2>3. CASE \E r \in Run : ExecutionDone(r)
    BY <2>3 DEF ExecutionDone
  <2>4. CASE Client
    BY <2>4 DEF Client, Submit, Control, ControlOrphan, ResumeOrphan, Recover, RecoverRefused,
       Cancel, Approve
  <2>5. CASE Fault
    BY <2>5 DEF Fault, Crash, CrashInApproval, PreparedElsewhere
  <2>6. CASE \E v \in Watcher : Stream(v)
    BY <2>6
  <2> QED
    BY <2>1, <2>2, <2>3, <2>4, <2>5, <2>6 DEF Next
<1> QED
  BY <1>3, <1>4, <1>5, <1>6, <1>7

-----------------------------------------------------------------------------
(* The theorems *)

\* A stream of a followed run that was never read is a stream.
LEMMA ClosedFollow ==
  ASSUME NEW r \in Followed
  PROVE  [run |-> r, phase |-> "closed", cursor |-> 0, seen |-> <<>>, ended |-> FALSE] \in Follows
<1>1. <<>> \in Seq(Events)
  OBVIOUS
<1> QED
  BY <1>1 DEF Follows

\* The program starts in the invariant.
LEMMA InitIInv ==
  ASSUME Init
  PROVE  IInv
<1>1. TypeOK
  <2>1. log \in [Run -> Seq(Events)] /\ session \in Seq(Sessions)
    BY DEF Init
  <2>2. \A follows \in [run : Followed, phase : {"closed"}, cursor : {0}, seen : {<<>>}, ended : {FALSE}] :
          follows \in Follows
    <3> TAKE follows \in [run : Followed, phase : {"closed"}, cursor : {0}, seen : {<<>>}, ended : {FALSE}]
    <3>1. follows.phase = "closed" /\ follows.cursor = 0 /\ follows.seen = <<>> /\ follows.ended = FALSE
      OBVIOUS
    <3>2. follows.run \in Followed
      OBVIOUS
    <3>3. follows = [run |-> follows.run, phase |-> "closed", cursor |-> 0, seen |-> <<>>, ended |-> FALSE]
      BY <3>1
    <3> QED
      BY <3>2, <3>3, ClosedFollow
  <2>3. stream \in [Watcher -> Follows]
    BY <2>2 DEF Init
  <2> QED
    BY <2>1, <2>3 DEF Init, TypeOK
<1>2. Drivers
  <2>1. Live = {} /\ Going = {}
    BY DEF Init, Live, Going
  <2>2. IsFiniteSet({}) /\ Cardinality({}) = 0
    BY FS_EmptySet
  <2> QED
    BY <2>1, <2>2, ControlAssumption DEF Init, Drivers
<1>3. Begun
  BY DEF Init, Begun
<1>4. Counted
  <2> SUFFICES ASSUME NEW r \in Run
               PROVE  IsFiniteSet(Pending(r)) /\ CountOf(log[r], "accepted") + Cardinality(Pending(r)) <= MaxControls
    BY DEF Counted
  <2>1. Pending(r) = {}
    BY DEF Init, Pending
  <2>2. {i \in DOMAIN log[r] : log[r][i].type = "accepted"} = {}
    BY DEF Init
  <2>3. CountOf(log[r], "accepted") = 0 /\ IsFiniteSet({}) /\ Cardinality({}) = 0
    BY <2>2, FS_EmptySet DEF CountOf
  <2> QED
    BY <2>1, <2>3, ControlAssumption
<1>5. Placed
  BY DEF Init, Placed, InPlace
<1>6. Told
  <2> SUFFICES ASSUME NEW w \in Watcher
               PROVE  /\ Len(stream[w].seen) = stream[w].cursor
                      /\ stream[w].cursor <= Len(log[stream[w].run])
                      /\ Len(stream[w].seen) = 0
    BY DEF Told
  <2>1. stream[w].seen = <<>> /\ stream[w].cursor = 0 /\ stream[w].run \in Followed
    BY DEF Init
  <2>2. log[stream[w].run] = <<>>
    BY <2>1, ControlAssumption DEF Init
  <2> QED
    BY <2>1, <2>2
<1> QED
  BY <1>1, <1>2, <1>3, <1>4, <1>5, <1>6 DEF IInv

\* Every step of the control plane keeps the invariant.
LEMMA StepKeepsIInv ==
  ASSUME IInv, [Next]_vars
  PROVE  IInv'
<1>1. CASE UNCHANGED vars
  BY <1>1, UnmovedKeepsIInv DEF vars, durable
<1>2. CASE \E s \in DOMAIN session : Drive(s) \/ Worker(s) \/ Granted(s)
  BY <1>2, BeginKeepsIInv, DriveKeepsIInv, GrantedKeepsIInv
<1>3. CASE \E r \in Run : ExecutionDone(r)
  BY <1>3, ExecutionDoneKeepsIInv
<1>4. CASE \E w \in Watcher : Stream(w)
  BY <1>4, SendEventsKeepsIInv, CheckEndKeepsIInv DEF Stream
<1>5. CASE Client
  BY <1>5, SubmitKeepsIInv, ControlOrphanKeepsIInv, ResumeOrphanKeepsIInv, RecoverKeepsIInv,
     RecoverRefusedKeepsIInv, CancelKeepsIInv,
     ApproveKeepsIInv, ControlKeepsIInv, ConnectionsKeepIInv DEF Client
<1>6. CASE Fault
  <2>1. CASE Crash
    BY <2>1, DiesKeepsIInv DEF Crash, durable
  <2>2. CASE \E r \in Run : CrashInApproval(r)
    BY <2>2, DiesKeepsIInv DEF CrashInApproval
  <2>3. CASE \E r \in Run : PreparedElsewhere(r)
    BY <2>3, UnmovedKeepsIInv DEF PreparedElsewhere
  <2> QED
    BY <1>6, <2>1, <2>2, <2>3 DEF Fault
<1> QED
  BY <1>1, <1>2, <1>3, <1>4, <1>5, <1>6 DEF Next

\* The invariant holds in every behaviour of the control plane.
THEOREM Invariance == Spec => []IInv
<1>1. Init => IInv
  BY InitIInv
<1>2. IInv /\ [Next]_vars => IInv'
  BY StepKeepsIInv
<1> QED
  BY <1>1, <1>2, PTL DEF Spec

\* However requests, failures and crashes fall together, a run has at most one
\* task that drives it, the one a cancellation reaches, and max_active_runs
\* bounds the tasks that go on.
THEOREM DriversAreSingle == Spec => []OneDriverEach
<1>1. IInv => OneDriverEach
  <2> SUFFICES ASSUME IInv PROVE OneDriverEach
    OBVIOUS
  <2>1. \A s \in Live : active[session[s].run] = s
    BY DEF IInv, Drivers
  <2>2. 0 \notin DOMAIN session /\ \A s \in Live : session[s].run \in Run
    BY DrivenSession DEF Live, IInv, TypeOK
  <2> DEFINE run == [s \in Live |-> session[s].run]
  <2>3. run \in Injection(Live, Going)
    <3>1. \A s \in Live : session[s].run \in Going
      BY <2>1, <2>2 DEF Going, Done, Live
    <3>2. \A s, t \in Live : session[s].run = session[t].run => s = t
      BY <2>1
    <3> QED
      BY <3>1, <3>2 DEF Injection, IsInjective
  <2> HIDE DEF run
  <2>4. IsFiniteSet(Going) /\ Cardinality(Going) <= MaxActive
    BY DEF IInv, Drivers
  <2>5. IsFiniteSet(Live) /\ Cardinality(Live) <= Cardinality(Going)
    BY <2>3, <2>4, FS_Injection
  <2>6. Cardinality(Live) <= MaxActive
    BY <2>4, <2>5, FS_CardinalityType, ControlAssumption
  <2> QED
    BY <2>1, <2>6 DEF OneDriverEach
<1> QED
  BY <1>1, Invariance, PTL

\* The accepted control events of a run stay within their limit, though requests
\* queue behind a lock, and each is recorded right after its own transition, at
\* the revision its request named.
THEOREM ControlsKeepOrder == Spec => []ControlsAreOrderly
<1>1. IInv => ControlsAreOrderly
  <2> SUFFICES ASSUME IInv PROVE ControlsAreOrderly
    OBVIOUS
  <2>1. ControlsAreBounded
    <3> SUFFICES ASSUME NEW r \in Run PROVE CountOf(log[r], "accepted") <= MaxControls
      BY DEF ControlsAreBounded
    <3>1. CountOf(log[r], "accepted") + Cardinality(Pending(r)) <= MaxControls
      BY DEF IInv, Counted
    <3> QED
      BY <3>1, CountsAreNumbers, ControlAssumption
  <2>2. ControlsAreFenced
    BY DEF IInv, Placed, InPlace, ControlsAreFenced
  <2> QED
    BY <2>1, <2>2 DEF ControlsAreOrderly
<1> QED
  BY <1>1, Invariance, PTL

\* A client was told the events of its run in order, each once and with no gap,
\* and at the step that ends its stream it was told all there are, a verdict
\* among them.
THEOREM ClientsAreToldAll == Spec => StreamsTellAll
<1>1. IInv /\ IInv' /\ [Next]_vars => StreamsTell
  <2> SUFFICES ASSUME IInv, IInv', [Next]_vars, NEW w \in Watcher
               PROVE  LET told == stream'[w].seen
                          recorded == log'[stream'[w].run]
                      IN /\ Len(told) <= Len(recorded)
                         /\ \A i \in 1..Len(told) : told[i] = recorded[i]
                         /\ stream'[w].ended /\ ~stream[w].ended =>
                              told = recorded /\ Verdict(recorded) # ""
    BY DEF StreamsTell
  <2> DEFINE told == stream'[w].seen
             recorded == log'[stream'[w].run]
  <2>1. /\ Len(told) = stream'[w].cursor /\ Len(told) <= Len(recorded)
        /\ \A i \in 1..Len(told) : told[i] = recorded[i]
    BY DEF IInv, Told
  <2>2. told \in Seq(Events) /\ recorded \in Seq(Events)
    BY ControlAssumption DEF IInv, TypeOK, Follows
  <2>3. ASSUME stream'[w].ended, ~stream[w].ended
        PROVE  told = recorded /\ Verdict(recorded) # ""
    <3>1. CheckEnd(w)
      BY <2>3, EndedByCheck
    <3>2. stream[w] \in Follows /\ stream \in [Watcher -> Follows]
      BY DEF IInv, TypeOK
    <3>3. /\ stream'[w].run = stream[w].run /\ stream'[w].cursor = stream[w].cursor
          /\ stream'[w].ended = OverAndTold(stream[w]) /\ log' = log
      BY <3>1, <3>2 DEF CheckEnd, Moves, durable, Follows
    <3>4. Verdict(recorded) # "" /\ stream'[w].cursor >= Len(recorded)
      BY <2>3, <3>3 DEF OverAndTold
    <3>5. Len(told) = Len(recorded)
      <4>1. Len(told) \in Nat /\ Len(recorded) \in Nat
        BY <2>2, LenProperties
      <4>2. Len(told) <= Len(recorded) /\ Len(told) >= Len(recorded)
        <5> HIDE DEF told, recorded
        <5> QED
          BY <2>1, <3>4
      <4> HIDE DEF told, recorded
      <4> QED
        BY <4>1, <4>2
    <3> HIDE DEF told, recorded
    <3> QED
      BY <2>1, <2>2, <3>4, <3>5, SeqEqual
  <2> QED
    BY <2>1, <2>3
<1> QED
  BY <1>1, Invariance, PTL DEF Spec, StreamsTellAll

-----------------------------------------------------------------------------
(* The front of the requests *)

\* A set of natural numbers that is not empty has a smallest element.
LEMMA MinIsLeast ==
  ASSUME NEW S \in SUBSET Nat, S # {}
  PROVE  Min(S) \in S /\ \A m \in S : Min(S) <= m
BY LeastNumber DEF Min

\* Nothing that was checked failed if the status is 200.
LEMMA NothingFailed ==
  ASSUME NEW checks, DOMAIN checks \subseteq Nat, \A i \in DOMAIN checks : checks[i][2] # 200,
         FirstFailure(checks) = 200
  PROVE  \A i \in DOMAIN checks : checks[i][1]
<1> DEFINE failing == {i \in DOMAIN checks : ~checks[i][1]}
           first == Min(failing)
<1>1. SUFFICES ASSUME failing # {} PROVE FALSE
  OBVIOUS
<1>2. first \in failing
  <2>1. failing \in SUBSET Nat
    OBVIOUS
  <2> HIDE DEF failing
  <2> QED
    BY <1>1, <2>1, MinIsLeast
<1>3. FirstFailure(checks) = checks[first][2]
  BY <1>1 DEF FirstFailure
<1> HIDE DEF first
<1> QED
  BY <1>2, <1>3

\* What is received is a sum of sizes, a piece more each time.
LEMMA ReceivedAdds ==
  ASSUME NEW pieces \in Bodies, NEW n \in 1..Len(pieces)
  PROVE  /\ Received(pieces, n) \in Nat /\ Received(pieces, n - 1) \in Nat
         /\ Received(pieces, n) = pieces[n] + Received(pieces, n - 1)
         /\ pieces[n] \in Pieces /\ pieces[n] \in Nat
         /\ Received(pieces, 0) = 0
<1>1. PICK k \in 1..MaxPieces : pieces \in [1..k -> Pieces]
  BY DEF Bodies
<1>2. Len(pieces) = k
  BY <1>1, FrontAssumption, LenProperties
<1>3. \A i \in 1..k : pieces[i] \in Pieces /\ pieces[i] \in Nat /\ pieces[i] \in Int
  <2> TAKE i \in 1..k
  <2>1. pieces[i] \in Pieces
    BY <1>1
  <2>2. pieces[i] \in Nat
    BY <2>1, FrontAssumption
  <2> QED
    BY <2>1, <2>2
<1>4. /\ IsFiniteSet(1..n) /\ IsFiniteSet(1..n - 1) /\ n \in 1..n
      /\ (1..n) \ {n} = 1..n - 1 /\ 1..n \subseteq 1..k /\ 1..n - 1 \subseteq 1..k
      /\ 1..0 = {}
  <2>1. k \in Nat /\ n \in 1..k
    BY <1>1, <1>2, FrontAssumption
  <2>2. IsFiniteSet(1..n) /\ IsFiniteSet(1..n - 1)
    BY <2>1, FS_Interval
  <2> QED
    BY <2>1, <2>2
<1>5. SumFunctionOnSet(pieces, 1..n) = pieces[n] + SumFunctionOnSet(pieces, (1..n) \ {n})
  BY <1>3, <1>4, SumRemove
<1>6. SumFunctionOnSet(pieces, 1..n) \in Nat /\ SumFunctionOnSet(pieces, 1..n - 1) \in Nat
  BY <1>3, <1>4, SumNatural
<1>7. SumFunctionOnSet(pieces, 1..0) = 0
  BY <1>4, SumEmpty
<1> QED
  BY <1>2, <1>3, <1>4, <1>5, <1>6, <1>7 DEF Received

\* What is taken in is at most the limit and one piece more, and all of a body within it.
LEMMA TakenIsLittle ==
  ASSUME NEW pieces \in Bodies
  PROVE  /\ Taken(pieces) \in Nat
         /\ \E piece \in Pieces : Taken(pieces) <= MaxBody + piece
         /\ Taken(pieces) <= MaxBody => Taken(pieces) = Received(pieces, Len(pieces))
<1> DEFINE over == {n \in 1..Len(pieces) : Received(pieces, n) > MaxBody}
           first == Min(over)
<1>1. PICK k \in 1..MaxPieces : pieces \in [1..k -> Pieces] /\ Len(pieces) = k
  BY FrontAssumption, LenProperties DEF Bodies
<1>2. Len(pieces) \in Nat \ {0}
  BY <1>1
<1>3. CASE over = {}
  <2>1. Taken(pieces) = Received(pieces, Len(pieces))
    BY <1>3 DEF Taken
  <2>2. Taken(pieces) \in Nat /\ Taken(pieces) <= MaxBody /\ pieces[Len(pieces)] \in Pieces
    BY <1>2, <1>3, <2>1, ReceivedAdds, FrontAssumption
  <2>3. PICK piece \in Pieces : piece = pieces[Len(pieces)]
    BY <2>2
  <2>4. piece \in Nat /\ MaxBody \in Nat
    BY FrontAssumption
  <2> QED
    BY <2>1, <2>2, <2>3, <2>4
<1>4. CASE over # {}
  <2>1. Taken(pieces) = Received(pieces, first)
    BY <1>4 DEF Taken
  <2>2. first \in over /\ \A m \in over : first <= m
    <3>1. over \in SUBSET Nat
      BY <1>2
    <3> HIDE DEF over
    <3> QED
      BY <1>4, <3>1, MinIsLeast
  <2> HIDE DEF first
  <2>3. first \in 1..Len(pieces) /\ Received(pieces, first) > MaxBody
    BY <2>2
  <2>4. /\ Received(pieces, first) \in Nat /\ Received(pieces, first - 1) \in Nat
        /\ Received(pieces, first) = pieces[first] + Received(pieces, first - 1)
        /\ pieces[first] \in Pieces /\ pieces[first] \in Nat
        /\ Received(pieces, 0) = 0
    BY <2>3, ReceivedAdds
  <2>5. Received(pieces, first - 1) <= MaxBody
    <3>1. CASE first = 1
      BY <2>4, <3>1, FrontAssumption
    <3>2. CASE first # 1
      <4>1. first - 1 \in 1..Len(pieces) /\ first - 1 \notin over
        BY <1>2, <2>2, <2>3, <3>2
      <4> QED
        BY <2>4, <4>1, FrontAssumption
    <3> QED
      BY <3>1, <3>2
  <2> QED
    BY <2>1, <2>3, <2>4, <2>5, FrontAssumption
<1> QED
  BY <1>3, <1>4

\* To take nothing is to take little.
LEMMA NothingIsLittle == \E piece \in Pieces : 0 <= MaxBody + piece
<1>1. PICK piece \in Pieces : TRUE
  BY FrontAssumption
<1>2. piece \in Nat /\ MaxBody \in Nat
  BY FrontAssumption
<1> QED
  BY <1>1, <1>2

\* The checks of a request, in one sequence.
LEMMA SixInOrder ==
  ASSUME NEW u, NEW v, NEW a, NEW b, NEW d, NEW e
  PROVE  <<u, v>> \o (<<a>> \o <<b, d, e>>) = <<u, v, a, b, d, e>>
<1> DEFINE S == {u, v, a, b, d, e}
<1>1. <<a>> \o <<b, d, e>> = <<a, b, d, e>>
  <2>1. <<a>> \in Seq(S) /\ <<b, d, e>> \in Seq(S)
    OBVIOUS
  <2> DEFINE t == <<a>> \o <<b, d, e>>
  <2>2. t \in Seq(S) /\ Len(t) = 4 /\ t[1] = a /\ t[2] = b /\ t[3] = d /\ t[4] = e
    BY <2>1, ConcatProperties
  <2> DEFINE w == <<a, b, d, e>>
  <2>3. w \in Seq(S) /\ Len(w) = 4
    OBVIOUS
  <2>4. \A i \in 1..4 : t[i] = w[i]
    BY <2>2
  <2> HIDE DEF t, w, S
  <2>5. t = w
    BY <2>2, <2>3, <2>4, SeqEqual
  <2> QED
    BY <2>5 DEF t, w
<1>2. <<u, v>> \o <<a, b, d, e>> = <<u, v, a, b, d, e>>
  <2>1. <<u, v>> \in Seq(S) /\ <<a, b, d, e>> \in Seq(S)
    OBVIOUS
  <2> DEFINE t == <<u, v>> \o <<a, b, d, e>>
  <2>2. /\ t \in Seq(S) /\ Len(t) = 6
        /\ t[1] = u /\ t[2] = v /\ t[3] = a /\ t[4] = b /\ t[5] = d /\ t[6] = e
    BY <2>1, ConcatProperties
  <2> DEFINE w == <<u, v, a, b, d, e>>
  <2>3. w \in Seq(S) /\ Len(w) = 6
    OBVIOUS
  <2>4. \A i \in 1..6 : t[i] = w[i]
    BY <2>2
  <2> HIDE DEF t, w, S
  <2>5. t = w
    BY <2>2, <2>3, <2>4, SeqEqual
  <2> QED
    BY <2>5 DEF t, w
<1> QED
  BY <1>1, <1>2

\* A request passes the front if it has the origin, the credential, the route, the
\* method and the query that are asked for.
LEMMA FrontPassed ==
  ASSUME NEW c \in Config, NEW q \in Request, Front(c, q) = 200
  PROVE  /\ q.origin # "bad" /\ (q.origin = "other" => ~c.origins)
         /\ Authorized(c, q)
         /\ q.route \in Gets \cup Posts
         /\ q.method = IF q.route \in Gets THEN "GET" ELSE "POST"
         /\ q.query = "absent" \/ (q.query = "good" /\ q.route = "events")
<1> DEFINE checks == << <<q.origin # "bad", 400>>, <<q.origin = "other" => ~c.origins, 403>>,
                        <<Authorized(c, q), 401>>, <<q.route \in Gets \cup Posts, 404>>,
                        <<q.method = IF q.route \in Gets THEN "GET" ELSE "POST", 405>>,
                        <<q.query = "absent" \/ (q.query = "good" /\ q.route = "events"), 400>> >>
<1>1. OriginChecks(c, q) \o (<< <<Authorized(c, q), 401>> >> \o RouteChecks(q)) = checks
  BY SixInOrder DEF OriginChecks, RouteChecks
<1>2. DOMAIN checks = 1..6 /\ \A i \in 1..6 : checks[i][2] # 200
  OBVIOUS
<1>3. \A i \in DOMAIN checks : checks[i][1]
  <2> HIDE DEF checks
  <2>1. FirstFailure(checks) = 200
    BY <1>1, Zenon DEF Front
  <2> QED
    BY <1>2, <2>1, NothingFailed
<1>4. /\ checks[1][1] /\ checks[2][1] /\ checks[3][1] /\ checks[4][1] /\ checks[5][1]
      /\ checks[6][1]
  BY <1>2, <1>3
<1> QED
  BY <1>4

\* The checks of a preflight, in one sequence.
LEMMA SevenInOrder ==
  ASSUME NEW u, NEW v, NEW a, NEW b, NEW d, NEW e, NEW f
  PROVE  <<u, v>> \o <<a, b, d, e, f>> = <<u, v, a, b, d, e, f>>
<1> DEFINE S == {u, v, a, b, d, e, f}
<1>1. <<u, v>> \in Seq(S) /\ <<a, b, d, e, f>> \in Seq(S)
  OBVIOUS
<1> DEFINE t == <<u, v>> \o <<a, b, d, e, f>>
<1>2. /\ t \in Seq(S) /\ Len(t) = 7
      /\ t[1] = u /\ t[2] = v /\ t[3] = a /\ t[4] = b /\ t[5] = d /\ t[6] = e /\ t[7] = f
  BY <1>1, ConcatProperties
<1> DEFINE w == <<u, v, a, b, d, e, f>>
<1>3. w \in Seq(S) /\ Len(w) = 7
  OBVIOUS
<1>4. \A i \in 1..7 : t[i] = w[i]
  BY <1>2
<1> HIDE DEF t, w, S
<1>5. t = w
  BY <1>2, <1>3, <1>4, SeqEqual
<1> QED
  BY <1>5 DEF t, w

\* A preflight is answered only if its origin is one that is allowed.
LEMMA PreflightPassed ==
  ASSUME NEW c \in Config, NEW p \in Preflight, AnswerPreflight(c, p) = 204
  PROVE  c.origins /\ p.origin = "good"
<1> DEFINE checks == << <<p.origin # "bad", 400>>, <<p.origin = "other" => ~c.origins, 403>>,
                        <<c.origins /\ p.origin = "good", 403>>,
                        <<p.method \notin {"absent", "bad"}, 400>>, <<p.method = "good", 405>>,
                        <<p.headers # "bad", 400>>, <<p.headers # "other", 403>> >>
<1>1. OriginChecks(c, p) \o PreflightChecks(c, p) = checks
  BY SevenInOrder DEF OriginChecks, PreflightChecks
<1>2. DOMAIN checks = 1..7 /\ \A i \in 1..7 : checks[i][2] # 200 /\ checks[i][2] # 204
  OBVIOUS
<1> HIDE DEF checks
<1>3. FirstFailure(checks) = 200
  <2> DEFINE failing == {i \in DOMAIN checks : ~checks[i][1]}
             first == Min(failing)
  <2>1. SUFFICES ASSUME FirstFailure(checks) # 200 PROVE FALSE
    OBVIOUS
  <2>2. failing # {} /\ FirstFailure(checks) = checks[first][2]
    BY <2>1 DEF FirstFailure
  <2>3. first \in failing
    <3>1. failing \in SUBSET Nat
      BY <1>2
    <3> HIDE DEF failing
    <3> QED
      BY <2>2, <3>1, MinIsLeast
  <2>4. FirstFailure(checks) # 204
    <3> HIDE DEF first
    <3> QED
      BY <1>2, <2>2, <2>3
  <2>5. AnswerPreflight(c, p) = IF FirstFailure(checks) = 200 THEN 204 ELSE FirstFailure(checks)
    BY <1>1, Zenon DEF AnswerPreflight
  <2> QED
    BY <2>1, <2>4, <2>5
<1>4. \A i \in DOMAIN checks : checks[i][1]
  BY <1>2, <1>3, NothingFailed
<1>5. checks[3][1]
  BY <1>2, <1>4
<1> QED
  BY <1>5 DEF checks

\* What is read of a body is little, and all of it if it is served.
LEMMA ReadJsonIsVetted ==
  ASSUME NEW body \in Body
  PROVE  LET a == ReadJson(body)
             whole == Received(body.pieces, Len(body.pieces))
         IN /\ \E piece \in Pieces : a.taken <= MaxBody + piece
            /\ a.status = 200 =>
                 /\ body.complete /\ a.taken = whole /\ whole <= MaxBody
                 /\ body.declared \in {Unsaid, whole}
<1> DEFINE taken == Taken(body.pieces)
           whole == Received(body.pieces, Len(body.pieces))
           header == FirstFailure(<< <<body.type = "good", 415>>,
                                     <<body.declared # Malformed, 400>>,
                                     <<body.declared \in {Unsaid} \cup 0..MaxBody, 413>> >>)
           checks == << <<taken <= MaxBody, 413>>, <<body.complete, 400>>,
                        <<body.declared \in {Unsaid, taken}, 400>>, <<body.decodes, 400>> >>
<1>1. /\ taken \in Nat
      /\ \E piece \in Pieces : taken <= MaxBody + piece
      /\ taken <= MaxBody => taken = whole
  BY TakenIsLittle DEF Body
<1>2. \E piece \in Pieces : 0 <= MaxBody + piece
  BY NothingIsLittle
<1>3. FirstFailure(checks) = 200 =>
        taken <= MaxBody /\ body.complete /\ body.declared \in {Unsaid, taken}
  <2> SUFFICES ASSUME FirstFailure(checks) = 200
               PROVE  taken <= MaxBody /\ body.complete /\ body.declared \in {Unsaid, taken}
    OBVIOUS
  <2>1. DOMAIN checks = 1..4 /\ \A i \in 1..4 : checks[i][2] # 200
    OBVIOUS
  <2>2. \A i \in DOMAIN checks : checks[i][1]
    <3> HIDE DEF checks
    <3> QED
      BY <2>1, NothingFailed
  <2>3. checks[1][1] /\ checks[2][1] /\ checks[3][1]
    BY <2>1, <2>2
  <2> QED
    BY <2>3
<1>4. ReadJson(body) = IF header # 200 THEN Outcome(header, 0)
                       ELSE Outcome(FirstFailure(checks), taken)
  BY DEF ReadJson
<1> HIDE DEF checks, header, taken, whole
<1>5. CASE header # 200
  <2>1. ReadJson(body).status = header /\ ReadJson(body).taken = 0
    BY <1>4, <1>5 DEF Outcome
  <2> QED
    BY <1>2, <1>5, <2>1
<1>6. CASE header = 200
  <2>1. ReadJson(body).status = FirstFailure(checks) /\ ReadJson(body).taken = taken
    BY <1>4, <1>6 DEF Outcome
  <2>2. \E piece \in Pieces : ReadJson(body).taken <= MaxBody + piece
    BY <1>1, <2>1
  <2>3. ReadJson(body).status = 200 =>
          /\ body.complete /\ ReadJson(body).taken = whole /\ whole <= MaxBody
          /\ body.declared \in {Unsaid, whole}
    BY <1>1, <1>3, <2>1
  <2> QED
    BY <2>2, <2>3 DEF whole
<1> QED
  BY <1>5, <1>6

\* The property of the front, for every configuration, request and body.
LEMMA Vetting == VettedBeforeServed
<1>1. ASSUME NEW c \in Config, NEW q \in Request, NEW body \in Body
      PROVE
      LET trusted == c.token => q.credential = "good"
          reads == q.method = "GET" /\ (q.route \in Probes \/ (c.open /\ q.route \in Public))
          welcome == q.origin \in {"absent", "good"} \/ (q.origin = "other" /\ ~c.origins)
          a == Answer(q, Front(c, q), body)
          whole == Received(body.pieces, Len(body.pieces))
      IN /\ a.status = 200 => welcome /\ (trusted \/ reads)
         /\ a.taken > 0 =>
              /\ trusted /\ welcome
              /\ q.route \in Posts /\ q.method = "POST" /\ q.query = "absent"
         /\ \E piece \in Pieces : a.taken <= MaxBody + piece
         /\ a.status = 200 /\ q.method = "POST" =>
              /\ body.complete /\ a.taken = whole /\ whole <= MaxBody
              /\ body.declared \in {Unsaid, whole}
  <2> DEFINE trusted == c.token => q.credential = "good"
             reads == q.method = "GET" /\ (q.route \in Probes \/ (c.open /\ q.route \in Public))
             welcome == q.origin \in {"absent", "good"} \/ (q.origin = "other" /\ ~c.origins)
             a == Answer(q, Front(c, q), body)
             whole == Received(body.pieces, Len(body.pieces))
             front == Front(c, q)
  <2>1. a = IF front # 200 \/ q.route \notin Posts THEN Outcome(front, 0) ELSE ReadJson(body)
    BY DEF Answer
  <2>2. front = 200 =>
          /\ welcome /\ (trusted \/ reads) /\ (q.method = "POST" => q.route \in Posts)
          /\ q.route \in Posts => trusted /\ q.method = "POST" /\ q.query = "absent"
    <3> SUFFICES ASSUME front = 200
                 PROVE  /\ welcome /\ (trusted \/ reads) /\ (q.method = "POST" => q.route \in Posts)
                        /\ q.route \in Posts => trusted /\ q.method = "POST" /\ q.query = "absent"
      OBVIOUS
    <3>1. /\ q.origin # "bad" /\ (q.origin = "other" => ~c.origins)
          /\ Authorized(c, q)
          /\ q.route \in Gets \cup Posts
          /\ q.method = IF q.route \in Gets THEN "GET" ELSE "POST"
          /\ q.query = "absent" \/ (q.query = "good" /\ q.route = "events")
      BY FrontPassed
    <3>2. welcome
      BY <3>1 DEF Request, Header
    <3>3. trusted \/ reads
      BY <3>1 DEF Authorized
    <3>4. q.route \in Posts => q.method = "POST" /\ q.query = "absent"
      BY <3>1 DEF Gets, Posts, Probes, Public
    <3>5. q.route \in Posts => trusted
      BY <3>3, <3>4
    <3>6. q.method = "POST" => q.route \in Posts
      BY <3>1
    <3> QED
      BY <3>2, <3>3, <3>4, <3>5, <3>6
  <2> HIDE DEF trusted, reads, welcome, whole, front
  <2>3. CASE front # 200 \/ q.route \notin Posts
    <3>1. a.status = front /\ a.taken = 0
      BY <2>1, <2>3 DEF Outcome
    <3> HIDE DEF a
    <3>2. \E piece \in Pieces : a.taken <= MaxBody + piece
      BY <3>1, NothingIsLittle
    <3>3. a.status = 200 => welcome /\ (trusted \/ reads)
      BY <2>2, <3>1
    <3>4. ~ (a.taken > 0) /\ ~ (a.status = 200 /\ q.method = "POST")
      BY <2>2, <2>3, <3>1
    <3> QED
      BY <3>2, <3>3, <3>4 DEF trusted, reads, welcome, whole, a
  <2>4. CASE front = 200 /\ q.route \in Posts
    <3>1. a = ReadJson(body)
      BY <2>1, <2>4
    <3>2. /\ welcome /\ trusted /\ q.method = "POST" /\ q.query = "absent"
      BY <2>2, <2>4
    <3>3. /\ \E piece \in Pieces : a.taken <= MaxBody + piece
          /\ a.status = 200 =>
               /\ body.complete /\ a.taken = whole /\ whole <= MaxBody
               /\ body.declared \in {Unsaid, whole}
      BY <3>1, ReadJsonIsVetted DEF whole
    <3> HIDE DEF a
    <3> QED
      BY <2>4, <3>2, <3>3 DEF trusted, reads, welcome, whole, a
  <2> QED
    BY <2>3, <2>4 DEF trusted, reads, welcome, whole
<1>2. \A c \in Config, p \in Preflight :
        AnswerPreflight(c, p) = 204 => c.origins /\ p.origin = "good"
  BY PreflightPassed
<1> QED
  BY <1>1, <1>2 DEF VettedBeforeServed

\* A request is vetted before anything is read or served, whoever sends it, however its
\* body comes in, and whatever the limits are.
THEOREM RequestsAreAllVetted == Spec => []RequestsAreVetted
<1>1. RequestsAreVetted
  BY Vetting DEF RequestsAreVetted
<1> QED
  BY <1>1, PTL
=============================================================================
