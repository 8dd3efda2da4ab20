----------------------------- MODULE HttpFront ------------------------------
(***************************************************************************)
(* What the control plane does with one HTTP request before a handler of   *)
(* ControlApi sees it (control_api.py, __call__): the origin, then the     *)
(* credential, then the route and its method, then the query, then the     *)
(* body, read piece by piece.  The outcome is a status and the number of   *)
(* bytes taken in; status 200 stands for a request handed to its handler,  *)
(* 204 for a preflight that is answered.                                   *)
(*                                                                         *)
(* A header or a query is absent, as it should be ("good"), of another     *)
(* value ("other"), or malformed or given twice ("bad").                   *)
(***************************************************************************)
EXTENDS Integers, Sequences, Functions, FiniteSetsExt

CONSTANTS
  MaxBody,   \* max_body_bytes
  Pieces,    \* bound: the sizes of the pieces a body comes in
  MaxPieces, \* bound: how many they are
  Asked      \* bound: the routes asked for

ASSUME FrontAssumption ==
  MaxBody \in Nat \ {0} /\ Pieces \subseteq Nat /\ Pieces # {} /\ MaxPieces \in Nat

Header == {"absent", "good", "other", "bad"}

Probes  == {"live", "ready"}
Public  == {"run", "status", "events"}
Gets    == Probes \cup Public \cup {"references", "reference", "inspect", "replay"}
Posts   == {"submit", "cancel", "control", "approve"}

\* A configuration: a token, the anonymous reading of statuses, origins.
Config == [token : BOOLEAN, open : BOOLEAN, origins : BOOLEAN]

Bodies == UNION {[1..n -> Pieces] : n \in 1..MaxPieces}

Request ==
  [method : {"GET", "POST"}, route : Asked, origin : Header,
   credential : Header, query : Header \ {"other"}]

\* The preflight of a browser: the method and the headers it asks for.
Preflight == [origin : Header, method : Header, headers : Header]

\* What a Content-Length says besides a number: there is none, or there are
\* several or it is no number.  Any negative number stands for -1.
Unsaid == -3
Malformed == -2

\* A body: its type and length as declared, the pieces that come, whether the
\* last of them is the end or the client goes away, and whether they decode to
\* an object with the fields of the route.
Body ==
  [type : {"good", "bad"}, declared : {Unsaid, Malformed} \cup -1..MaxBody + 1,
   pieces : Bodies, complete : BOOLEAN, decodes : BOOLEAN]

Outcome(status, taken) == [status |-> status, taken |-> taken]

\* The status of the first check that fails, 200 if none does.
FirstFailure(checks) ==
  LET failing == {i \in DOMAIN checks : ~checks[i][1]}
  IN IF failing = {} THEN 200
     ELSE checks[Min(failing)][2]

\* _cors_headers
OriginChecks(c, q) ==
  << <<q.origin # "bad", 400>>,
     <<q.origin = "other" => ~c.origins, 403>> >>

\* _preflight, for an origin that passed.
PreflightChecks(c, p) ==
  << <<c.origins /\ p.origin = "good", 403>>,
     <<p.method \notin {"absent", "bad"}, 400>>, <<p.method = "good", 405>>,
     <<p.headers # "bad", 400>>, <<p.headers # "other", 403>> >>

\* _authorize
Authorized(c, q) ==
  \/ q.method = "GET" /\ q.route \in Probes
  \/ ~c.token
  \/ c.open /\ q.method = "GET" /\ q.route \in Public
  \/ q.credential = "good"

\* Mutant: the query is left to the handlers.
RouteChecksLate(q) ==
  << <<q.route \in Gets \cup Posts, 404>>,
     <<q.method = IF q.route \in Gets THEN "GET" ELSE "POST", 405>>, <<TRUE, 400>> >>

\* _dispatch and _event_cursor, up to the body.
RouteChecks(q) ==
  << <<q.route \in Gets \cup Posts, 404>>,
     <<q.method = IF q.route \in Gets THEN "GET" ELSE "POST", 405>>,
     <<q.query = "absent" \/ (q.query = "good" /\ q.route = "events"), 400>> >>

\* What the first n pieces come to.
Received(pieces, n) == SumFunctionOnSet(pieces, 1..n)

\* What is taken in of a body: pieces until it is too large.
Taken(pieces) ==
  LET over == {n \in 1..Len(pieces) : Received(pieces, n) > MaxBody}
  IN Received(pieces, IF over = {} THEN Len(pieces) ELSE Min(over))

\* _read_json
ReadJson(body) ==
  LET taken == Taken(body.pieces)
      header == FirstFailure(<< <<body.type = "good", 415>>,
                                <<body.declared # Malformed, 400>>,
                                <<body.declared \in {Unsaid} \cup 0..MaxBody, 413>> >>)
  IN IF header # 200 THEN Outcome(header, 0)
     ELSE Outcome(FirstFailure(<< <<taken <= MaxBody, 413>>,
                                  <<body.complete, 400>>,
                                  <<body.declared \in {Unsaid, taken}, 400>>,
                                  <<body.decodes, 400>> >>), taken)

\* What is checked of a request before its body.
Front(c, q) ==
  FirstFailure(OriginChecks(c, q) \o (<< <<Authorized(c, q), 401>> >> \o RouteChecks(q)))

\* __call__ of a request whose front was checked, and of a preflight.
Answer(q, front, body) ==
  IF front # 200 \/ q.route \notin Posts THEN Outcome(front, 0) ELSE ReadJson(body)

AnswerPreflight(c, p) ==
  LET front == FirstFailure(OriginChecks(c, p) \o PreflightChecks(c, p))
  IN IF front = 200 THEN 204 ELSE front

-----------------------------------------------------------------------------

\* A request is vetted before anything is read or served: nobody without the
\* credential gets more than the probes and, where that is allowed, the status
\* and the events of a run; no byte of a body is taken from a request that is
\* refused on its origin, credential, route, method or query; and however a
\* body comes in, what is kept of it is at most its limit and one piece more,
\* and it is served only if it came to its end, is as long as declared and
\* within the limit.  A browser is let in only from an origin that is allowed.
VettedBeforeServed ==
  /\ \A c \in Config, q \in Request :
       LET trusted == c.token => q.credential = "good"
           reads == q.method = "GET" /\ (q.route \in Probes \/ (c.open /\ q.route \in Public))
           welcome == q.origin \in {"absent", "good"} \/ (q.origin = "other" /\ ~c.origins)
           front == Front(c, q)
       IN \A body \in Body :
            LET a == Answer(q, front, body)
                whole == Received(body.pieces, Len(body.pieces))
            IN /\ a.status = 200 => welcome /\ (trusted \/ reads)
               /\ a.taken > 0 =>
                    /\ trusted /\ welcome
                    /\ q.route \in Posts /\ q.method = "POST" /\ q.query = "absent"
               /\ \E piece \in Pieces : a.taken <= MaxBody + piece
               /\ a.status = 200 /\ q.method = "POST" =>
                    /\ body.complete /\ a.taken = whole /\ whole <= MaxBody
                    /\ body.declared \in {Unsaid, whole}
  /\ \A c \in Config, p \in Preflight :
       AnswerPreflight(c, p) = 204 => c.origins /\ p.origin = "good"
=============================================================================
