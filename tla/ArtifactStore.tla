--------------------------- MODULE ArtifactStore ---------------------------
(***************************************************************************)
(* SQLiteArtifactStore (artifact_store.py): clients open one database,     *)
(* put artifacts with their provenance, get them back and pack contexts    *)
(* from them, while an auditor runs verify_all and someone may alter the   *)
(* file.  A put is one IMMEDIATE transaction; opening is not, because the  *)
(* schema script commits the transaction it is run in.                     *)
(***************************************************************************)
EXTENDS Evidence

CONSTANTS
  Clients,
  Records,     \* provenance records [of, inputs, task] that verify
  Requests,    \* what a client asks the packer for: [obligations, options, budget, claims]
  MaxTampers,  \* alterations of the file
  MaxTime

\* What is asked for is finite, and of claims that there are.
ASSUME RequestsAssumption ==
  \A r \in Requests :
    /\ \A S \in {r.obligations.artifacts, r.obligations.claims, r.options} : IsFiniteSet(S)
    /\ r.claims \subseteq DOMAIN Claims
    /\ r.budget.maxBytes \in Int /\ r.budget.maxTokens \in Int

VARIABLES
  version,  \* rows of artifact_store_schema
  rows,     \* of artifacts: rows[a] = [content, digest], each as put or altered
  links,    \* of artifact_parents: pairs of a child and a parent
  origins,  \* of artifact_provenance: origins[a] = [record, sealed]
  session,  \* of a client: [at, held], held the artifacts it got, or goes through
  audit,    \* of the one verify_all: [phase, ids, failures, disturbed]
  packed,   \* the one packing, once there is one: [request, evidence, context]
  now, tampers

vars == <<version, rows, links, origins, session, audit, packed, now, tampers>>
database == <<version, rows, links, origins>>

Stored == DOMAIN rows
With(f, k, v) == [x \in DOMAIN f \union {k} |-> IF x = k THEN v ELSE f[x]]
Closed == [at |-> "closed", held |-> {}]
Idle == [phase |-> "idle", ids |-> {}, failures |-> FALSE, disturbed |-> FALSE]

Init ==
  /\ version = {} /\ links = {}
  /\ rows = [a \in {} |-> None] /\ origins = [a \in {} |-> None]
  /\ session = [c \in Clients |-> Closed]
  /\ audit = Idle
  /\ packed = {}
  /\ now = 0 /\ tampers = 0

-----------------------------------------------------------------------------
At(c, where) == session[c].at = where
Go(c, where) == session' = [session EXCEPT ![c].at = where]

\* Bound: one packing or one whole audit ends what clients do.
Outcome == packed # {} \/ audit.phase = "done"

\* executescript commits the transaction it is in, once the tables exist: the version is
\* read outside of it.
OpenSelect(c) ==
  /\ At(c, "closed") /\ ~Outcome
  /\ Go(c, IF version = {} THEN "empty" ELSE "open")
  /\ UNCHANGED <<database, audit, packed, now, tampers>>

\* The version is the primary key: the second of two inserts fails, and opening with it.
OpenInsert(c) ==
  /\ At(c, "empty")
  /\ Go(c, IF version = {} THEN "open" ELSE "closed")
  /\ version' = {1}
  /\ UNCHANGED <<rows, links, origins, audit, packed, now, tampers>>

\* The client's process ends, at any time.
Crash(c) ==
  /\ ~At(c, "closed")
  /\ session' = [session EXCEPT ![c] = Closed]
  /\ audit' = IF At(c, "audit") THEN Idle ELSE audit
  /\ UNCHANGED <<database, packed, now, tampers>>

-----------------------------------------------------------------------------
\* A provenance that put accepts with the artifact.
NoRecord == [of |-> None, inputs |-> {}, task |-> 0]
Describes(record, a) == record = NoRecord \/ (record.of = a /\ record.inputs = Parents(a))

AsPut == [content |-> TRUE, digest |-> TRUE]

Has(a, record) == a \in DOMAIN origins /\ origins[a].record = record

\* Mutant: the first provenance of an artifact is replaced by a later one.
SameProvenanceReplaced(a, record) == TRUE

\* A stored provenance is neither left out nor changed.
SameProvenance(a, record) == a \in DOMAIN origins => Has(a, record)

\* Every refusal, conflict or broken constraint rolls the transaction back.
Put(c, a, record) ==
  /\ At(c, "open")
  /\ Describes(record, a)
  /\ Parents(a) \subseteq Stored
  /\ IF a \in Stored THEN rows[a] = AsPut ELSE \A p \in Parents(a) : <<a, p>> \notin links
  /\ SameProvenance(a, record)
  /\ rows' = With(rows, a, AsPut)
  /\ links' = IF a \in Stored THEN links ELSE links \union {<<a, p>> : p \in Parents(a)}
  /\ origins' = IF record = NoRecord \/ Has(a, record) THEN origins
                ELSE With(origins, a, [record |-> record, sealed |-> TRUE])
  /\ UNCHANGED <<version, session, audit, packed, now, tampers>>

\* Mutant: the parent rows are not compared with the metadata.
ReadsBackAlone(a) == a \in Stored /\ rows[a].content /\ rows[a].digest

\* Whether get returns: the row is what its address says, and so are the parent rows.
ReadsBack(a) ==
  /\ a \in Stored /\ rows[a].content /\ rows[a].digest
  /\ {l[2] : l \in {x \in links : x[1] = a}} = Parents(a)

Get(c, a) ==
  /\ At(c, "open") /\ a \notin session[c].held /\ ~Outcome
  /\ ReadsBack(a)
  /\ session' = [session EXCEPT ![c].held = @ \union {a}]
  /\ UNCHANGED <<database, audit, packed, now, tampers>>

\* Whether provenance returns. The record has only to agree with its own seal.
ProvenanceReads(a) == ReadsBack(a) /\ (a \in DOMAIN origins => origins[a].sealed)

\* The client packs what it holds and leaves.
PackContext(c, r) ==
  /\ At(c, "open") /\ ~Outcome
  /\ LET E == [artifacts |-> [a \in session[c].held |-> TRUE], claims |-> r.claims]
     IN packed' = {[request |-> r, evidence |-> E,
                    context |-> Pack(E, r.obligations, r.options, r.budget, now)]}
  /\ session' = [session EXCEPT ![c] = Closed]
  /\ UNCHANGED <<database, audit, now, tampers>>

-----------------------------------------------------------------------------
ForeignKeysHold ==
  /\ \A l \in links : {l[1], l[2]} \subseteq Stored
  /\ DOMAIN origins \subseteq Stored

\* verify_all, by a client: it reads the identifiers, then the keys, then each record.
AuditIds(c) ==
  /\ At(c, "open") /\ audit.phase = "idle" /\ ~Outcome
  /\ audit' = [Idle EXCEPT !.phase = "keys", !.ids = Stored]
  /\ session' = [session EXCEPT ![c] = [at |-> "audit", held |-> Stored]]
  /\ UNCHANGED <<database, packed, now, tampers>>

AuditKeys(c) ==
  /\ At(c, "audit") /\ audit.phase = "keys"
  /\ audit' = [audit EXCEPT !.phase = "records", !.failures = ~ForeignKeysHold]
  /\ UNCHANGED <<database, session, packed, now, tampers>>

AuditRecord(c, a) ==
  /\ At(c, "audit") /\ audit.phase = "records" /\ a \in session[c].held
  /\ audit' = [audit EXCEPT !.failures = @ \/ ~ReadsBack(a) \/ ~ProvenanceReads(a)]
  /\ session' = [session EXCEPT ![c].held = @ \ {a}]
  /\ UNCHANGED <<database, packed, now, tampers>>

AuditEnds(c) ==
  /\ At(c, "audit") /\ audit.phase = "records" /\ session[c].held = {}
  /\ audit' = [audit EXCEPT !.phase = "done"]
  /\ session' = [session EXCEPT ![c] = Closed]
  /\ UNCHANGED <<database, packed, now, tampers>>

-----------------------------------------------------------------------------
\* Someone alters the file, as the tests do.
Alter(a) ==
  \/ /\ \E field \in {"content", "digest"} : rows' = [rows EXCEPT ![a][field] = FALSE]
     /\ UNCHANGED <<links, origins>>
  \/ /\ rows' = [x \in Stored \ {a} |-> rows[x]]
     /\ UNCHANGED <<links, origins>>
  \/ /\ \E p \in Artifacts \ {a} :
          links' = IF <<a, p>> \in links THEN links \ {<<a, p>>} ELSE links \union {<<a, p>>}
     /\ UNCHANGED <<rows, origins>>
  \/ /\ a \in DOMAIN origins
     /\ origins' = [origins EXCEPT ![a].sealed = FALSE]  \* its digest column
     /\ UNCHANGED <<rows, links>>

Tamper(a) ==
  /\ tampers < MaxTampers /\ a \in Stored
  /\ Alter(a)
  /\ tampers' = tampers + 1
  /\ audit' = [audit EXCEPT !.disturbed = audit.phase # "idle"]
  /\ UNCHANGED <<version, session, packed, now>>

Tick ==
  /\ now < MaxTime
  /\ now' = now + 1
  /\ UNCHANGED <<database, session, audit, packed, tampers>>

Next ==
  \/ \E c \in Clients :
       \/ OpenSelect(c) \/ OpenInsert(c) \/ Crash(c)
       \/ \E a \in Artifacts :
            \/ \E record \in Records \union {NoRecord} : Put(c, a, record)
            \/ Get(c, a) \/ AuditRecord(c, a)
       \/ \E r \in Requests : PackContext(c, r)
       \/ AuditIds(c) \/ AuditKeys(c) \/ AuditEnds(c)
  \/ \E a \in Artifacts : Tamper(a)
  \/ Tick

Spec == Init /\ [][Next]_vars

-----------------------------------------------------------------------------
\* What an audit that passes vouches for, in a file nobody altered meanwhile: each artifact
\* is what its address says, down its whole ancestry, and each provenance is sealed.  In a
\* file never altered every audit passes, whatever is put while it runs.
AuditIsExact ==
  audit.phase = "done" =>
    /\ tampers = 0 => ~audit.failures
    /\ (~audit.failures /\ ~audit.disturbed) =>
         \A a \in audit.ids :
           /\ \A x \in {a} \union Parents(a) : x \in Stored /\ rows[x] = AsPut
           /\ {l[2] : l \in {x \in links : x[1] = a}} = Parents(a)
           /\ a \in DOMAIN origins => origins[a].sealed

\* Unless the file is altered, what a put returned for is there for good: the artifact, its
\* parents, and the very provenance it was put with.
LineageIsForGood ==
  [][tampers' = tampers =>
       /\ \A a \in Stored : a \in DOMAIN rows' /\ rows'[a] = rows[a]
       /\ links \subseteq links'
       /\ \A a \in DOMAIN origins : a \in DOMAIN origins' /\ origins'[a] = origins[a]]_vars

\* A packing k lacks nothing that was required and holds nothing doubtful: the evidence
\* of its claims is in it, was read back from the store and is fresh as of its time, no
\* claim at hand that is as well supported contradicts them, and both caps hold; whatever
\* optional artifact was left out could not have been added.
IsEnough(k) ==
  LET r == k.request  E == k.evidence  t == k.context.asOf
      refs(kind) == {b.ref : b \in {x \in k.context.blocks : x.kind = kind}}
      bytes == Bytes(k.context.blocks)
      Rests(c) == Claims[c].valid /\ Claims[c].status = "supported" /\ Claims[c].created <= t
                  /\ Claims[c].refs # {} /\ Claims[c].refs \subseteq DOMAIN E.artifacts
                  /\ \A a \in Claims[c].refs : IsFresh(a, t)
  IN /\ r.obligations.artifacts \subseteq refs("artifact") /\ r.obligations.claims = refs("claim")
     /\ \A a \in refs("artifact") : a \in DOMAIN E.artifacts /\ IsFresh(a, t)
     /\ \A c \in refs("claim") :
          /\ Rests(c) /\ Claims[c].refs \subseteq refs("artifact")
          /\ \A d \in r.claims : Conflict(c, d) => ~Rests(d)
     /\ bytes <= r.budget.maxBytes /\ bytes <= r.budget.maxTokens
     /\ \A a \in r.options \ refs("artifact") :
          Usable(E, a, t) => ~Fits(r.budget, bytes + Meta[a].size)

\* Every packed context is enough, and only what is enough.
PackedIsEnough == \A k \in packed : k.context.status = "packed" => IsEnough(k)
=============================================================================
