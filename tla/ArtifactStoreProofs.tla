------------------------ MODULE ArtifactStoreProofs ------------------------
(***************************************************************************)
(* Proofs about ArtifactStore, for any artifacts, clients, claims and      *)
(* requests: nothing that was put is lost, what an audit vouches for is    *)
(* so, and a context that is packed is enough.                             *)
(*                                                                         *)
(* The inductive invariant IInv says what is intact as long as nobody      *)
(* alters the file, and what an audit knows after each of its steps.  What *)
(* is put while it runs is stored as it was put, and so are the parents    *)
(* that it does not look at because they came after it had listed the      *)
(* artifacts.                                                              *)
(*                                                                         *)
(* What is packed is a fold over the candidates in the order of their      *)
(* density.  That the fold is what its recursion says, and what it comes   *)
(* to, is shown like the sums of SumLemmas, by a smallest counterexample.  *)
(***************************************************************************)
EXTENDS ArtifactStore, SumLemmas

Rows == [content : BOOLEAN, digest : BOOLEAN]
Sessions == [at : {"closed", "empty", "open", "audit"}, held : SUBSET Artifacts]
Audits == [phase : {"idle", "keys", "records", "done"}, ids : SUBSET Artifacts,
           failures : BOOLEAN, disturbed : BOOLEAN]

TypeOK ==
  /\ Stored \subseteq Artifacts /\ \A a \in Stored : rows[a] \in Rows
  /\ session \in [Clients -> Sessions]
  /\ audit \in Audits
  /\ tampers \in Nat /\ now \in Nat

\* The parents of a that the parent rows name.
LinksOf(a) == {l[2] : l \in {x \in links : x[1] = a}}
Sealed(a) == a \in DOMAIN origins => origins[a].sealed

\* In a file nobody altered, everything is as it was put.
IntactUnlessAltered ==
  tampers = 0 =>
    /\ \A a \in Stored : rows[a] = AsPut /\ Parents(a) \subseteq Stored /\ LinksOf(a) = Parents(a)
    /\ \A l \in links : {l[1], l[2]} \subseteq Stored
    /\ \A a \in DOMAIN origins : a \in Stored /\ origins[a].sealed
    /\ audit.ids \subseteq Stored
    /\ ~audit.failures

\* There is one auditor at most, while an audit runs, and it goes through what it listed.
AuditorIsOne ==
  /\ \A c \in Clients : At(c, "audit") => /\ audit.phase \in {"keys", "records"}
                                          /\ session[c].held \subseteq audit.ids
                                          /\ audit.phase = "keys" => session[c].held = audit.ids
  /\ \A c, d \in Clients : At(c, "audit") /\ At(d, "audit") => c = d

\* The phases of an audit that was begun.
Running == {"keys", "records", "done"}

\* What the audit went through: what it listed, but for what the auditor has yet to read.
HasRead(a) == \A c \in Clients : At(c, "audit") => a \notin session[c].held

\* What an audit knows that nobody disturbed.
AuditKnows ==
  audit.phase \in Running /\ ~audit.disturbed =>
    /\ audit.ids \subseteq Stored
    /\ \A a \in Stored \ audit.ids : rows[a] = AsPut
    /\ audit.phase = "keys" => ~audit.failures
    /\ audit.phase # "keys" /\ ~audit.failures =>
         /\ \A l \in links : {l[1], l[2]} \subseteq Stored
         /\ \A a \in audit.ids :
              HasRead(a) => rows[a] = AsPut /\ LinksOf(a) = Parents(a) /\ Sealed(a)

IInv == TypeOK /\ IntactUnlessAltered /\ AuditorIsOne /\ AuditKnows

-----------------------------------------------------------------------------
(* Initial states and types *)

\* The initial states satisfy the invariant.
LEMMA InitIInv ==
  Init => IInv
<1> SUFFICES ASSUME Init PROVE IInv
  OBVIOUS
<1> USE DEF Init
<1>1. TypeOK
  BY DEF TypeOK, Stored, Sessions, Audits, Closed, Idle
<1>2. IntactUnlessAltered
  BY DEF IntactUnlessAltered, Stored, Idle
<1>3. AuditorIsOne /\ AuditKnows
  BY DEF AuditorIsOne, AuditKnows, Running, At, Closed, Idle
<1> QED
  BY <1>1, <1>2, <1>3 DEF IInv

\* Every step keeps the types.
LEMMA StepTypeOK ==
  ASSUME TypeOK, [Next]_vars
  PROVE  TypeOK'
<1> USE DEF TypeOK, Stored
<1>1. ASSUME NEW c \in Clients, OpenSelect(c) PROVE TypeOK'
  BY <1>1 DEF OpenSelect, Go, database, Sessions
<1>2. ASSUME NEW c \in Clients, OpenInsert(c) PROVE TypeOK'
  BY <1>2 DEF OpenInsert, Go, Sessions
<1>3. ASSUME NEW c \in Clients, Crash(c) PROVE TypeOK'
  BY <1>3 DEF Crash, Closed, Idle, database, Sessions, Audits
<1>4. ASSUME NEW c \in Clients, NEW a \in Artifacts, NEW record, Put(c, a, record)
      PROVE  TypeOK'
  <2>1. rows' = With(rows, a, AsPut) /\ UNCHANGED <<session, audit, tampers, now>>
    BY <1>4 DEF Put
  <2>2. /\ DOMAIN rows' = DOMAIN rows \cup {a} /\ rows'[a] = AsPut
        /\ \A x \in DOMAIN rows \ {a} : rows'[x] = rows[x]
    BY <2>1 DEF With
  <2>3. AsPut \in Rows
    BY DEF AsPut, Rows
  <2> QED
    BY <2>1, <2>2, <2>3
<1>5. ASSUME NEW c \in Clients, NEW a \in Artifacts, Get(c, a) PROVE TypeOK'
  BY <1>5 DEF Get, database, Sessions
<1>6. ASSUME NEW c \in Clients, NEW r, PackContext(c, r) PROVE TypeOK'
  BY <1>6 DEF PackContext, Closed, database, Sessions
<1>7. ASSUME NEW c \in Clients, AuditIds(c) PROVE TypeOK'
  BY <1>7 DEF AuditIds, Idle, database, Sessions, Audits
<1>8. ASSUME NEW c \in Clients, AuditKeys(c) PROVE TypeOK'
  BY <1>8 DEF AuditKeys, ForeignKeysHold, database, Audits
<1>9. ASSUME NEW c \in Clients, NEW a \in Artifacts, AuditRecord(c, a) PROVE TypeOK'
  <2>1. audit' \in Audits
    BY <1>9 DEF AuditRecord, Audits, ReadsBack, ProvenanceReads
  <2>2. session' \in [Clients -> Sessions]
    BY <1>9 DEF AuditRecord, Sessions
  <2> QED
    BY <1>9, <2>1, <2>2 DEF AuditRecord, database
<1>10. ASSUME NEW c \in Clients, AuditEnds(c) PROVE TypeOK'
  BY <1>10 DEF AuditEnds, Closed, database, Sessions, Audits
<1>11. ASSUME NEW a \in Artifacts, Tamper(a) PROVE TypeOK'
  <2>1. DOMAIN rows' \subseteq Artifacts /\ \A x \in DOMAIN rows' : rows'[x] \in Rows
    <3>1. CASE \E field \in {"content", "digest"} : rows' = [rows EXCEPT ![a][field] = FALSE]
      <4>1. PICK field \in {"content", "digest"} : rows' = [rows EXCEPT ![a][field] = FALSE]
        BY <3>1
      <4>2. DOMAIN rows' = DOMAIN rows /\ \A x \in DOMAIN rows \ {a} : rows'[x] = rows[x]
        BY <4>1
      <4>3. a \in DOMAIN rows => rows'[a] = [rows[a] EXCEPT ![field] = FALSE]
        BY <4>1
      <4>4. a \in DOMAIN rows => rows'[a] \in Rows
        BY <4>3 DEF Rows
      <4> QED
        BY <4>2, <4>4
    <3>2. CASE rows' = [x \in Stored \ {a} |-> rows[x]] \/ rows' = rows
      BY <3>2
    <3> QED
      BY <1>11, <3>1, <3>2 DEF Tamper, Alter
  <2>2. audit' \in Audits
    BY <1>11 DEF Tamper, Audits
  <2> QED
    BY <1>11, <2>1, <2>2 DEF Tamper
<1>12. CASE Tick \/ UNCHANGED vars
  BY <1>12 DEF Tick, vars, database
<1> QED
  BY <1>1, <1>2, <1>3, <1>4, <1>5, <1>6, <1>7, <1>8, <1>9, <1>10, <1>11, <1>12 DEF Next

-----------------------------------------------------------------------------
(* What a put changes *)

\* A put adds its own row, parents and provenance, and touches nothing else.
LEMMA PutAdds ==
  ASSUME NEW c \in Clients, NEW a \in Artifacts, NEW record, Put(c, a, record)
  PROVE  /\ DOMAIN rows' = Stored \cup {a} /\ rows'[a] = AsPut
         /\ \A x \in Stored : rows'[x] = rows[x]
         /\ Parents(a) \subseteq Stored
         /\ links \subseteq links'
         /\ \A l \in links' \ links : a \notin Stored /\ l[1] = a /\ l[2] \in Parents(a)
         /\ a \notin Stored => \A p \in Parents(a) : <<a, p>> \in links'
         /\ \A x \in DOMAIN origins : x \in DOMAIN origins' /\ origins'[x] = origins[x]
         /\ \A x \in DOMAIN origins' \ DOMAIN origins : x = a /\ origins'[x].sealed
         /\ UNCHANGED <<session, audit, tampers>>
<1>1. rows' = [x \in Stored \cup {a} |-> IF x = a THEN AsPut ELSE rows[x]]
  BY DEF Put, With, Stored
<1>2. a \in Stored => rows[a] = AsPut
  BY DEF Put
<1>3. /\ DOMAIN rows' = Stored \cup {a} /\ rows'[a] = AsPut
      /\ \A x \in Stored : rows'[x] = rows[x]
  BY <1>1, <1>2
<1>4. /\ links \subseteq links'
      /\ \A l \in links' \ links : a \notin Stored /\ l[1] = a /\ l[2] \in Parents(a)
      /\ a \notin Stored => \A p \in Parents(a) : <<a, p>> \in links'
  BY DEF Put
<1>5. /\ \A x \in DOMAIN origins : x \in DOMAIN origins' /\ origins'[x] = origins[x]
      /\ \A x \in DOMAIN origins' \ DOMAIN origins : x = a /\ origins'[x].sealed
  <2>1. CASE record = NoRecord \/ Has(a, record)
    BY <2>1 DEF Put
  <2>2. CASE ~ (record = NoRecord \/ Has(a, record))
    <3>1. a \notin DOMAIN origins
      BY <2>2 DEF Put, SameProvenance
    <3> DEFINE first == [record |-> record, sealed |-> TRUE]
    <3>2. origins' = [x \in DOMAIN origins \cup {a} |-> IF x = a THEN first ELSE origins[x]]
      BY <2>2 DEF Put, With
    <3>3. first.sealed
      OBVIOUS
    <3> HIDE DEF first
    <3> QED
      BY <3>1, <3>2, <3>3
  <2> QED
    BY <2>1, <2>2
<1>6. Parents(a) \subseteq Stored /\ UNCHANGED <<session, audit, tampers>>
  BY DEF Put
<1> QED
  BY <1>3, <1>4, <1>5, <1>6

\* The parent rows of what was stored before are as they were.
LEMMA PutKeepsLinks ==
  ASSUME NEW c \in Clients, NEW a \in Artifacts, NEW record, Put(c, a, record),
         NEW x \in Stored
  PROVE  LinksOf(x)' = LinksOf(x)
<1>1. \A l : l[1] = x => (l \in links' <=> l \in links)
  <2>1. /\ links \subseteq links'
        /\ \A l \in links' \ links : a \notin Stored /\ l[1] = a
    BY PutAdds
  <2> QED
    BY <2>1
<1>2. {l \in links' : l[1] = x} = {l \in links : l[1] = x}
  BY <1>1
<1> QED
  BY <1>2 DEF LinksOf

\* What does not alter the file or put leaves the stored rows alone.
LEMMA OthersKeep ==
  ASSUME [Next]_vars,
         ~ \E c \in Clients, a \in Artifacts, record \in Records \cup {NoRecord} :
             Put(c, a, record),
         ~ \E a \in Artifacts : Tamper(a)
  PROVE  UNCHANGED <<rows, links, origins, tampers>>
<1> USE DEF database
<1>1. ASSUME NEW c \in Clients, OpenSelect(c) \/ OpenInsert(c) \/ Crash(c)
      PROVE  UNCHANGED <<rows, links, origins, tampers>>
  BY <1>1 DEF OpenSelect, OpenInsert, Crash
<1>2. ASSUME NEW c \in Clients, NEW a \in Artifacts, Get(c, a) \/ AuditRecord(c, a)
      PROVE  UNCHANGED <<rows, links, origins, tampers>>
  BY <1>2 DEF Get, AuditRecord
<1>3. ASSUME NEW c \in Clients, \/ \E r \in Requests : PackContext(c, r)
                                \/ AuditIds(c) \/ AuditKeys(c) \/ AuditEnds(c)
      PROVE  UNCHANGED <<rows, links, origins, tampers>>
  BY <1>3 DEF PackContext, AuditIds, AuditKeys, AuditEnds
<1>4. CASE Tick \/ UNCHANGED vars
  BY <1>4 DEF Tick, vars
<1> QED
  BY <1>1, <1>2, <1>3, <1>4 DEF Next

-----------------------------------------------------------------------------
(* Nothing that was put is lost *)

\* A step that does not alter the file keeps every row, parent row and provenance.
LEMMA StepLineage ==
  ASSUME TypeOK, [Next]_vars, tampers' = tampers
  PROVE  /\ \A a \in Stored : a \in DOMAIN rows' /\ rows'[a] = rows[a]
         /\ links \subseteq links'
         /\ \A a \in DOMAIN origins : a \in DOMAIN origins' /\ origins'[a] = origins[a]
<1>1. ASSUME NEW c \in Clients, NEW a \in Artifacts, NEW record, Put(c, a, record)
      PROVE  /\ \A x \in Stored : x \in DOMAIN rows' /\ rows'[x] = rows[x]
             /\ links \subseteq links'
             /\ \A x \in DOMAIN origins : x \in DOMAIN origins' /\ origins'[x] = origins[x]
  BY <1>1, PutAdds
<1>2. ASSUME NEW a \in Artifacts, Tamper(a) PROVE FALSE
  BY <1>2 DEF Tamper, TypeOK
<1>3. CASE UNCHANGED <<rows, links, origins, tampers>>
  BY <1>3 DEF Stored
<1> QED
  BY <1>1, <1>2, <1>3, OthersKeep

\* Spec keeps the types, and with them every lineage.
THEOREM LineageIsKept ==
  Spec => LineageIsForGood
<1>1. Init => TypeOK
  BY InitIInv DEF IInv
<1>2. TypeOK /\ [Next]_vars => TypeOK'
  BY StepTypeOK
<1>3. TypeOK /\ [Next]_vars =>
        [tampers' = tampers =>
           /\ \A a \in Stored : a \in DOMAIN rows' /\ rows'[a] = rows[a]
           /\ links \subseteq links'
           /\ \A a \in DOMAIN origins : a \in DOMAIN origins' /\ origins'[a] = origins[a]]_vars
  BY StepLineage
<1> QED
  BY <1>1, <1>2, <1>3, PTL DEF Spec, LineageIsForGood

-----------------------------------------------------------------------------
(* What an audit vouches for *)

\* Whether a record is read back, in terms of its parent rows.
LEMMA ReadsBackMeans ==
  ASSUME TypeOK, NEW a
  PROVE  ReadsBack(a) <=> a \in Stored /\ rows[a] = AsPut /\ LinksOf(a) = Parents(a)
<1>1. ASSUME a \in Stored PROVE rows[a].content /\ rows[a].digest <=> rows[a] = AsPut
  <2>1. rows[a] \in Rows
    BY <1>1 DEF TypeOK
  <2>2. \A row \in Rows : row.content /\ row.digest <=> row = AsPut
    BY DEF Rows, AsPut
  <2> QED
    BY <2>1, <2>2
<1> QED
  BY <1>1 DEF ReadsBack, LinksOf

\* An audit of an intact file finds nothing.
LEMMA AuditFindsNothing ==
  ASSUME TypeOK, AuditorIsOne, IntactUnlessAltered, tampers = 0, tampers' = tampers,
         [Next]_vars
  PROVE  audit'.ids \subseteq Stored /\ ~audit'.failures
<1> DEFINE Clean == audit'.ids \subseteq Stored /\ ~audit'.failures
<1>1. /\ \A a \in Stored : rows[a] = AsPut /\ LinksOf(a) = Parents(a)
      /\ \A l \in links : {l[1], l[2]} \subseteq Stored
      /\ \A a \in DOMAIN origins : a \in Stored /\ origins[a].sealed
      /\ audit.ids \subseteq Stored /\ ~audit.failures
  BY DEF IntactUnlessAltered
<1>2. ASSUME NEW c \in Clients, OpenSelect(c) \/ OpenInsert(c) \/ Crash(c) PROVE Clean
  BY <1>1, <1>2 DEF OpenSelect, OpenInsert, Crash, Idle
<1>3. ASSUME NEW c \in Clients, NEW a \in Artifacts, Get(c, a) PROVE Clean
  BY <1>1, <1>3 DEF Get
<1>4. ASSUME NEW c \in Clients, NEW r, PackContext(c, r) PROVE Clean
  BY <1>1, <1>4 DEF PackContext
<1>5. ASSUME NEW c \in Clients, AuditIds(c) PROVE Clean
  BY <1>1, <1>5 DEF AuditIds, Idle
<1>6. ASSUME NEW c \in Clients, AuditKeys(c) PROVE Clean
  <2>1. ForeignKeysHold
    BY <1>1 DEF ForeignKeysHold
  <2> QED
    BY <1>1, <1>6, <2>1 DEF AuditKeys, TypeOK, Audits
<1>7. ASSUME NEW c \in Clients, NEW a \in Artifacts, AuditRecord(c, a) PROVE Clean
  <2>1. a \in Stored
    BY <1>1, <1>7 DEF AuditRecord, AuditorIsOne
  <2>2. ReadsBack(a) /\ ProvenanceReads(a)
    BY <1>1, <2>1, ReadsBackMeans DEF ProvenanceReads
  <2> QED
    BY <1>1, <1>7, <2>2 DEF AuditRecord, TypeOK, Audits
<1>8. ASSUME NEW c \in Clients, AuditEnds(c) PROVE Clean
  BY <1>1, <1>8 DEF AuditEnds, TypeOK, Audits
<1>9. CASE Tick \/ UNCHANGED vars
  BY <1>1, <1>9 DEF Tick, vars
<1>10. ASSUME NEW c \in Clients, NEW a \in Artifacts, NEW record, Put(c, a, record)
       PROVE  Clean
  BY <1>1, <1>10 DEF Put
<1>11. ASSUME NEW a \in Artifacts, Tamper(a) PROVE Clean
  BY <1>11 DEF Tamper
<1> QED
  BY <1>2, <1>3, <1>4, <1>5, <1>6, <1>7, <1>8, <1>9, <1>10, <1>11 DEF Next

\* Every step keeps an unaltered file intact, and audits of it without failures.
LEMMA StepIntact ==
  ASSUME IInv, [Next]_vars
  PROVE  IntactUnlessAltered'
<1>1. ASSUME NEW c \in Clients, NEW a \in Artifacts, NEW record, Put(c, a, record)
      PROVE  IntactUnlessAltered'
  <2>1. /\ DOMAIN rows' = Stored \cup {a} /\ rows'[a] = AsPut
        /\ \A x \in Stored : rows'[x] = rows[x]
        /\ Parents(a) \subseteq Stored
        /\ links \subseteq links'
        /\ \A l \in links' \ links : a \notin Stored /\ l[1] = a /\ l[2] \in Parents(a)
        /\ a \notin Stored => \A p \in Parents(a) : <<a, p>> \in links'
        /\ \A x \in DOMAIN origins : x \in DOMAIN origins' /\ origins'[x] = origins[x]
        /\ \A x \in DOMAIN origins' \ DOMAIN origins : x = a /\ origins'[x].sealed
        /\ UNCHANGED <<session, audit, tampers>>
    BY <1>1, PutAdds
  <2> SUFFICES ASSUME tampers = 0 PROVE IntactUnlessAltered'
    BY <2>1 DEF IntactUnlessAltered
  <2>2. /\ \A x \in Stored : rows[x] = AsPut /\ Parents(x) \subseteq Stored /\ LinksOf(x) = Parents(x)
        /\ \A l \in links : {l[1], l[2]} \subseteq Stored
        /\ \A x \in DOMAIN origins : x \in Stored /\ origins[x].sealed
        /\ audit.ids \subseteq Stored /\ ~audit.failures
    BY DEF IInv, IntactUnlessAltered
  <2>3. LinksOf(a)' = Parents(a)
    <3>1. CASE a \in Stored
      <4>1. LinksOf(a)' = LinksOf(a)
        BY <1>1, <3>1, PutKeepsLinks
      <4> QED
        BY <2>2, <3>1, <4>1
    <3>2. CASE a \notin Stored
      <4>1. \A l \in links' : l[1] = a => l[2] \in Parents(a)
        BY <2>1, <2>2, <3>2
      <4>2. \A p \in Parents(a) : <<a, p>> \in links'
        BY <2>1, <3>2
      <4>3. LinksOf(a)' = {l[2] : l \in {x \in links' : x[1] = a}}
        BY DEF LinksOf
      <4>4. \A p \in Parents(a) : p \in {l[2] : l \in {x \in links' : x[1] = a}}
        <5> TAKE p \in Parents(a)
        <5>1. <<a, p>> \in {x \in links' : x[1] = a} /\ p = <<a, p>>[2]
          BY <4>2
        <5> QED
          BY <5>1
      <4> QED
        BY <4>1, <4>3, <4>4
    <3> QED
      BY <3>1, <3>2
  <2>4. \A x \in Stored : LinksOf(x)' = LinksOf(x)
    BY <1>1, PutKeepsLinks
  <2>5. \A x \in DOMAIN rows' :
          rows'[x] = AsPut /\ Parents(x) \subseteq DOMAIN rows' /\ LinksOf(x)' = Parents(x)
    BY <2>1, <2>2, <2>3, <2>4
  <2>6. \A l \in links' : {l[1], l[2]} \subseteq DOMAIN rows'
    BY <2>1, <2>2
  <2>7. \A x \in DOMAIN origins' : x \in DOMAIN rows' /\ origins'[x].sealed
    <3>1. \A x \in DOMAIN origins' : x \in DOMAIN origins \/ x = a
      BY <2>1
    <3> QED
      BY <2>1, <2>2, <3>1
  <2>8. audit'.ids \subseteq DOMAIN rows' /\ ~audit'.failures
    BY <2>1, <2>2
  <2> QED
    BY <2>5, <2>6, <2>7, <2>8 DEF IntactUnlessAltered, Stored
<1>2. ASSUME NEW a \in Artifacts, Tamper(a) PROVE IntactUnlessAltered'
  BY <1>2 DEF Tamper, IntactUnlessAltered, IInv, TypeOK
<1>3. CASE UNCHANGED <<rows, links, origins, tampers>>
  <2>1. tampers = 0 => audit'.ids \subseteq Stored /\ ~audit'.failures
    BY <1>3, AuditFindsNothing DEF IInv
  <2> QED
    BY <1>3, <2>1 DEF IInv, IntactUnlessAltered, Stored, LinksOf
<1> QED
  BY <1>1, <1>2, <1>3, OthersKeep

\* Every step leaves one auditor at most, with what it listed before it.
LEMMA StepAuditor ==
  ASSUME TypeOK, AuditorIsOne, [Next]_vars
  PROVE  AuditorIsOne'
<1> USE DEF TypeOK, AuditorIsOne, At, Sessions, Audits
<1>1. ASSUME NEW c \in Clients, OpenSelect(c) PROVE AuditorIsOne'
  BY <1>1 DEF OpenSelect, Go
<1>2. ASSUME NEW c \in Clients, OpenInsert(c) PROVE AuditorIsOne'
  BY <1>2 DEF OpenInsert, Go
<1>3. ASSUME NEW c \in Clients, Crash(c) PROVE AuditorIsOne'
  BY <1>3 DEF Crash, Closed, Idle
<1>4. ASSUME NEW c \in Clients, NEW a \in Artifacts, NEW record, Put(c, a, record)
      PROVE  AuditorIsOne'
  BY <1>4 DEF Put
<1>5. ASSUME NEW c \in Clients, NEW a \in Artifacts, Get(c, a) PROVE AuditorIsOne'
  BY <1>5 DEF Get
<1>6. ASSUME NEW c \in Clients, NEW r, PackContext(c, r) PROVE AuditorIsOne'
  BY <1>6 DEF PackContext, Closed
<1>7. ASSUME NEW c \in Clients, AuditIds(c) PROVE AuditorIsOne'
  BY <1>7 DEF AuditIds, Idle
<1>8. ASSUME NEW c \in Clients, AuditKeys(c) PROVE AuditorIsOne'
  BY <1>8 DEF AuditKeys
<1>9. ASSUME NEW c \in Clients, NEW a \in Artifacts, AuditRecord(c, a) PROVE AuditorIsOne'
  BY <1>9 DEF AuditRecord
<1>10. ASSUME NEW c \in Clients, AuditEnds(c) PROVE AuditorIsOne'
  BY <1>10 DEF AuditEnds, Closed
<1>11. ASSUME NEW a \in Artifacts, Tamper(a) PROVE AuditorIsOne'
  BY <1>11 DEF Tamper
<1>12. CASE Tick \/ UNCHANGED vars
  BY <1>12 DEF Tick, vars
<1> QED
  BY <1>1, <1>2, <1>3, <1>4, <1>5, <1>6, <1>7, <1>8, <1>9, <1>10, <1>11, <1>12 DEF Next

\* What the audit knows stays so as long as the file, the audit and its auditor do.
LEMMA KnowledgeKept ==
  ASSUME AuditKnows, UNCHANGED <<rows, links, origins, audit>>,
         \A c \in Clients : /\ At(c, "audit") => At(c, "audit")'
                            /\ At(c, "audit") => session'[c].held = session[c].held
  PROVE  AuditKnows'
<1>1. \A a : HasRead(a)' => HasRead(a)
  BY DEF HasRead
<1>2. \A a : /\ LinksOf(a)' = LinksOf(a)
             /\ Sealed(a)' <=> Sealed(a)
  BY DEF LinksOf, Sealed
<1> QED
  BY <1>1, <1>2 DEF AuditKnows, Stored

\* A put leaves what the audit knows, of the rows it listed and of all others.
LEMMA PutLeavesKnown ==
  ASSUME AuditKnows, NEW c \in Clients, NEW a \in Artifacts, NEW record, Put(c, a, record)
  PROVE  AuditKnows'
<1>1. /\ DOMAIN rows' = Stored \cup {a} /\ rows'[a] = AsPut
      /\ \A x \in Stored : rows'[x] = rows[x]
      /\ Parents(a) \subseteq Stored
      /\ \A l \in links' \ links : a \notin Stored /\ l[1] = a /\ l[2] \in Parents(a)
      /\ \A x \in DOMAIN origins : x \in DOMAIN origins' /\ origins'[x] = origins[x]
      /\ \A x \in DOMAIN origins' \ DOMAIN origins : x = a /\ origins'[x].sealed
      /\ UNCHANGED <<session, audit, tampers>>
  BY PutAdds
<1> SUFFICES ASSUME audit.phase \in Running, ~audit.disturbed
             PROVE  AuditKnows'
  BY <1>1 DEF AuditKnows
<1>2. /\ audit.ids \subseteq Stored
      /\ \A x \in Stored \ audit.ids : rows[x] = AsPut
      /\ audit.phase = "keys" => ~audit.failures
  BY DEF AuditKnows
<1>3. /\ audit.ids \subseteq DOMAIN rows'
      /\ \A x \in DOMAIN rows' \ audit.ids : rows'[x] = AsPut
  BY <1>1, <1>2
<1>4. ASSUME audit.phase # "keys", ~audit.failures
      PROVE  /\ \A l \in links' : {l[1], l[2]} \subseteq DOMAIN rows'
             /\ \A x \in audit.ids : HasRead(x)' =>
                  rows'[x] = AsPut /\ LinksOf(x)' = Parents(x) /\ Sealed(x)'
  <2>1. /\ \A l \in links : {l[1], l[2]} \subseteq Stored
        /\ \A x \in audit.ids :
             HasRead(x) => rows[x] = AsPut /\ LinksOf(x) = Parents(x) /\ Sealed(x)
    BY <1>4 DEF AuditKnows
  <2>2. \A l \in links' : {l[1], l[2]} \subseteq DOMAIN rows'
    BY <1>1, <2>1
  <2>3. ASSUME NEW x \in audit.ids, HasRead(x)'
        PROVE  rows'[x] = AsPut /\ LinksOf(x)' = Parents(x) /\ Sealed(x)'
    <3>1. HasRead(x) /\ x \in Stored
      BY <1>1, <1>2, <2>3 DEF HasRead, At
    <3>2. rows[x] = AsPut /\ LinksOf(x) = Parents(x) /\ Sealed(x)
      BY <2>1, <3>1
    <3>3. LinksOf(x)' = LinksOf(x)
      BY <3>1, PutKeepsLinks
    <3>4. Sealed(x)'
      BY <1>1, <3>2 DEF Sealed
    <3> QED
      BY <1>1, <3>1, <3>2, <3>3, <3>4
  <2> QED
    BY <2>2, <2>3
<1> QED
  BY <1>1, <1>2, <1>3, <1>4 DEF AuditKnows, Stored

\* Every step keeps what the audit knows.
LEMMA StepKnows ==
  ASSUME TypeOK, AuditorIsOne, AuditKnows, [Next]_vars
  PROVE  AuditKnows'
<1>1. ASSUME NEW c \in Clients, OpenSelect(c) PROVE AuditKnows'
  BY <1>1, KnowledgeKept DEF OpenSelect, Go, At, database, TypeOK, Sessions
<1>2. ASSUME NEW c \in Clients, OpenInsert(c) PROVE AuditKnows'
  BY <1>2, KnowledgeKept DEF OpenInsert, Go, At, TypeOK, Sessions
<1>3. ASSUME NEW c \in Clients, Crash(c) PROVE AuditKnows'
  <2>1. CASE At(c, "audit")
    BY <1>3, <2>1 DEF Crash, AuditKnows, Idle, Running
  <2>2. CASE ~At(c, "audit")
    BY <1>3, <2>2, KnowledgeKept DEF Crash, At, database, TypeOK, Sessions
  <2> QED
    BY <2>1, <2>2
<1>4. ASSUME NEW c \in Clients, NEW a \in Artifacts, NEW record, Put(c, a, record)
      PROVE  AuditKnows'
  BY <1>4, PutLeavesKnown
<1>5. ASSUME NEW c \in Clients, NEW a \in Artifacts, Get(c, a) PROVE AuditKnows'
  BY <1>5, KnowledgeKept DEF Get, At, database, TypeOK, Sessions
<1>6. ASSUME NEW c \in Clients, NEW r, PackContext(c, r) PROVE AuditKnows'
  BY <1>6, KnowledgeKept DEF PackContext, At, database, TypeOK, Sessions
<1>7. ASSUME NEW c \in Clients, AuditIds(c) PROVE AuditKnows'
  <2>1. audit' = [Idle EXCEPT !.phase = "keys", !.ids = Stored] /\ UNCHANGED rows
    BY <1>7 DEF AuditIds, database
  <2>2. audit'.phase = "keys" /\ audit'.ids = Stored /\ ~audit'.failures
    BY <2>1 DEF Idle
  <2> QED
    BY <2>1, <2>2 DEF AuditKnows, Stored
<1>8. ASSUME NEW c \in Clients, AuditKeys(c) PROVE AuditKnows'
  <2>1. /\ audit.phase = "keys" /\ session[c].held = audit.ids /\ At(c, "audit")
        /\ UNCHANGED <<rows, links, origins, session>>
    BY <1>8 DEF AuditKeys, AuditorIsOne, database
  <2>2. /\ audit'.phase = "records" /\ audit'.ids = audit.ids
        /\ audit'.disturbed = audit.disturbed /\ audit'.failures = ~ForeignKeysHold
    BY <1>8 DEF AuditKeys, TypeOK, Audits
  <2>3. \A a \in audit'.ids : ~HasRead(a)'
    BY <2>1, <2>2 DEF HasRead, At
  <2> QED
    BY <2>1, <2>2, <2>3 DEF AuditKnows, Running, ForeignKeysHold, Stored
<1>9. ASSUME NEW c \in Clients, NEW a \in Artifacts, AuditRecord(c, a) PROVE AuditKnows'
  <2>1. /\ audit.phase = "records" /\ At(c, "audit") /\ a \in session[c].held
        /\ UNCHANGED <<rows, links, origins>>
    BY <1>9 DEF AuditRecord, database
  <2>2. /\ audit'.phase = audit.phase /\ audit'.ids = audit.ids
        /\ audit'.disturbed = audit.disturbed
        /\ audit'.failures = (audit.failures \/ ~ReadsBack(a) \/ ~ProvenanceReads(a))
    BY <1>9 DEF AuditRecord, TypeOK, Audits
  <2>3. \A x : HasRead(x)' => HasRead(x) \/ x = a
    BY <1>9 DEF AuditRecord, HasRead, At, TypeOK, Sessions
  <2>4. ~audit'.failures => rows[a] = AsPut /\ LinksOf(a) = Parents(a) /\ Sealed(a)
    BY <2>2, ReadsBackMeans DEF ProvenanceReads, Sealed
  <2>5. \A x : LinksOf(x)' = LinksOf(x) /\ (Sealed(x)' <=> Sealed(x))
    BY <2>1 DEF LinksOf, Sealed
  <2> QED
    BY <2>1, <2>2, <2>3, <2>4, <2>5 DEF AuditKnows, Running, Stored
<1>10. ASSUME NEW c \in Clients, AuditEnds(c) PROVE AuditKnows'
  <2>1. /\ audit.phase = "records" /\ At(c, "audit") /\ session[c].held = {}
        /\ UNCHANGED <<rows, links, origins>>
    BY <1>10 DEF AuditEnds, database
  <2>2. /\ audit'.phase = "done" /\ audit'.ids = audit.ids
        /\ audit'.disturbed = audit.disturbed /\ audit'.failures = audit.failures
    BY <1>10 DEF AuditEnds, TypeOK, Audits
  <2>3. \A x : HasRead(x)
    BY <2>1 DEF HasRead, AuditorIsOne
  <2>4. \A x : LinksOf(x)' = LinksOf(x) /\ (Sealed(x)' <=> Sealed(x))
    BY <2>1 DEF LinksOf, Sealed
  <2> QED
    BY <2>1, <2>2, <2>3, <2>4 DEF AuditKnows, Running, Stored
<1>11. ASSUME NEW a \in Artifacts, Tamper(a) PROVE AuditKnows'
  <2>1. audit'.phase = audit.phase /\ audit'.disturbed = (audit.phase # "idle")
    BY <1>11 DEF Tamper, TypeOK, Audits
  <2> QED
    BY <2>1 DEF AuditKnows, Running
<1>12. CASE Tick \/ UNCHANGED vars
  BY <1>12, KnowledgeKept DEF Tick, vars, database, At
<1> QED
  BY <1>1, <1>2, <1>3, <1>4, <1>5, <1>6, <1>7, <1>8, <1>9, <1>10, <1>11, <1>12 DEF Next

\* When an audit has passed, what it knows is what AuditIsExact asks for.
LEMMA KnownMeansExact ==
  IInv => AuditIsExact
<1> SUFFICES ASSUME IInv, audit.phase = "done" PROVE AuditIsExact
  BY DEF AuditIsExact
<1>1. tampers = 0 => ~audit.failures
  BY DEF IInv, IntactUnlessAltered
<1>2. ASSUME ~audit.failures, ~audit.disturbed, NEW a \in audit.ids
      PROVE  /\ \A x \in {a} \union Parents(a) : x \in Stored /\ rows[x] = AsPut
             /\ LinksOf(a) = Parents(a)
             /\ Sealed(a)
  <2>1. \A x : HasRead(x)
    BY DEF IInv, AuditorIsOne, HasRead
  <2>2. /\ audit.ids \subseteq Stored
        /\ \A x \in Stored \ audit.ids : rows[x] = AsPut
        /\ \A l \in links : {l[1], l[2]} \subseteq Stored
        /\ \A x \in audit.ids : rows[x] = AsPut /\ LinksOf(x) = Parents(x) /\ Sealed(x)
    BY <1>2, <2>1 DEF IInv, AuditKnows, Running
  <2>3. \A x \in LinksOf(a) : x \in Stored
    BY <2>2 DEF LinksOf
  <2> QED
    BY <2>2, <2>3
<1> QED
  BY <1>1, <1>2 DEF AuditIsExact, LinksOf, Sealed

\* Every reachable state satisfies the invariant.
THEOREM Invariance ==
  Spec => []IInv
<1>1. IInv /\ [Next]_vars => IInv'
  BY StepTypeOK, StepIntact, StepAuditor, StepKnows DEF IInv
<1> QED
  BY InitIInv, <1>1, PTL DEF Spec

\* An audit passes exactly what is intact: artifacts down their ancestry, parent rows and
\* seals, in a file that nobody altered meanwhile and however many puts ran beside it.
THEOREM AuditsAreExact ==
  Spec => []AuditIsExact
BY Invariance, KnownMeansExact, PTL

-----------------------------------------------------------------------------
(* What the packer selects *)

\* The order of the candidates has no cycles.
LEMMA DenserIsAnOrder ==
  /\ \A a \in Artifacts : ~Denser(a, a)
  /\ \A a, b, c \in Artifacts : Denser(a, b) /\ Denser(b, c) => Denser(a, c)
<1>1. ASSUME NEW a \in Artifacts PROVE ~Denser(a, a)
  BY EvidenceAssumption DEF Denser, Artifacts
<1>2. ASSUME NEW a \in Artifacts, NEW b \in Artifacts, NEW c \in Artifacts,
             Denser(a, b), Denser(b, c)
      PROVE  Denser(a, c)
  <2> DEFINE v(x) == Meta[x].value
             s(x) == Meta[x].size
  <2>1. \A x \in Artifacts : v(x) \in Nat /\ s(x) \in Nat /\ s(x) > 0
    BY EvidenceAssumption DEF Artifacts
  <2>2. /\ v(a) * s(b) >= v(b) * s(a) /\ v(b) * s(c) >= v(c) * s(b)
        /\ v(a) * s(b) = v(b) * s(a) => v(a) > v(b) \/ (v(a) = v(b) /\ s(a) < s(b))
        /\ v(b) * s(c) = v(c) * s(b) => v(b) > v(c) \/ (v(b) = v(c) /\ s(b) < s(c))
    BY <1>2, <2>1 DEF Denser
  <2> HIDE DEF v, s
  <2>3. /\ v(a) * s(c) >= v(c) * s(a)
        /\ v(a) * s(c) = v(c) * s(a) => v(a) * s(b) = v(b) * s(a) /\ v(b) * s(c) = v(c) * s(b)
    <3>1. /\ v(a) \in Nat /\ v(b) \in Nat /\ v(c) \in Nat
          /\ s(a) \in Nat \ {0} /\ s(b) \in Nat \ {0} /\ s(c) \in Nat \ {0}
      BY <2>1
    <3> QED
      BY <2>2, <3>1
  <2>4. v(a) * s(c) = v(c) * s(a) => v(a) > v(c) \/ (v(a) = v(c) /\ s(a) < s(c))
    BY <2>1, <2>2, <2>3
  <2>5. v(a) * s(c) > v(c) * s(a) \/ v(a) * s(c) = v(c) * s(a)
    BY <2>1, <2>3
  <2> QED
    BY <2>4, <2>5 DEF Denser, v, s
<1> QED
  BY <1>1, <1>2

LastOf(S) == CHOOSE a \in S : \A b \in S : ~Denser(a, b)

\* Of finitely many candidates one is the last.
LEMMA LastIsOne ==
  ASSUME NEW S \in SUBSET Artifacts, IsFiniteSet(S), S # {}
  PROVE  LastOf(S) \in S
<1> DEFINE Bad == {T \in FiniteSubsetsOf(Artifacts) :
                     T # {} /\ ~ \E a \in T : \A b \in T : ~Denser(a, b)}
<1>1. SUFFICES Bad = {}
  <2>1. S \in FiniteSubsetsOf(Artifacts)
    BY DEF FiniteSubsetsOf
  <2>2. \E a \in S : \A b \in S : ~Denser(a, b)
    BY <1>1, <2>1
  <2> QED
    BY <2>2 DEF LastOf
<1>2. SUFFICES ASSUME Bad # {} PROVE FALSE
  OBVIOUS
<1>3. PICK T \in Bad : \A U \in Bad : ~ (U \subseteq T /\ U # T)
  <2>1. Bad \subseteq FiniteSubsetsOf(Artifacts)
    OBVIOUS
  <2> HIDE DEF Bad
  <2> QED
    BY <1>2, <2>1, SmallestSet
<1>4. /\ T \in SUBSET Artifacts /\ IsFiniteSet(T) /\ T # {}
      /\ ~ \E a \in T : \A b \in T : ~Denser(a, b)
  BY <1>3 DEF FiniteSubsetsOf
<1>5. PICK x \in T : TRUE
  BY <1>4
<1>6. T \ {x} # {}
  BY <1>4, DenserIsAnOrder
<1>7. T \ {x} \in FiniteSubsetsOf(Artifacts) /\ T \ {x} \subseteq T /\ T \ {x} # T
  BY <1>4, FS_Difference DEF FiniteSubsetsOf
<1>8. PICK a \in T \ {x} : \A b \in T \ {x} : ~Denser(a, b)
  BY <1>3, <1>6, <1>7
<1>9. Denser(a, x)
  BY <1>4, <1>8
<1>10. \A b \in T : ~Denser(x, b)
  BY <1>4, <1>8, <1>9, DenserIsAnOrder
<1> QED
  BY <1>4, <1>10

AddIfFits(budget, a, blocks) ==
  IF Fits(budget, Bytes(blocks) + Meta[a].size) THEN blocks \cup {Source("artifact", a)} ELSE blocks

\* g is the recursive function of the fold in Select, over the subsets of T.
Selects(g, mandatory, budget, T) ==
  g = [s \in SUBSET T |->
         IF s = {} THEN mandatory ELSE AddIfFits(budget, LastOf(s), g[s \ {LastOf(s)}])]

Selection(mandatory, budget, T) == CHOOSE g : Selects(g, mandatory, budget, T)

\* What is selected is the value of that function.
LEMMA SelectUnfolds ==
  ASSUME NEW mandatory, NEW wanted, NEW budget
  PROVE  Select(mandatory, wanted, budget) = Selection(mandatory, budget, wanted)[wanted]
BY DEF Select, MapThenFoldSet, Selection, Selects, LastOf, AddIfFits

\* The functions of two sets agree on the candidates that both go through.
LEMMA SelectsAgree ==
  ASSUME NEW mandatory, NEW budget, NEW T \in SUBSET Artifacts, NEW U,
         NEW g, NEW h, Selects(g, mandatory, budget, T), Selects(h, mandatory, budget, U),
         NEW s \in SUBSET (T \cap U), IsFiniteSet(s)
  PROVE  g[s] = h[s]
<1> DEFINE Bad == {r \in FiniteSubsetsOf(T \cap U) : g[r] # h[r]}
<1>1. SUFFICES Bad = {}
  BY DEF FiniteSubsetsOf
<1>2. SUFFICES ASSUME Bad # {} PROVE FALSE
  OBVIOUS
<1>3. PICK r \in Bad : \A q \in Bad : ~ (q \subseteq r /\ q # r)
  <2>1. Bad \subseteq FiniteSubsetsOf(T \cap U)
    OBVIOUS
  <2> HIDE DEF Bad
  <2> QED
    BY <1>2, <2>1, SmallestSet
<1>4. /\ r \in SUBSET T /\ r \in SUBSET U /\ IsFiniteSet(r) /\ g[r] # h[r]
  BY <1>3 DEF FiniteSubsetsOf
<1> DEFINE x == LastOf(r)
<1>5. /\ g[r] = IF r = {} THEN mandatory ELSE AddIfFits(budget, x, g[r \ {x}])
      /\ h[r] = IF r = {} THEN mandatory ELSE AddIfFits(budget, x, h[r \ {x}])
  BY <1>4 DEF Selects
<1>6. r # {}
  BY <1>4, <1>5
<1>7. x \in r
  BY <1>4, <1>6, LastIsOne
<1> HIDE DEF x
<1>8. r \ {x} \in FiniteSubsetsOf(T \cap U) /\ r \ {x} \subseteq r /\ r \ {x} # r
  BY <1>4, <1>7, FS_Difference DEF FiniteSubsetsOf
<1>9. g[r \ {x}] = h[r \ {x}]
  BY <1>3, <1>8
<1> QED
  BY <1>4, <1>5, <1>6, <1>9

\* The function exists for finitely many candidates.
LEMMA SelectsExist ==
  ASSUME NEW mandatory, NEW budget, NEW S \in SUBSET Artifacts, IsFiniteSet(S)
  PROVE  Selects(Selection(mandatory, budget, S), mandatory, budget, S)
<1> DEFINE Of(g, T) == Selects(g, mandatory, budget, T)
           Bad == {T \in FiniteSubsetsOf(S) : ~ \E g : Of(g, T)}
<1>1. SUFFICES Bad = {}
  <2>1. S \in FiniteSubsetsOf(S)
    BY DEF FiniteSubsetsOf
  <2>2. \E g : Of(g, S)
    BY <1>1, <2>1
  <2> QED
    BY <2>2 DEF Selection
<1>2. SUFFICES ASSUME Bad # {} PROVE FALSE
  OBVIOUS
<1>3. PICK T \in Bad : \A U \in Bad : ~ (U \subseteq T /\ U # T)
  <2>1. Bad \subseteq FiniteSubsetsOf(S)
    OBVIOUS
  <2> HIDE DEF Bad
  <2> QED
    BY <1>2, <2>1, SmallestSet
<1>4. /\ T \in SUBSET S /\ IsFiniteSet(T) /\ ~ \E g : Of(g, T)
  BY <1>3 DEF FiniteSubsetsOf
<1> DEFINE part(x) == Selection(mandatory, budget, T \ {x})
<1>5. \A x \in T : Of(part(x), T \ {x})
  <2> TAKE x \in T
  <2>1. T \ {x} \in FiniteSubsetsOf(S) /\ T \ {x} \subseteq T /\ T \ {x} # T
    BY <1>4, FS_Difference DEF FiniteSubsetsOf
  <2>2. \E g : Of(g, T \ {x})
    BY <1>3, <2>1
  <2> QED
    BY <2>2 DEF Selection
<1> DEFINE g == [s \in SUBSET T |->
                   IF s = {} THEN mandatory
                   ELSE AddIfFits(budget, LastOf(s), part(LastOf(s))[s \ {LastOf(s)}])]
<1>6. ASSUME NEW s \in SUBSET T, s # {}
      PROVE  LastOf(s) \in s /\ IsFiniteSet(s)
  BY <1>4, <1>6, LastIsOne, FS_Subset
<1>7. ASSUME NEW s \in SUBSET T, s # {}
      PROVE  g[s \ {LastOf(s)}] = part(LastOf(s))[s \ {LastOf(s)}]
  <2> DEFINE x == LastOf(s)
             r == s \ {x}
  <2>1. x \in T /\ x \in s /\ r \in SUBSET T /\ r \in SUBSET (T \ {x})
    BY <1>6, <1>7
  <2>2. Of(part(x), T \ {x})
    BY <1>5, <2>1
  <2> HIDE DEF x, r, part
  <2>3. part(x)[r] = IF r = {} THEN mandatory
                     ELSE AddIfFits(budget, LastOf(r), part(x)[r \ {LastOf(r)}])
    BY <2>1, <2>2 DEF Selects
  <2>4. CASE r = {}
    BY <2>1, <2>3, <2>4 DEF x, r
  <2>5. CASE r # {}
    <3>1. LastOf(r) \in r /\ LastOf(r) \in T
      BY <1>6, <2>1, <2>5
    <3>2. Of(part(LastOf(r)), T \ {LastOf(r)})
      BY <1>5, <3>1 DEF part
    <3>3. /\ r \ {LastOf(r)} \in SUBSET ((T \ {x}) \cap (T \ {LastOf(r)}))
          /\ IsFiniteSet(r \ {LastOf(r)})
      BY <1>4, <2>1, FS_Subset
    <3>4. part(x)[r \ {LastOf(r)}] = part(LastOf(r))[r \ {LastOf(r)}]
      <4>1. T \ {x} \in SUBSET Artifacts
        BY <1>4
      <4> QED
        BY <2>2, <3>2, <3>3, <4>1, SelectsAgree
    <3>5. g[r] = AddIfFits(budget, LastOf(r), part(LastOf(r))[r \ {LastOf(r)}])
      BY <2>1, <2>5
    <3> QED
      BY <2>3, <2>5, <3>4, <3>5 DEF x, r
  <2> QED
    BY <2>4, <2>5
<1>8. Of(g, T)
  <2> HIDE DEF part
  <2>1. \A s \in SUBSET T :
          g[s] = IF s = {} THEN mandatory
                 ELSE AddIfFits(budget, LastOf(s), g[s \ {LastOf(s)}])
    BY <1>7
  <2>2. g = [s \in SUBSET T |-> g[s]]
    OBVIOUS
  <2> HIDE DEF g
  <2> QED
    BY <2>1, <2>2 DEF Selects
<1> QED
  BY <1>4, <1>8

\* With no candidates only what is mandatory is selected.
LEMMA SelectNone ==
  ASSUME NEW mandatory, NEW budget
  PROVE  Select(mandatory, {}, budget) = mandatory
<1>1. Selects(Selection(mandatory, budget, {}), mandatory, budget, {})
  BY FS_EmptySet, SelectsExist
<1>2. {} \in SUBSET {}
  OBVIOUS
<1> QED
  BY <1>1, <1>2, SelectUnfolds DEF Selects

\* The last candidate is added to the selection among the others, if it fits.
LEMMA SelectLast ==
  ASSUME NEW mandatory, NEW budget, NEW S \in SUBSET Artifacts, IsFiniteSet(S), S # {}
  PROVE  Select(mandatory, S, budget)
           = AddIfFits(budget, LastOf(S), Select(mandatory, S \ {LastOf(S)}, budget))
<1> DEFINE x == LastOf(S)
           R == S \ {x}
           Of(T) == Selection(mandatory, budget, T)
<1>1. IsFiniteSet(R) /\ R \in SUBSET (S \cap R) /\ R \in SUBSET R /\ S \in SUBSET S
      /\ R \in SUBSET Artifacts
  BY FS_Difference
<1>2. Selects(Of(S), mandatory, budget, S) /\ Selects(Of(R), mandatory, budget, R)
  BY <1>1, SelectsExist
<1> HIDE DEF Of
<1>3. Of(S)[S] = AddIfFits(budget, x, Of(S)[R])
  BY <1>1, <1>2 DEF Selects
<1>4. Of(S)[R] = Of(R)[R]
  BY <1>1, <1>2, SelectsAgree
<1> QED
  BY <1>3, <1>4, SelectUnfolds DEF Of

\* Bytes are counted in natural numbers, and a further block adds its own.
LEMMA BytesCount ==
  ASSUME NEW blocks, IsFiniteSet(blocks), \A b \in blocks : ByteSize(b) \in Nat
  PROVE  /\ Bytes(blocks) \in Nat
         /\ \A b : b \notin blocks /\ ByteSize(b) \in Nat =>
              Bytes(blocks \cup {b}) = ByteSize(b) + Bytes(blocks)
<1> DEFINE size(B) == [b \in B |-> ByteSize(b)]
<1>1. Bytes(blocks) = SumFunctionOnSet(size(blocks), blocks)
  BY DEF Bytes, SumFunction
<1>2. Bytes(blocks) \in Nat
  BY <1>1, SumNatural
<1>3. ASSUME NEW b, b \notin blocks, ByteSize(b) \in Nat
      PROVE  Bytes(blocks \cup {b}) = ByteSize(b) + Bytes(blocks)
  <2> DEFINE more == size(blocks \cup {b})
  <2>1. Bytes(blocks \cup {b}) = SumFunctionOnSet(more, blocks \cup {b})
    BY DEF Bytes, SumFunction
  <2>2. more[b] = ByteSize(b) /\ \A x \in blocks : more[x] = size(blocks)[x]
    OBVIOUS
  <2>3. \A x \in blocks \cup {b} : more[x] \in Int
    BY <1>3
  <2> HIDE DEF more
  <2>4. SumFunctionOnSet(more, blocks \cup {b}) = more[b] + SumFunctionOnSet(more, blocks)
    BY <1>3, <2>3, SumAdd
  <2>5. SumFunctionOnSet(more, blocks) = SumFunctionOnSet(size(blocks), blocks)
    BY <2>2, SumSame
  <2> QED
    BY <1>1, <2>1, <2>2, <2>4, <2>5
<1> QED
  BY <1>2, <1>3

\* Sources of the optional artifacts.
Optional(a) == Source("artifact", a)

\* What Select is to guarantee of the selection from T.
Maximal(blocks, mandatory, budget, T) ==
  /\ mandatory \subseteq blocks
  /\ \A b \in blocks : b \in mandatory \/ \E a \in T : b = Optional(a)
  /\ IsFiniteSet(blocks) /\ \A b \in blocks : ByteSize(b) \in Nat
  /\ Fits(budget, Bytes(blocks))
  /\ \A a \in T : Optional(a) \notin blocks => ~Fits(budget, Bytes(blocks) + Meta[a].size)

\* An artifact that is added to a maximal selection if it fits leaves a maximal one.
LEMMA AddKeepsMaximal ==
  ASSUME NEW mandatory, NEW T \in SUBSET Artifacts, NEW a \in Artifacts \ T, NEW blocks,
         NEW budget, budget.maxBytes \in Int, budget.maxTokens \in Int,
         Optional(a) \notin mandatory, Maximal(blocks, mandatory, budget, T)
  PROVE  Maximal(AddIfFits(budget, a, blocks), mandatory, budget, T \cup {a})
<1>1. /\ ByteSize(Optional(a)) = Meta[a].size /\ Meta[a].size \in Nat
      /\ \A x, y : Optional(x) = Optional(y) => x = y
  BY EvidenceAssumption DEF Optional, Source, ByteSize, Artifacts
<1>2. Optional(a) \notin blocks
  BY <1>1 DEF Maximal
<1>3. \A x \in Artifacts : Meta[x].size \in Nat
  BY EvidenceAssumption DEF Artifacts
<1>4. Bytes(blocks) \in Nat
      /\ Bytes(blocks \cup {Optional(a)}) = Meta[a].size + Bytes(blocks)
  BY <1>1, <1>2, BytesCount DEF Maximal
<1>5. CASE Fits(budget, Bytes(blocks) + Meta[a].size)
  <2> DEFINE more == blocks \cup {Optional(a)}
  <2>1. AddIfFits(budget, a, blocks) = more
    BY <1>5 DEF AddIfFits, Optional
  <2>2. IsFiniteSet(more)
    BY FS_AddElement DEF Maximal
  <2>3. Fits(budget, Bytes(more))
    BY <1>1, <1>4, <1>5 DEF Fits
  <2>4. ASSUME NEW x \in T \cup {a}, Optional(x) \notin more
        PROVE  ~Fits(budget, Bytes(more) + Meta[x].size)
    <3>1. x \in T /\ x \in Artifacts /\ ~Fits(budget, Bytes(blocks) + Meta[x].size)
      BY <2>4 DEF Maximal
    <3>2. Meta[x].size \in Nat
      BY <1>3, <3>1
    <3> QED
      BY <1>1, <1>4, <3>1, <3>2 DEF Fits
  <2>5. mandatory \subseteq more /\ \A b \in more : b \in mandatory \/ \E x \in T \cup {a} : b = Optional(x)
    BY DEF Maximal
  <2>6. \A b \in more : ByteSize(b) \in Nat
    BY <1>1 DEF Maximal
  <2> HIDE DEF more
  <2> QED
    BY <2>1, <2>2, <2>3, <2>4, <2>5, <2>6 DEF Maximal
<1>6. CASE ~Fits(budget, Bytes(blocks) + Meta[a].size)
  BY <1>6 DEF AddIfFits, Maximal
<1> QED
  BY <1>5, <1>6

\* The selection is maximal.
LEMMA SelectIsMaximal ==
  ASSUME NEW mandatory, IsFiniteSet(mandatory), \A b \in mandatory : ByteSize(b) \in Nat,
         NEW budget, budget.maxBytes \in Int, budget.maxTokens \in Int,
         Fits(budget, Bytes(mandatory)),
         NEW S \in SUBSET Artifacts, IsFiniteSet(S), \A a \in S : Optional(a) \notin mandatory
  PROVE  Maximal(Select(mandatory, S, budget), mandatory, budget, S)
<1> DEFINE of(T) == Select(mandatory, T, budget)
           Bad == {T \in FiniteSubsetsOf(S) : ~Maximal(of(T), mandatory, budget, T)}
<1>1. SUFFICES Bad = {}
  BY DEF FiniteSubsetsOf
<1>2. SUFFICES ASSUME Bad # {} PROVE FALSE
  OBVIOUS
<1>3. PICK T \in Bad : \A U \in Bad : ~ (U \subseteq T /\ U # T)
  <2>1. Bad \subseteq FiniteSubsetsOf(S)
    OBVIOUS
  <2> HIDE DEF Bad
  <2> QED
    BY <1>2, <2>1, SmallestSet
<1>4. /\ T \in SUBSET S /\ T \in SUBSET Artifacts /\ IsFiniteSet(T)
      /\ ~Maximal(of(T), mandatory, budget, T)
  BY <1>3 DEF FiniteSubsetsOf
<1>5. T # {}
  <2>1. Maximal(mandatory, mandatory, budget, {})
    BY DEF Maximal
  <2> QED
    BY <1>4, <2>1, SelectNone
<1> DEFINE x == LastOf(T)
           R == T \ {x}
<1>6. x \in T
  BY <1>4, <1>5, LastIsOne
<1>7. of(T) = AddIfFits(budget, x, of(R))
  BY <1>4, <1>5, SelectLast
<1> HIDE DEF x
<1>8. R \in FiniteSubsetsOf(S) /\ R \subseteq T /\ R # T /\ R \cup {x} = T
  BY <1>4, <1>6, FS_Difference DEF FiniteSubsetsOf
<1>9. Maximal(of(R), mandatory, budget, R)
  BY <1>3, <1>8
<1>10. Maximal(AddIfFits(budget, x, of(R)), mandatory, budget, R \cup {x})
  <2>1. x \in Artifacts \ R /\ R \in SUBSET Artifacts /\ Optional(x) \notin mandatory
    BY <1>4, <1>6
  <2> HIDE DEF R, of
  <2> QED
    BY <1>9, <2>1, AddKeepsMaximal
<1> QED
  BY <1>4, <1>7, <1>8, <1>10

-----------------------------------------------------------------------------
(* A packed context is enough *)

\* What supports a claim at a time, among the artifacts that were read back.
RestsOn(held, c, t) ==
  /\ Claims[c].valid /\ Claims[c].status = "supported" /\ Claims[c].created <= t
  /\ Claims[c].refs # {} /\ Claims[c].refs \subseteq held
  /\ \A a \in Claims[c].refs : IsFresh(a, t)

Evidenced(held, claims) == [artifacts |-> [a \in held |-> TRUE], claims |-> claims]

\* Among artifacts that verify, to be assessed as supported is to rest on fresh ones.
LEMMA BaseMeansRests ==
  ASSUME NEW held, NEW claims, NEW c \in DOMAIN Claims, NEW t \in Int
  PROVE  BaseAssessment(Evidenced(held, claims), c, t) = "supported" <=> RestsOn(held, c, t)
<1> DEFINE E == Evidenced(held, claims)
<1>1. DOMAIN E.artifacts = held /\ \A a \in held : E.artifacts[a]
  BY DEF Evidenced
<1>2. Claims[c].created \in Int
  BY EvidenceAssumption
<1> HIDE DEF E
<1>3. BaseAssessment(E, c, t) = "supported" <=> RestsOn(held, c, t)
  BY <1>1, <1>2 DEF BaseAssessment, RestsOn
<1> QED
  BY <1>3 DEF E

\* A claim that is assessed as supported is at hand, rests on fresh artifacts, and nothing at
\* hand that does so contradicts it.
LEMMA SupportedMeans ==
  ASSUME NEW held, NEW claims \in SUBSET DOMAIN Claims, NEW t \in Int, NEW c,
         AssessClaim(Evidenced(held, claims), c, t) = "supported"
  PROVE  /\ c \in claims /\ RestsOn(held, c, t)
         /\ \A d \in claims : Conflict(c, d) => ~RestsOn(held, d, t)
<1>1. Evidenced(held, claims).claims = claims
  BY DEF Evidenced
<1>2. c \in claims
  BY <1>1 DEF AssessClaim
<1>3. BaseAssessment(Evidenced(held, claims), c, t) = "supported"
  BY <1>1, <1>2 DEF AssessClaim
<1>4. \A d \in claims :
        Conflict(c, d) => BaseAssessment(Evidenced(held, claims), d, t) # "supported"
  BY <1>1, <1>2, <1>3 DEF AssessClaim
<1> QED
  BY <1>2, <1>3, <1>4, BaseMeansRests

\* A function with a finite domain has a finite range.
LEMMA FiniteRange ==
  ASSUME NEW S, IsFiniteSet(S), NEW f, f = [x \in S |-> f[x]]
  PROVE  IsFiniteSet({f[x] : x \in S})
<1>1. f \in Surjection(S, {f[x] : x \in S})
  BY DEF Surjection
<1> QED
  BY <1>1, FS_Surjection

\* What there is in a packing of a kind, by reference.
Refs(context, kind) == {b.ref : b \in {x \in context.blocks : x.kind = kind}}

\* What PackedIsEnough asks for, of a request that was packed from what is held.
Enough(context, r, held, t) ==
  /\ context.asOf = t
  /\ r.obligations.artifacts \subseteq Refs(context, "artifact")
  /\ r.obligations.claims = Refs(context, "claim")
  /\ \A a \in Refs(context, "artifact") : a \in held /\ IsFresh(a, t)
  /\ \A c \in Refs(context, "claim") :
       /\ RestsOn(held, c, t) /\ Claims[c].refs \subseteq Refs(context, "artifact")
       /\ \A d \in r.claims : Conflict(c, d) => ~RestsOn(held, d, t)
  /\ Bytes(context.blocks) <= r.budget.maxBytes /\ Bytes(context.blocks) <= r.budget.maxTokens
  /\ \A a \in r.options \ Refs(context, "artifact") :
       Usable(Evidenced(held, r.claims), a, t)
         => ~Fits(r.budget, Bytes(context.blocks) + Meta[a].size)

\* A context that is packed from verified artifacts is enough.
LEMMA PackIsEnough ==
  ASSUME NEW r \in Requests, NEW held \in SUBSET Artifacts, NEW t \in Int,
         NEW k, k = Pack(Evidenced(held, r.claims), r.obligations, r.options, r.budget, t),
         k.status = "packed"
  PROVE  Enough(k, r, held, t)
<1> DEFINE E == Evidenced(held, r.claims)
           O == r.obligations
           mandatory == Mandatory(O)
           wanted == Candidates(E, O, r.options, t)
           blocks == Select(mandatory, wanted, r.budget)
<1>1. /\ Unmet(E, O, t) = {} /\ Fits(r.budget, Bytes(mandatory))
      /\ k.blocks = blocks /\ k.asOf = t
  BY DEF Pack, Refused
<1>2. /\ IsFiniteSet(O.artifacts) /\ IsFiniteSet(O.claims) /\ IsFiniteSet(r.options)
      /\ r.claims \in SUBSET DOMAIN Claims
      /\ r.budget.maxBytes \in Int /\ r.budget.maxTokens \in Int
  BY RequestsAssumption
<1>3. DOMAIN E.artifacts = held
  BY DEF Evidenced
<1>4. \A a \in O.artifacts : a \in held /\ a \in Artifacts /\ IsFresh(a, t)
  BY <1>1, <1>3 DEF Unmet, Usable
<1>5. \A c \in O.claims :
        /\ c \in r.claims /\ c \in DOMAIN Claims /\ RestsOn(held, c, t)
        /\ \A d \in r.claims : Conflict(c, d) => ~RestsOn(held, d, t)
  <2> TAKE c \in O.claims
  <2>1. AssessClaim(E, c, t) = "supported"
    BY <1>1 DEF Unmet
  <2> QED
    BY <1>2, <2>1, SupportedMeans
<1> DEFINE needed == O.artifacts \cup UNION {Claims[c].refs : c \in O.claims}
<1>6. \A a \in needed : a \in held /\ a \in Artifacts /\ IsFresh(a, t)
  BY <1>4, <1>5 DEF RestsOn
<1>7. IsFiniteSet(needed)
  <2>1. \A c \in O.claims : IsFiniteSet(Claims[c].refs)
    BY <1>5, EvidenceAssumption
  <2>2. IsFiniteSet({Claims[c].refs : c \in O.claims})
    <3> DEFINE f == [c \in O.claims |-> Claims[c].refs]
    <3>1. IsFiniteSet({f[c] : c \in O.claims})
      <4>1. f = [x \in O.claims |-> f[x]]
        OBVIOUS
      <4> HIDE DEF f
      <4> QED
        BY <1>2, <4>1, FiniteRange
    <3>2. {f[c] : c \in O.claims} = {Claims[c].refs : c \in O.claims}
      <4>1. \A c \in O.claims : f[c] = Claims[c].refs
        OBVIOUS
      <4> HIDE DEF f
      <4> QED
        BY <4>1
    <3> QED
      BY <3>1, <3>2
  <2>3. IsFiniteSet(UNION {Claims[c].refs : c \in O.claims})
    BY <2>1, <2>2, FS_UNION
  <2> QED
    BY <1>2, <2>3, FS_Union
<1> HIDE DEF needed
<1>8. mandatory = {Optional(a) : a \in needed} \cup {Source("claim", c) : c \in O.claims}
  BY DEF Mandatory, Optional, needed
<1> HIDE DEF E, mandatory, wanted, blocks, O
<1>9. IsFiniteSet(mandatory)
  <2> DEFINE f == [a \in needed |-> Optional(a)]
             h == [c \in O.claims |-> Source("claim", c)]
  <2>1. IsFiniteSet({f[a] : a \in needed}) /\ IsFiniteSet({h[c] : c \in O.claims})
    BY <1>2, <1>7, FiniteRange DEF O
  <2>2. {f[a] : a \in needed} \cup {h[c] : c \in O.claims} = mandatory
    BY <1>8
  <2> QED
    BY <2>1, <2>2, FS_Union
<1>10. \A b \in mandatory : ByteSize(b) \in Nat
  <2>1. \A a \in needed : ByteSize(Optional(a)) \in Nat
    BY <1>6, EvidenceAssumption DEF Optional, Source, ByteSize, Artifacts
  <2>2. \A c \in O.claims : ByteSize(Source("claim", c)) \in Nat
    BY <1>5, EvidenceAssumption DEF Source, ByteSize
  <2> QED
    BY <1>8, <2>1, <2>2
<1>11. /\ wanted \subseteq r.options /\ wanted \in SUBSET Artifacts
       /\ \A a \in wanted : a \in held /\ IsFresh(a, t) /\ Optional(a) \notin mandatory
       /\ \A a \in r.options \ wanted : Usable(E, a, t) => Optional(a) \in mandatory
  BY <1>3 DEF wanted, Candidates, Usable, Optional, mandatory, O
<1>12. IsFiniteSet(wanted)
  BY <1>2, <1>11, FS_Subset
<1>13. Maximal(blocks, mandatory, r.budget, wanted)
  BY <1>1, <1>2, <1>9, <1>10, <1>11, <1>12, SelectIsMaximal DEF blocks, mandatory
<1> DEFINE refs(kind) == Refs(k, kind)
<1>14. \A a : a \in refs("artifact") <=> Optional(a) \in blocks
  <2>1. \A b \in blocks : \/ \E a \in needed \cup wanted : b = Optional(a)
                          \/ \E c \in O.claims : b = Source("claim", c)
    BY <1>8, <1>13 DEF Maximal
  <2> QED
    BY <1>1, <2>1 DEF Optional, Source, Refs
<1>15. refs("claim") = O.claims
  <2>1. \A b \in blocks : \/ \E a : b = Optional(a)
                          \/ \E c \in O.claims : b = Source("claim", c)
    BY <1>8, <1>13 DEF Maximal
  <2>2. \A c \in O.claims : Source("claim", c) \in blocks
    BY <1>8, <1>13 DEF Maximal
  <2>3. \A c \in O.claims : c \in refs("claim")
    <3> TAKE c \in O.claims
    <3> DEFINE b == Source("claim", c)
    <3>1. b \in k.blocks /\ b.kind = "claim" /\ b.ref = c
      BY <1>1, <2>2 DEF Source
    <3> HIDE DEF b
    <3> QED
      BY <3>1 DEF Refs
  <2>4. \A c \in refs("claim") : c \in O.claims
    BY <1>1, <2>1 DEF Optional, Source, Refs
  <2> QED
    BY <2>3, <2>4
<1>16. needed \subseteq refs("artifact")
  BY <1>8, <1>13, <1>14 DEF Maximal
<1>17. \A a \in refs("artifact") : a \in held /\ IsFresh(a, t)
  <2> SUFFICES ASSUME NEW a, Optional(a) \in blocks PROVE a \in held /\ IsFresh(a, t)
    BY <1>14
  <2>1. a \in needed \/ a \in wanted
    BY <1>8, <1>13 DEF Maximal, Optional, Source
  <2> QED
    BY <1>6, <1>11, <2>1
<1>18. \A a \in r.options \ refs("artifact") :
         Usable(E, a, t) => ~Fits(r.budget, Bytes(blocks) + Meta[a].size)
  BY <1>11, <1>13, <1>14 DEF Maximal
<1>19. Fits(r.budget, Bytes(blocks))
  BY <1>13 DEF Maximal
<1>20. /\ O.artifacts \subseteq refs("artifact")
       /\ \A c \in O.claims : Claims[c].refs \subseteq refs("artifact")
  BY <1>16 DEF needed
<1> HIDE DEF refs
<1>21. /\ O.artifacts \subseteq refs("artifact") /\ O.claims = refs("claim")
       /\ \A c \in refs("claim") :
            /\ RestsOn(held, c, t) /\ Claims[c].refs \subseteq refs("artifact")
            /\ \A d \in r.claims : Conflict(c, d) => ~RestsOn(held, d, t)
  BY <1>5, <1>15, <1>20
<1> QED
  BY <1>1, <1>17, <1>18, <1>19, <1>21 DEF Enough, Fits, refs, E, O

\* Packing keeps what a packed context is to be: the one that is packed has it.
LEMMA StepPacked ==
  ASSUME TypeOK, PackedIsEnough, [Next]_vars
  PROVE  PackedIsEnough'
<1>1. ASSUME NEW c \in Clients, NEW r \in Requests, PackContext(c, r)
      PROVE  PackedIsEnough'
  <2> DEFINE held == session[c].held
             context == Pack(Evidenced(held, r.claims), r.obligations, r.options, r.budget, now)
             k == [request |-> r, evidence |-> Evidenced(held, r.claims), context |-> context]
  <2>1. packed' = {k}
    BY <1>1 DEF PackContext, Evidenced
  <2>2. held \in SUBSET Artifacts /\ now \in Int
    BY DEF TypeOK, Sessions
  <2> HIDE DEF context, held
  <2>3. k.request = r /\ k.context = context /\ k.evidence.artifacts = [a \in held |-> TRUE]
        /\ k.evidence = Evidenced(held, r.claims) /\ DOMAIN k.evidence.artifacts = held
    BY DEF Evidenced
  <2>4. context.status = "packed" => Enough(context, r, held, now)
    BY <2>2, PackIsEnough DEF context
  <2> HIDE DEF k
  <2>5. ASSUME context.status = "packed" PROVE IsEnough(k)
    <3>1. Enough(context, r, held, now)
      BY <2>4, <2>5
    <3>2. context.asOf = now
      BY <3>1 DEF Enough
    <3> QED
      BY <2>3, <3>1, <3>2 DEF IsEnough, Enough, Refs, RestsOn
  <2> QED
    BY <2>1, <2>3, <2>5 DEF PackedIsEnough
<1>2. CASE packed' = packed
  BY <1>2 DEF PackedIsEnough
<1>3. packed' = packed \/ \E c \in Clients, r \in Requests : PackContext(c, r)
  <2>1. ASSUME NEW c \in Clients, OpenSelect(c) \/ OpenInsert(c) \/ Crash(c)
        PROVE  packed' = packed
    BY <2>1 DEF OpenSelect, OpenInsert, Crash
  <2>2. ASSUME NEW c \in Clients, NEW a \in Artifacts, NEW record,
               Put(c, a, record) \/ Get(c, a) \/ AuditRecord(c, a)
        PROVE  packed' = packed
    BY <2>2 DEF Put, Get, AuditRecord
  <2>3. ASSUME NEW c \in Clients, AuditIds(c) \/ AuditKeys(c) \/ AuditEnds(c)
        PROVE  packed' = packed
    BY <2>3 DEF AuditIds, AuditKeys, AuditEnds
  <2>4. ASSUME NEW a \in Artifacts, Tamper(a) PROVE packed' = packed
    BY <2>4 DEF Tamper
  <2>5. CASE Tick \/ UNCHANGED vars
    BY <2>5 DEF Tick, vars
  <2> QED
    BY <2>1, <2>2, <2>3, <2>4, <2>5 DEF Next
<1> QED
  BY <1>1, <1>2, <1>3

\* A context that is packed lacks nothing that was required, holds nothing doubtful and
\* leaves out nothing that would have fitted, whatever is asked for and whenever.
THEOREM PackedContextsAreEnough ==
  Spec => []PackedIsEnough
<1>1. Init => PackedIsEnough
  BY DEF Init, PackedIsEnough
<1>2. Init => TypeOK
  BY InitIInv DEF IInv
<1>3. TypeOK /\ PackedIsEnough /\ [Next]_vars => TypeOK' /\ PackedIsEnough'
  BY StepTypeOK, StepPacked
<1> QED
  BY <1>1, <1>2, <1>3, PTL DEF Spec
=============================================================================
