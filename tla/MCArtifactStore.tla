--------------------------- MODULE MCArtifactStore ---------------------------
(* Two clients; b comes from a, which ages; two claims that contradict each other. *)
EXTENDS ArtifactStore, TLC

Artifact(parents, until, size, value) ==
  [parents |-> parents, created |-> 0, freshUntil |-> until, size |-> size, value |-> value]
Three == [x \in {"a", "b", "c"} |->
            CASE x = "a" -> Artifact({}, 0, 2, 1)
              [] x = "b" -> Artifact({"a"}, Forever, 3, 2)
              [] x = "c" -> Artifact({}, Forever, 1, 0)]

Claim(refs, contradicts, status) ==
  [status |-> status, refs |-> refs, contradicts |-> contradicts, created |-> 0, size |-> 1, valid |-> TRUE]
TwoClaims == [x \in {"p", "q"} |->
                IF x = "p" THEN Claim({"a"}, {}, "supported") ELSE Claim({"c"}, {"p"}, "supported")]

SomeRecords == {[of |-> "b", inputs |-> {"a"}, task |-> n] : n \in {1, 2}}
              \union {[of |-> "c", inputs |-> {"a"}, task |-> 1]}

Request(artifacts, claims, options, bytes, atHand) ==
  [obligations |-> [artifacts |-> artifacts, claims |-> claims], options |-> options,
   budget |-> [maxBytes |-> bytes, maxTokens |-> bytes], claims |-> atHand]
Asked == {Request({}, {"p"}, {"b", "c"}, n, {"p"}) : n \in {2, 4, 6}}
         \union {Request({"c"}, {"p"}, {"b"}, 7, C) : C \in {{"p"}, {"p", "q"}}}
         \union {Request({"b"}, {}, {"a", "c"}, 4, {})}
Symmetry == Permutations(Clients)
=============================================================================
