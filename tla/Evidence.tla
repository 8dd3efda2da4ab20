------------------------------ MODULE Evidence ------------------------------
(***************************************************************************)
(* Artifacts and claims (artifacts.py) and the packing of a context from   *)
(* them (context.py).  An artifact's address is the digest of its content, *)
(* so that an artifact is its identifier, and a record that was altered is *)
(* one that does not verify.  These are functions of their arguments.      *)
(***************************************************************************)
EXTENDS Integers, FiniteSets, Functions, Folds

CONSTANTS
  Meta,    \* Meta[a] = [parents, created, freshUntil, size, value]: the artifacts
  Claims   \* Claims[c] = [status, refs, contradicts, created, size, valid]

None == "none"
Forever == -1

\* Sizes are of encoded blocks, which are never empty; values and times are whole numbers.
ASSUME EvidenceAssumption ==
  /\ \A a \in DOMAIN Meta : Meta[a].size \in Nat \ {0} /\ Meta[a].value \in Nat
  /\ \A c \in DOMAIN Claims :
       Claims[c].size \in Nat \ {0} /\ Claims[c].created \in Int /\ IsFiniteSet(Claims[c].refs)

Artifacts == DOMAIN Meta
Parents(a) == Meta[a].parents

IsFresh(a, t) ==
  /\ t >= Meta[a].created
  /\ Meta[a].freshUntil # Forever => t <= Meta[a].freshUntil

-----------------------------------------------------------------------------
\* An evidence set: [artifacts |-> which of them with whether they verify, claims |-> a set].

Usable(E, a, t) == a \in DOMAIN E.artifacts /\ E.artifacts[a] /\ IsFresh(a, t)

\* Mutant: what a claim refers to is not checked for age.
BaseAssessmentAnyAge(E, c, t) ==
  LET claim == Claims[c]
  IN IF ~claim.valid \/ claim.created > t THEN "invalid"
     ELSE IF claim.status # "supported" THEN claim.status
     ELSE IF claim.refs = {} \/ ~(claim.refs \subseteq DOMAIN E.artifacts) THEN "unverified"
     ELSE IF \E a \in claim.refs : ~E.artifacts[a] THEN "invalid"
     ELSE "supported"

BaseAssessment(E, c, t) ==
  LET claim == Claims[c]
  IN IF ~claim.valid \/ claim.created > t THEN "invalid"
     ELSE IF claim.status # "supported" THEN claim.status
     ELSE IF claim.refs = {} \/ ~(claim.refs \subseteq DOMAIN E.artifacts) THEN "unverified"
     ELSE IF \E a \in claim.refs : ~E.artifacts[a] THEN "invalid"
     ELSE IF \E a \in claim.refs : ~IsFresh(a, t) THEN "stale"
     ELSE "supported"

Conflict(c, d) == c # d /\ (d \in Claims[c].contradicts \/ c \in Claims[d].contradicts)

AssessClaim(E, c, t) ==
  IF c \notin E.claims THEN "missing"
  ELSE IF BaseAssessment(E, c, t) # "supported" THEN BaseAssessment(E, c, t)
  ELSE IF \E d \in E.claims : Conflict(c, d) /\ BaseAssessment(E, d, t) = "supported"
  THEN "contradicted" ELSE "supported"

-----------------------------------------------------------------------------
\* A block is its source; blocks count one token for each byte.

Source(kind, ref) == [kind |-> kind, ref |-> ref]
ByteSize(b) == IF b.kind = "artifact" THEN Meta[b.ref].size ELSE Claims[b.ref].size
Bytes(blocks) == SumFunction([b \in blocks |-> ByteSize(b)])
Value(artifacts) == SumFunction([a \in artifacts |-> Meta[a].value])
Fits(budget, bytes) == bytes <= budget.maxBytes /\ bytes <= budget.maxTokens

Unmet(E, O, t) ==
  {Source("artifact", a) : a \in {x \in O.artifacts : ~Usable(E, x, t)}}
  \union {Source("claim", c) : c \in {x \in O.claims : AssessClaim(E, x, t) # "supported"}}

\* Required claims bring the evidence they rest on.
Mandatory(O) ==
  {Source("artifact", a) : a \in O.artifacts \union UNION {Claims[c].refs : c \in O.claims}}
  \union {Source("claim", c) : c \in O.claims}

\* Densest first, then by value and by size; what is left is ordered by reference.
Denser(a, b) ==
  LET left == Meta[a].value * Meta[b].size  right == Meta[b].value * Meta[a].size
  IN \/ left > right
     \/ left = right /\ Meta[a].value > Meta[b].value
     \/ left = right /\ Meta[a].value = Meta[b].value /\ Meta[a].size < Meta[b].size

Candidates(E, O, options, t) ==
  {a \in options : Usable(E, a, t) /\ Source("artifact", a) \notin Mandatory(O)}

\* In that order, whatever still fits.  The fold takes the last of the order off first and
\* adds it to what the rest came to.
Select(mandatory, wanted, budget) ==
  LET LastOf(S) == CHOOSE a \in S : \A b \in S : ~Denser(a, b)
      Add(a, blocks) == IF Fits(budget, Bytes(blocks) + Meta[a].size)
                        THEN blocks \union {Source("artifact", a)} ELSE blocks
  IN MapThenFoldSet(Add, mandatory, LAMBDA a : a, LastOf, wanted)

Refused(t, unmet, options) ==
  [status |-> "refused", asOf |-> t, blocks |-> {}, unmet |-> unmet,
   value |-> 0, lost |-> Value(options)]

Pack(E, O, options, budget, t) ==
  LET unmet == Unmet(E, O, t)
      mandatory == Mandatory(O)
      blocks == Select(mandatory, Candidates(E, O, options, t), budget)
      gained == Value({b.ref : b \in blocks \ mandatory})
  IN IF unmet # {} \/ ~Fits(budget, Bytes(mandatory))
     THEN Refused(t, unmet, options)
     ELSE [status |-> "packed", asOf |-> t, blocks |-> blocks, unmet |-> {},
           value |-> gained, lost |-> Value(options) - gained]
=============================================================================
