-------------------------- MODULE ProfileSnapshots --------------------------
(***************************************************************************)
(* Profile snapshots (profile_snapshot.py): sealed documents that say      *)
(* where the figures of a profile come from, and what the executor accepts *)
(* as evidence for the profiles of its plan.                               *)
(*                                                                         *)
(* A document d is a record: task and profile it is about; name and        *)
(* version of its components; prices and "priced", since when they hold; a *)
(* quota; "spread", the two percentiles of each metric; "samples" and      *)
(* "observed", how many there were and which figures claim to be observed  *)
(* and not estimated; "sampled", when the sources were read; at, until and *)
(* maxAge, its freshness; region and domains; "intact": the digest is that *)
(* of the content.  Times are in seconds.                                  *)
(***************************************************************************)
EXTENDS WorkGraph

CONSTANTS
  MaxFreshness,  \* MAX_FRESHNESS_SECONDS, 31 days
  MaxPpm,        \* MAX_PROBABILITY_PPM
  MaxFigure      \* MAX_INTEGER

ASSUME FreshnessAssumption == {MaxFreshness, MaxPpm, MaxFigure} \subseteq Nat \ {0}

Components == {"provider", "model", "tool", "adapter"}
Rates      == {"quality", "failure"}
Metrics    == {"latency", "input", "output", "context"} \union Rates
Sources    == {"quota", "metrics", "quality calibration", "failure calibration"}

Floating == {"latest", "current", "default", "*", "unknown", "unversioned"}

\* _component.
VersionsPinned(d) == \A c \in Components : d.version[c] \notin Floating

\* _percentiles.
SpreadValid(d, m) ==
  LET ceiling == IF m \in Rates THEN MaxPpm ELSE MaxFigure
  IN 0 <= d.spread[m][1] /\ d.spread[m][1] <= d.spread[m][2] /\ d.spread[m][2] <= ceiling

\* The prices are per token and per request; they must hold already.
PricingValid(d) == d.prices \subseteq Nat /\ d.priced <= d.at
QuotaValid(d)   == d.quota > 0

\* What is observed was sampled, and what is estimated was not; a quota has no samples.
SamplesAgree(d, s) == d.samples[s] >= 0 /\ (s \in d.observed <=> d.samples[s] > 0)

MetricsValid(d)     == SamplesAgree(d, "metrics") /\ \A m \in Metrics : SpreadValid(d, m)
CalibrationValid(d) == SamplesAgree(d, "quality calibration") /\ SamplesAgree(d, "failure calibration")

PlacementValid(d) ==
  /\ d.domains["region"] = d.region
  /\ \A c \in Components \ {"adapter"} : d.domains[c] = d.name[c]

WindowValid(d) ==
  d.until - d.at \in 0..MaxFreshness /\ d.maxAge \in 1..MaxFreshness

\* Mutant: a source may be read after the snapshot it is part of.
SourceDatedLoosely(d, s) == d.at - d.sampled[s] <= d.maxAge

\* _require_source_time: not after the snapshot, and not too long before it.
SourceDated(d, s) == d.at - d.sampled[s] \in 0..d.maxAge

ValidDocument(d) ==
  /\ VersionsPinned(d) /\ WindowValid(d)
  /\ PricingValid(d) /\ QuotaValid(d)
  /\ MetricsValid(d) /\ CalibrationValid(d) /\ PlacementValid(d)
  /\ \A s \in Sources : SourceDated(d, s)

FreshAt(d, now) == d.at <= now /\ now <= d.until

\* validate_profile_snapshot.
Validates(d, now) == ValidDocument(d) /\ FreshAt(d, now) /\ d.intact

\* _validate_profile_snapshots: the documents given, by task, are about the selected
\* profiles; "pins" are the documents that the graph itself names for some of them.
Backs(d, t, p) == d.task = t /\ d.profile = p.id /\ d.name["provider"] = p.provider

SnapshotsAccepted(sel, given, pins, required, now) ==
  /\ DOMAIN given \subseteq DOMAIN sel
  /\ \A t \in DOMAIN sel : (required \/ t \in DOMAIN pins) => t \in DOMAIN given
  /\ \A t \in DOMAIN given :
       /\ Validates(given[t], now) /\ Backs(given[t], t, sel[t])
       /\ t \in DOMAIN pins => given[t] = pins[t]
=============================================================================
