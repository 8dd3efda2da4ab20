-------------------------- MODULE PhysicalResources --------------------------
(***************************************************************************)
(* The physical admission of a fixed selection of profiles                 *)
(* (physical_resources.py): declared estimates, summed in signed 64-bit    *)
(* arithmetic that reports an overflow instead of wrapping.                *)
(*                                                                         *)
(* A profile's estimates are p.phys, a function over all dimensions; the   *)
(* envelope's limits are e.phys over the same names, e.phys["bandwidth"]   *)
(* being the available one.  NoCount stands for Python's None: an overflow *)
(* or a transfer without bandwidth.                                        *)
(***************************************************************************)
EXTENDS WorkGraph

CONSTANTS
  Additive,  \* dimensions that add up over the run: CPU time, storage, network, egress cost
  Peaks,     \* dimensions held while a task runs: memory, VRAM, bandwidth
  MaxUnits,  \* INT64_MAX
  BitRate    \* 8000: bits in a byte, milliseconds in a second

ASSUME PhysicalAssumption ==
  /\ {"ingress", "egress"} \subseteq Additive /\ "bandwidth" \in Peaks
  /\ MaxUnits \in Nat \ {0} /\ BitRate \in 1..MaxUnits

NoCount == -1
Dimensions == Additive \union Peaks \union {"rtt"}
Fits(value, cap) == value # NoCount /\ value <= cap

-----------------------------------------------------------------------------
SafeAdd(a, b) == IF a > MaxUnits - b THEN NoCount ELSE a + b
SafeMultiply(a, b) == IF a # 0 /\ b > MaxUnits \div a THEN NoCount ELSE a * b

SafeSum(values) ==
  FoldLeft(LAMBDA sum, v : IF sum = NoCount THEN NoCount ELSE SafeAdd(sum, v), 0, values)

\* The estimates of one dimension, largest first.
Descending(sel, d) ==
  LET order == SetToSortSeq(DOMAIN sel, LAMBDA a, b :
                              LexLess(<<-sel[a].phys[d], a>>, <<-sel[b].phys[d], b>>))
  IN [i \in DOMAIN order |-> sel[order[i]].phys[d]]

Total(sel, d) == SafeSum(Descending(sel, d))

\* Mutant: the peak of the smallest tasks.
PeakOfTheLast(e, sel, d) ==
  LET values == Descending(sel, d)
      width == Least(e.parallelism, Len(values))
  IN SafeSum(SubSeq(values, Len(values) - width + 1, Len(values)))

\* As many tasks as may run together, the most demanding ones.
Peak(e, sel, d) ==
  LET values == Descending(sel, d)
  IN SafeSum(SubSeq(values, 1, Least(e.parallelism, Len(values))))

WorstRtt(sel) == Largest({sel[t].phys["rtt"] : t \in DOMAIN sel})

TransferMs(e, p) ==
  LET bytes == SafeAdd(p.phys["ingress"], p.phys["egress"])
      bits == SafeMultiply(bytes, BitRate)
  IN IF bytes = NoCount THEN NoCount
     ELSE IF bytes = 0 THEN 0
     ELSE IF e.phys["bandwidth"] = 0 \/ bits = NoCount THEN NoCount
     ELSE CeilDiv(bits, e.phys["bandwidth"])

TransferAndRtt(e, p) ==
  LET ms == TransferMs(e, p) IN IF ms = NoCount THEN NoCount ELSE SafeAdd(ms, p.phys["rtt"])

\* The longest chain of local values; NoCount as soon as one is missing or a sum overflows.
CriticalPath(g, local) ==
  LET rank[t \in DOMAIN local] ==
        LET below == {rank[d] : d \in g.deps[t]}
        IN IF local[t] = NoCount \/ NoCount \in below THEN NoCount
           ELSE SafeAdd(Largest(below), local[t])
      ranks == {rank[t] : t \in DOMAIN local}
  IN IF NoCount \in ranks THEN NoCount ELSE Largest(ranks)

-----------------------------------------------------------------------------
InRange(values) == \A d \in Dimensions : values[d] \in 0..MaxUnits

\* Whatever else is wrong with the input is an error, not a refusal.
ValidSelection(g, e, sel) ==
  /\ InRange(e.phys)
  /\ WithAncestors(g, g.tasks \ g.optional) \subseteq DOMAIN sel
  /\ \A t \in DOMAIN sel :
       /\ t \in g.tasks /\ g.deps[t] \subseteq DOMAIN sel
       /\ sel[t] \in Qualified(g, t) /\ InRange(sel[t].phys)

\* The names of the failed checks.
Violations(g, e, sel) ==
  LET transfer == CriticalPath(g, [t \in DOMAIN sel |-> TransferMs(e, sel[t])])
      combined == CriticalPath(g, [t \in DOMAIN sel |-> TransferAndRtt(e, sel[t])])
  IN {d \in Additive : ~Fits(Total(sel, d), e.phys[d])}
     \union {d \in Peaks : ~Fits(Peak(e, sel, d), e.phys[d])}
     \union {d \in {"rtt"} : ~Fits(WorstRtt(sel), e.phys["rtt"])}
     \union {d \in {"transport"} : transfer = NoCount}
     \union {d \in {"deadline"} : ~Fits(combined, e.deadline)}

PhysicallyAdmitted(g, e, sel) == Violations(g, e, sel) = {}
=============================================================================
