------------------------------ MODULE Sources ------------------------------
(***************************************************************************)
(* SourcePartitions (pkg/hash/hash.go): from which partitions of a layout  *)
(* with old partitions a new partition must be filled.  The loop of gcd    *)
(* and the one that collects the partitions, one step for each iteration.  *)
(***************************************************************************)
EXTENDS Integers

CONSTANTS Count, \* partition counts
          Hash   \* the values of Sum

ASSUME CountAssumption == Count \subseteq Nat \ {0}
ASSUME HashAssumption == Hash \subseteq Nat

VARIABLES old, new, id,  \* the arguments
          pc, a, b,      \* the loop of gcd
          p, sources     \* the loop of SourcePartitions

args == <<old, new, id>>
vars == <<old, new, id, pc, a, b, p, sources>>

Init ==
  /\ old \in Count /\ new \in Count /\ id \in 0..(new - 1)
  /\ pc = "gcd" /\ a = old /\ b = new
  /\ p = 0 /\ sources = {}

\* Mutant: the loop subtracts and forgets the larger number.
EuclidLosing ==
  /\ pc = "gcd" /\ b # 0
  /\ a' = b /\ b' = IF a < b THEN b - a ELSE 0
  /\ UNCHANGED <<args, pc, p, sources>>

\* Mutant: the numbers are swapped and not reduced.
EuclidSwap ==
  /\ pc = "gcd" /\ b # 0
  /\ a' = b /\ b' = a
  /\ UNCHANGED <<args, pc, p, sources>>

Euclid ==
  /\ pc = "gcd" /\ b # 0
  /\ a' = b /\ b' = a % b
  /\ UNCHANGED <<args, pc, p, sources>>

EuclidDone ==
  /\ pc = "gcd" /\ b = 0 /\ pc' = "collect"
  /\ UNCHANGED <<args, a, b, p, sources>>

\* Mutant: the loop goes one too far.
CollectPast ==
  /\ pc = "collect" /\ p <= old /\ p' = p + 1
  /\ sources' = IF p % a = id % a THEN sources \cup {p} ELSE sources
  /\ UNCHANGED <<args, pc, a, b>>

\* Mutant: every partition is a source.
CollectAll ==
  /\ pc = "collect" /\ p < old /\ p' = p + 1
  /\ sources' = sources \cup {p}
  /\ UNCHANGED <<args, pc, a, b>>

Collect ==
  /\ pc = "collect" /\ p < old /\ p' = p + 1
  /\ sources' = IF p % a = id % a THEN sources \cup {p} ELSE sources
  /\ UNCHANGED <<args, pc, a, b>>

Return ==
  /\ pc = "collect" /\ p = old /\ pc' = "done"
  /\ UNCHANGED <<args, a, b, p, sources>>

Next == Euclid \/ EuclidDone \/ Collect \/ Return

Spec == Init /\ [][Next]_vars

FairSpec == Spec /\ WF_vars(Next)

----------------------------------------------------------------------------
(* Properties.                                                             *)

TypeOK ==
  /\ old \in Count /\ new \in Count /\ id \in 0..(new - 1)
  /\ pc \in {"gcd", "collect", "done"}
  /\ a \in Nat \ {0} /\ b \in Nat
  /\ p \in 0..old /\ sources \subseteq 0..(old - 1)

\* No key is left behind: whatever its hash h, if the new layout maps it to
\* partition id then the partition that holds it is among the sources.
SourcesCover ==
  pc = "done" => \A h \in Hash : h % new = id => h % old \in sources

\* And no source is asked in vain: some hash maps to it and to partition id.
SourcesExact ==
  pc = "done" =>
    sources = {h % old : h \in {x \in 0..(old * new - 1) : x % new = id}}

\* Both loops end.
Terminates == <>(pc = "done")
============================================================================
