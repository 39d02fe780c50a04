----------------------------- MODULE MCCollector -----------------------------
EXTENDS Collector, TLC
CONSTANTS r1, r2, c1

\* Two runs of one collector: a restart under the same identity.
SameCollector == [r \in Runs |-> c1]
MCOffsets == {0, 1}
Symmetry == Permutations(Runs) \cup Permutations(Grants)
ZeroOffset == {0}
=============================================================================
