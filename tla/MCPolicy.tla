------------------------------ MODULE MCPolicy ------------------------------
EXTENDS Policy, TLC
CONSTANTS r1, r2
MCDocuments ==
  { <<[recipe |-> r1, effect |-> "deny"], [recipe |-> r1, effect |-> "allow"]>>,
    <<[recipe |-> r2, effect |-> "approval"]>> }
Symmetry == Permutations(Bundles) \cup Permutations(Scopes) \cup Permutations(Operators)
            \cup Permutations(Engines)
=============================================================================
