---------------------------- MODULE MCDisclosure ----------------------------
EXTENDS Disclosure, TLC
CONSTANTS classical, quantum
MCAlgorithm == [p \in Providers |-> IF p = classical THEN "Ed25519" ELSE "ML-DSA"]
\* Both managers sign with both providers; the second one insists on it.
Lenient == [providers |-> {classical, quantum}, minimum |-> 1, required |-> {"Ed25519"}]
Strict == [providers |-> {classical, quantum}, minimum |-> 2, required |-> {"Ed25519", "ML-DSA"}]
MCManagers == {Lenient, Strict}
Symmetry == Permutations(Actors) \cup Permutations(Evidence) \cup Permutations(Fields \ Tainted)
            \cup Permutations(DecisionIDs) \cup Permutations(Requests) \cup Permutations(Calls)
            \cup Permutations(KeyRefs)
=============================================================================
