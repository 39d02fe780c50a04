----------------------------- MODULE MCApproval -----------------------------
EXTENDS Approval, TLC
Symmetry == Permutations(Grants) \cup Permutations(Tasks) \cup Permutations(Clients)
            \cup Permutations(Consumptions) \cup Permutations(Bindings)
=============================================================================
