---------------------------- MODULE MCArtefacts ----------------------------
EXTENDS Artefacts, TLC
Symmetry == Permutations(Attempts) \cup Permutations(Payloads) \cup Permutations(Writers)
            \cup Permutations(Admins)
=============================================================================
