------------------------- MODULE MCWorkspacePublish --------------------------
EXTENDS WorkspacePublish, FiniteSets, TLC

\* Three edits can tear a copy unnoticed; two calls race with fewer.
FewEdits == [called \in SUBSET Publisher |-> IF Cardinality(called) = 1 THEN 3 ELSE 1]

Symmetry == Permutations(Publisher) \cup Permutations(Version)
=============================================================================
