------------------------- MODULE MCReleasePublisher --------------------------
EXTENDS ReleasePublisher, TLC

Symmetry == Permutations(Run) \cup Permutations(Name) \cup Permutations(Version)
=============================================================================
