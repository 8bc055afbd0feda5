--------------------------- MODULE MCAppleSession ----------------------------
EXTENDS AppleSession

Symmetry == Permutations(Caller) \cup Permutations(Session)
              \cup Permutations(Image) \cup Permutations(Stamp)
=============================================================================
