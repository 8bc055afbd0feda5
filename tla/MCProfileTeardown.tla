-------------------------- MODULE MCProfileTeardown --------------------------
EXTENDS ProfileTeardown, TLC

MCSettings == {<<TRUE, TRUE>>, <<FALSE, FALSE>>}

\* The command and a process that takes a pid again; one of them without a timeout.
FewSpawns == [s \in Settings |-> IF s[2] THEN 3 ELSE 2]

Symmetry == Permutations(Pid)
=============================================================================
