----------------------------- MODULE MCAuditLog -----------------------------
EXTENDS AuditLog, TLC

\* Writers are interchangeable, and so are sessions.
Symmetry == Permutations(Writer) \union Permutations(Session)
=============================================================================
