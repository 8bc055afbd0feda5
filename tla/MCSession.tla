------------------------------ MODULE MCSession ------------------------------
(* The commands beside the launcher and the monitor; Mixes says which together. *)
EXTENDS SessionLifecycle

\* One fault, none where two stops make enough states of their own.
FewFaults == [mix \in Mixes |-> IF mix \subseteq Stopper THEN 0 ELSE 1]
NoFaults == [mix \in Mixes |-> 0]
=============================================================================
