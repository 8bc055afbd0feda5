---------------------------- MODULE MCProfileLock ----------------------------
(* Two processes share a pid one after the other; a third has its own. *)
EXTENDS ProfileLock

CONSTANTS first, second, other

MCProc == {first, second, other}
MCPid == {1, 2}
MCPidOf == [p \in MCProc |-> IF p = other THEN 2 ELSE 1]
=============================================================================
