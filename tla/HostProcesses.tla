---------------------------- MODULE HostProcesses ----------------------------
(***************************************************************************)
(* The host's process table, as far as the code that tears a Colima        *)
(* profile down can see it: a pid is free for a new process only when no   *)
(* process, zombie or group has its number; the generation of a process is *)
(* its start time. The kernel and the processes are external.              *)
(***************************************************************************)
EXTENDS Naturals

CONSTANTS
  Pid,
  None

ProcessType ==
  [gen : Nat, group : Pid \cup {None}, cmd : {"profile", "other"}, kin : BOOLEAN, child : BOOLEAN,
   state : {"running", "zombie"}, sig : {"none", "TERM", "KILL"}, was : BOOLEAN, doomed : BOOLEAN]
IdentityType == [pid : Pid, gen : Nat]

\* None stands for the lack of a process and of an identity, and for the launcher's group.
ASSUME NoneAssumption == None \notin ProcessType /\ None \notin IdentityType

VARIABLES
  proc,         \* per pid: the process, its zombie, or None
  spawned       \* how many processes were started: the next one's start time

kernel == <<proc, spawned>>

Identity(pid) == [pid |-> pid, gen |-> proc[pid].gen]
Exists(pid) == proc[pid] # None
Running(pid) == Exists(pid) /\ proc[pid].state = "running"
Profile(pid) == Running(pid) /\ proc[pid].cmd = "profile"
InGroup(group) == {pid \in Pid : Exists(pid) /\ proc[pid].group = group}
Alive(id) == Running(id.pid) /\ proc[id.pid].gen = id.gen

\* kin: it is the command that the launcher started, or a process that came from it and
\* stayed in the group it was started in. child: its parent is the launcher, which alone
\* may reap it. was: it ran a command of the profile at some time. doomed: the reap
\* under way has listed it.
Process(group, cmd, kin, child) ==
  [gen |-> spawned, group |-> group, cmd |-> cmd, kin |-> kin, child |-> child,
   state |-> "running", sig |-> "none", was |-> cmd = "profile", doomed |-> FALSE]

ProcInit ==
  /\ spawned = 1
  /\ \E cmd \in [Pid -> {None, "profile", "other"}] :
       proc = [pid \in Pid |-> IF cmd[pid] = None THEN None
                                ELSE [Process(pid, cmd[pid], FALSE, FALSE) EXCEPT !.gen = 0]]

Free(pid) == ~Exists(pid) /\ InGroup(pid) = {}
Spawn(pid, group, cmd, kin, child) ==
  /\ Free(pid)
  /\ proc' = [proc EXCEPT ![pid] = Process(group, cmd, kin, child)]
  /\ spawned' = spawned + 1

\* A process starts another one, in its own group or, as a daemon, in a new one.
Fork(parent, pid) ==
  /\ Running(parent) /\ proc[parent].sig # "KILL"
  /\ \E group \in {proc[parent].group, pid}, cmd \in {"profile", "other"} :
       Spawn(pid, group, cmd, proc[parent].kin /\ group = proc[parent].group, FALSE)

\* One that has nothing to do with the command.
StartOther(pid) == \E cmd \in {"profile", "other"} : Spawn(pid, pid, cmd, FALSE, FALSE)

Exec(pid) ==
  /\ Running(pid)
  /\ proc' = [proc EXCEPT ![pid].cmd = IF @ = "profile" THEN "other" ELSE "profile",
                          ![pid].was = TRUE]
  /\ UNCHANGED spawned

Zombie(p) == [p EXCEPT !.state = "zombie", !.sig = "none"]
Exit(pid) ==
  /\ Running(pid)
  /\ proc' = [proc EXCEPT ![pid] = Zombie(@)]
  /\ UNCHANGED spawned

\* SIGKILL ends a process; SIGTERM does, or is ignored.
Deliver(pid) ==
  /\ Running(pid) /\ proc[pid].sig # "none"
  /\ \/ proc' = [proc EXCEPT ![pid] = Zombie(@)]
     \/ proc[pid].sig = "TERM" /\ proc' = [proc EXCEPT ![pid].sig = "none"]
  /\ UNCHANGED spawned

\* A zombie is reaped by the process that adopted it.
Adopted(pid) ==
  /\ Exists(pid) /\ ~Running(pid) /\ ~proc[pid].child
  /\ proc' = [proc EXCEPT ![pid] = None]
  /\ UNCHANGED spawned

Signalled(pids, sig) ==
  [pid \in Pid |-> IF pid \in pids /\ Running(pid) /\ proc[pid].sig # "KILL"
                     THEN [proc[pid] EXCEPT !.sig = sig] ELSE proc[pid]]

Kernel ==
  \/ \E pid \in Pid : StartOther(pid) \/ Exec(pid) \/ Exit(pid) \/ Deliver(pid) \/ Adopted(pid)
  \/ \E parent, pid \in Pid : Fork(parent, pid)
=============================================================================
