------------------------ MODULE ProfileTeardownProofs ------------------------
(***************************************************************************)
(* Proofs about the teardown of a profile, for every number of processes,  *)
(* polls and faults. What a step may do to the process table is stated     *)
(* once (Moves); the reaper's and the supervisor's invariants use that and *)
(* never look into a process again.                                        *)
(***************************************************************************)
EXTENDS ProfileTeardown, TLAPS

\* The process table is well-formed: start times lie in the past, and whoever runs a
\* command of the profile is known to have done so.
TableOK ==
  /\ spawned \in Nat
  /\ proc \in [Pid -> {None} \cup ProcessType]
  /\ \A pid \in Pid : Exists(pid) => proc[pid].gen < spawned
  /\ \A pid \in Pid : Exists(pid) /\ proc[pid].cmd = "profile" => proc[pid].was

\* An identity of a process that was started.
Known(id) == id \in IdentityType /\ id.gen < spawned

-----------------------------------------------------------------------------
(* What a step does to one pid *)

\* The process stays who it is; it may exec, get a signal or turn into a zombie.
Kept(pid) ==
  /\ Exists(pid) /\ Exists(pid)'
  /\ proc'[pid].gen = proc[pid].gen
  /\ proc'[pid].group = proc[pid].group
  /\ proc'[pid].kin = proc[pid].kin
  /\ proc'[pid].child = proc[pid].child
  /\ proc[pid].was => proc'[pid].was
  /\ Running(pid)' => Running(pid)

\* A new process: nobody had its number, and it is in a group of its own, in the one of
\* a process that runs, or it is the launcher's.
Born(pid) ==
  /\ Free(pid) /\ Exists(pid)'
  /\ proc'[pid].gen = spawned /\ spawned' = spawned + 1
  /\ ~proc'[pid].doomed
  /\ \/ (proc'[pid].group = pid \/ proc'[pid].child) /\ (proc'[pid].kin => proc'[pid].child)
     \/ \E parent \in Pid : /\ Exists(parent)
                            /\ proc'[pid].group = proc[parent].group
                            /\ proc'[pid].kin = proc[parent].kin

\* The zombie is reaped.
Gone(pid) == Exists(pid) /\ proc'[pid] = None

Absent(pid) == ~Exists(pid) /\ proc'[pid] = None

Moves ==
  /\ spawned' \in Nat /\ spawned <= spawned'
  /\ \A pid \in Pid : Kept(pid) \/ Born(pid) \/ Gone(pid) \/ Absent(pid)

\* The step lists no process.
KeepsListed == \A pid \in Pid : Kept(pid) => proc'[pid].doomed = proc[pid].doomed

\* The step neither starts a child of the supervisor nor reaps one.
KeepsChildren ==
  \A pid \in Pid : (Born(pid) => ~proc'[pid].child) /\ (Gone(pid) => ~proc[pid].child)

KernelMoves == Moves /\ KeepsListed /\ KeepsChildren

\* A step that replaces a process by one that is the same but for its command, its
\* signal or its being a zombie keeps the table well-formed.
LEMMA UpdateStep ==
  ASSUME TableOK, NEW p \in Pid, Exists(p), NEW r \in ProcessType,
         proc' = [proc EXCEPT ![p] = r], UNCHANGED spawned,
         r.gen = proc[p].gen, r.group = proc[p].group, r.kin = proc[p].kin,
         r.child = proc[p].child, r.doomed = proc[p].doomed,
         proc[p].was => r.was, r.cmd = "profile" => r.was,
         r.state = "running" => proc[p].state = "running"
  PROVE  TableOK' /\ KernelMoves
<1>1. r # None
  BY NoneAssumption
<1>2. \A pid \in Pid : proc'[pid] = IF pid = p THEN r ELSE proc[pid]
  BY DEF TableOK
<1>3. TableOK'
  <2>1. proc' \in [Pid -> {None} \cup ProcessType]
    BY DEF TableOK
  <2>2. QED
    BY <1>1, <1>2, <2>1 DEF TableOK, Exists
<1>4. Kept(p) /\ proc'[p].doomed = proc[p].doomed
  BY <1>1, <1>2 DEF Kept, Exists, Running
<1>5. \A pid \in Pid : pid # p => Kept(pid) \/ Absent(pid)
  BY <1>2 DEF Kept, Absent, Exists, Running
<1>6. \A pid \in Pid : ~Born(pid) /\ ~Gone(pid)
  BY <1>4, <1>5 DEF Kept, Absent, Born, Gone, Exists, Free
<1>7. \A pid \in Pid : Kept(pid) => proc'[pid].doomed = proc[pid].doomed
  BY <1>4, <1>2
<1>8. Moves
  BY <1>4, <1>5, <1>3 DEF Moves, TableOK
<1>9. QED
  BY <1>3, <1>6, <1>7, <1>8 DEF KernelMoves, KeepsListed, KeepsChildren

\* A new process leaves the others alone.
LEMMA SpawnStep ==
  ASSUME TableOK, NEW p \in Pid, NEW group \in Pid \cup {None}, NEW cmd \in {"profile", "other"},
         NEW kin \in BOOLEAN, NEW child \in BOOLEAN,
         Spawn(p, group, cmd, kin, child),
         \/ (group = p \/ child) /\ (kin => child)
         \/ \E parent \in Pid : Exists(parent) /\ group = proc[parent].group /\ kin = proc[parent].kin
  PROVE  /\ TableOK' /\ Moves /\ Born(p)
         /\ proc'[p].group = group /\ proc'[p].kin = kin /\ proc'[p].child = child
         /\ \A pid \in Pid : pid # p => proc'[pid] = proc[pid]
<1> DEFINE r == Process(group, cmd, kin, child)
<1>1. /\ r \in ProcessType /\ r.gen = spawned /\ r.group = group /\ r.kin = kin
      /\ r.child = child /\ r.doomed = FALSE /\ r.cmd = cmd /\ (r.was <=> cmd = "profile")
  BY DEF TableOK, Process, ProcessType
<1>2. proc' = [proc EXCEPT ![p] = r] /\ spawned' = spawned + 1 /\ Free(p)
  BY DEF Spawn
<1> HIDE DEF r
<1>3. r # None
  BY <1>1, NoneAssumption
<1>4. \A pid \in Pid : proc'[pid] = IF pid = p THEN r ELSE proc[pid]
  BY <1>2 DEF TableOK
<1>5. TableOK'
  <2>1. proc' \in [Pid -> {None} \cup ProcessType]
    BY <1>1, <1>2 DEF TableOK
  <2>2. \A pid \in Pid : Exists(pid)' => proc'[pid].gen < spawned'
    <3> SUFFICES ASSUME NEW pid \in Pid, Exists(pid)' PROVE proc'[pid].gen < spawned'
      OBVIOUS
    <3>1. CASE pid = p
      BY <3>1, <1>1, <1>2, <1>4 DEF TableOK
    <3>2. CASE pid # p
      <4>1. Exists(pid) /\ proc'[pid] = proc[pid]
        BY <3>2, <1>4 DEF Exists
      <4>2. proc[pid] \in ProcessType
        BY <4>1 DEF Exists, TableOK
      <4>3. proc[pid].gen \in Nat /\ proc[pid].gen < spawned
        BY <4>1, <4>2 DEF TableOK, ProcessType
      <4>4. QED
        BY <4>1, <4>3, <1>2 DEF TableOK
    <3>3. QED
      BY <3>1, <3>2
  <2>3. \A pid \in Pid : Exists(pid)' /\ proc'[pid].cmd = "profile" => proc'[pid].was
    BY <1>1, <1>4 DEF TableOK, Exists
  <2>4. QED
    BY <1>2, <2>1, <2>2, <2>3 DEF TableOK
<1>6. Born(p)
  BY <1>1, <1>2, <1>3, <1>4 DEF Born, Exists
<1>7. \A pid \in Pid : pid # p => Kept(pid) \/ Absent(pid)
  BY <1>4 DEF Kept, Absent, Exists, Running
<1>8. Moves
  BY <1>2, <1>5, <1>6, <1>7 DEF Moves, TableOK
<1>9. QED
  BY <1>1, <1>4, <1>5, <1>6, <1>8

\* A step that leaves the process table alone.
LEMMA IdleStep ==
  ASSUME TableOK, UNCHANGED kernel PROVE TableOK' /\ KernelMoves
<1>1. TableOK'
  BY DEF TableOK, kernel, Exists
<1>2. \A pid \in Pid : (Kept(pid) \/ Absent(pid)) /\ ~Born(pid) /\ ~Gone(pid)
  BY DEF kernel, Kept, Absent, Born, Gone, Exists, Free, Running
<1>3. Moves
  BY <1>1, <1>2 DEF Moves, TableOK, kernel
<1>4. QED
  BY <1>1, <1>2, <1>3 DEF KernelMoves, KeepsListed, KeepsChildren, kernel

\* What the kernel and the processes do by themselves.
LEMMA KernelStep ==
  ASSUME TableOK, Kernel PROVE TableOK' /\ KernelMoves
<1>1. ASSUME NEW pid \in Pid, NEW group \in Pid \cup {None}, NEW cmd \in {"profile", "other"}, NEW kin \in BOOLEAN,
             Spawn(pid, group, cmd, kin, FALSE),
             \/ group = pid /\ ~kin
             \/ \E parent \in Pid : Exists(parent) /\ group = proc[parent].group /\ kin = proc[parent].kin
      PROVE  TableOK' /\ KernelMoves
  <2>1. /\ TableOK' /\ Moves /\ Born(pid) /\ proc'[pid].child = FALSE
        /\ \A p \in Pid : p # pid => proc'[p] = proc[p]
    <3> DEFINE child == FALSE
    <3>1. child \in BOOLEAN /\ Spawn(pid, group, cmd, kin, child) /\ child = FALSE
      BY <1>1
    <3>2. \/ (group = pid \/ child) /\ (kin => child)
          \/ \E parent \in Pid : Exists(parent) /\ group = proc[parent].group /\ kin = proc[parent].kin
      BY <1>1
    <3> HIDE DEF child
    <3>3. /\ TableOK' /\ Moves /\ Born(pid) /\ proc'[pid].child = child
          /\ \A p \in Pid : p # pid => proc'[p] = proc[p]
      BY <3>1, <3>2, SpawnStep
    <3>4. QED
      BY <3>1, <3>3
  <2>2. \A p \in Pid : Kept(p) => p # pid
    BY <2>1 DEF Kept, Born, Free
  <2>3. \A p \in Pid : Born(p) => p = pid
    BY <2>1 DEF Born, Free, Exists
  <2>4. \A p \in Pid : ~Gone(p)
    BY <2>1 DEF Gone, Born, Free, Exists
  <2>5. QED
    BY <2>1, <2>2, <2>3, <2>4 DEF KernelMoves, KeepsListed, KeepsChildren
<1>2. ASSUME NEW pid \in Pid, StartOther(pid) PROVE TableOK' /\ KernelMoves
  BY <1>1, <1>2 DEF StartOther
<1>3. ASSUME NEW parent \in Pid, NEW pid \in Pid, Fork(parent, pid) PROVE TableOK' /\ KernelMoves
  <2>1. Exists(parent) /\ proc[parent] \in ProcessType
    BY <1>3 DEF Fork, Running, Exists, TableOK
  <2>2. proc[parent].group \in Pid \cup {None} /\ proc[parent].kin \in BOOLEAN
    BY <2>1 DEF ProcessType
  <2>3. PICK group \in {proc[parent].group, pid}, cmd \in {"profile", "other"} :
          Spawn(pid, group, cmd, proc[parent].kin /\ group = proc[parent].group, FALSE)
    BY <1>3 DEF Fork
  <2>4. CASE group = proc[parent].group
    <3>1. (proc[parent].kin /\ group = proc[parent].group) = proc[parent].kin
      BY <2>2, <2>4
    <3>2. Spawn(pid, group, cmd, proc[parent].kin, FALSE)
      BY <2>3, <3>1
    <3>3. QED
      BY <1>1, <2>1, <2>2, <2>4, <3>2
  <2>5. CASE group # proc[parent].group
    <3>1. group = pid /\ (proc[parent].kin /\ group = proc[parent].group) = FALSE
      BY <2>5
    <3>2. Spawn(pid, pid, cmd, FALSE, FALSE)
      BY <2>3, <3>1
    <3>3. QED
      BY <1>1, <3>2
  <2>6. QED
    BY <2>4, <2>5
<1>4. ASSUME NEW pid \in Pid, Running(pid) PROVE Exists(pid) /\ proc[pid] \in ProcessType
  BY <1>4 DEF Running, Exists, TableOK
<1>5. ASSUME NEW pid \in Pid, Exec(pid) PROVE TableOK' /\ KernelMoves
  <2> DEFINE r == [proc[pid] EXCEPT !.cmd = IF proc[pid].cmd = "profile" THEN "other" ELSE "profile",
                                    !.was = TRUE]
  <2>1. Exists(pid) /\ proc[pid] \in ProcessType /\ UNCHANGED spawned
    BY <1>4, <1>5 DEF Exec
  <2>2. proc' = [proc EXCEPT ![pid] = r]
    BY <1>5 DEF Exec, TableOK
  <2>3. /\ r \in ProcessType /\ r.gen = proc[pid].gen /\ r.group = proc[pid].group
        /\ r.kin = proc[pid].kin /\ r.child = proc[pid].child /\ r.doomed = proc[pid].doomed
        /\ r.was = TRUE /\ r.state = proc[pid].state
    BY <2>1 DEF ProcessType
  <2> HIDE DEF r
  <2>4. QED
    BY <2>1, <2>2, <2>3, UpdateStep
<1>6. ASSUME NEW pid \in Pid, Running(pid), proc' = [proc EXCEPT ![pid] = Zombie(@)], UNCHANGED spawned
      PROVE  TableOK' /\ KernelMoves
  <2> DEFINE r == Zombie(proc[pid])
  <2>1. Exists(pid) /\ proc[pid] \in ProcessType
    BY <1>4, <1>6
  <2>2. proc' = [proc EXCEPT ![pid] = r]
    BY <1>6 DEF TableOK
  <2>3. /\ r \in ProcessType /\ r.gen = proc[pid].gen /\ r.group = proc[pid].group
        /\ r.kin = proc[pid].kin /\ r.child = proc[pid].child /\ r.doomed = proc[pid].doomed
        /\ r.was = proc[pid].was /\ r.cmd = proc[pid].cmd /\ r.state = "zombie"
    BY <2>1 DEF ProcessType, Zombie
  <2> HIDE DEF r
  <2>4. QED
    BY <1>6, <2>1, <2>2, <2>3, UpdateStep DEF TableOK
<1>7. ASSUME NEW pid \in Pid, Running(pid), proc' = [proc EXCEPT ![pid].sig = "none"], UNCHANGED spawned
      PROVE  TableOK' /\ KernelMoves
  <2> DEFINE r == [proc[pid] EXCEPT !.sig = "none"]
  <2>1. Exists(pid) /\ proc[pid] \in ProcessType
    BY <1>4, <1>7
  <2>2. proc' = [proc EXCEPT ![pid] = r]
    BY <1>7 DEF TableOK
  <2>3. /\ r \in ProcessType /\ r.gen = proc[pid].gen /\ r.group = proc[pid].group
        /\ r.kin = proc[pid].kin /\ r.child = proc[pid].child /\ r.doomed = proc[pid].doomed
        /\ r.was = proc[pid].was /\ r.cmd = proc[pid].cmd /\ r.state = proc[pid].state
    BY <2>1 DEF ProcessType
  <2>4. proc[pid].cmd = "profile" => proc[pid].was
    BY <2>1 DEF TableOK
  <2>5. spawned' = spawned
    BY <1>7
  <2> HIDE DEF r
  <2>6. QED
    BY <2>1, <2>2, <2>3, <2>4, <2>5, UpdateStep
<1>8. ASSUME NEW pid \in Pid, Adopted(pid) PROVE TableOK' /\ KernelMoves
  <2>1. /\ UNCHANGED spawned /\ Exists(pid) /\ ~proc[pid].child
        /\ \A p \in Pid : proc'[p] = IF p = pid THEN None ELSE proc[p]
        /\ proc' \in [Pid -> {None} \cup ProcessType]
    BY <1>8 DEF Adopted, TableOK
  <2>2. TableOK'
    BY <2>1 DEF TableOK, Exists
  <2>3. \A p \in Pid : p # pid => (Kept(p) \/ Absent(p)) /\ ~Born(p) /\ ~Gone(p)
    BY <2>1 DEF Kept, Absent, Born, Gone, Exists, Running, Free
  <2>4. Gone(pid) /\ ~Born(pid) /\ ~Kept(pid)
    BY <2>1 DEF Kept, Born, Gone, Exists, Free
  <2>5. Moves
    BY <2>1, <2>2, <2>3, <2>4 DEF Moves, TableOK
  <2>6. \A p \in Pid : Kept(p) => proc'[p].doomed = proc[p].doomed
    BY <2>1, <2>4
  <2>7. QED
    BY <2>1, <2>2, <2>3, <2>4, <2>5, <2>6 DEF KernelMoves, KeepsListed, KeepsChildren
<1>9. QED
  BY <1>2, <1>3, <1>5, <1>6, <1>7, <1>8 DEF Kernel, Exit, Deliver

\* A signal changes nothing but what is pending.
LEMMA SignalStep ==
  ASSUME TableOK, NEW pids, NEW sig \in {"TERM", "KILL"},
         proc' = Signalled(pids, sig), UNCHANGED spawned
  PROVE  TableOK' /\ KernelMoves
<1>1. ASSUME NEW pid \in Pid
      PROVE  /\ proc'[pid] \in {None} \cup ProcessType
             /\ \/ proc'[pid] = proc[pid]
                \/ /\ Exists(pid) /\ Exists(pid)'
                   /\ proc'[pid].gen = proc[pid].gen /\ proc'[pid].group = proc[pid].group
                   /\ proc'[pid].kin = proc[pid].kin /\ proc'[pid].child = proc[pid].child
                   /\ proc'[pid].doomed = proc[pid].doomed /\ proc'[pid].was = proc[pid].was
                   /\ proc'[pid].cmd = proc[pid].cmd /\ proc'[pid].state = proc[pid].state
  <2> DEFINE r == [proc[pid] EXCEPT !.sig = sig]
  <2>1. proc'[pid] = proc[pid] \/ (Running(pid) /\ proc'[pid] = r)
    BY DEF Signalled
  <2>2. CASE proc'[pid] = proc[pid]
    BY <2>2 DEF TableOK
  <2>3. CASE Running(pid) /\ proc'[pid] = r
    <3>1. Exists(pid) /\ proc[pid] \in ProcessType
      BY <2>3 DEF Running, Exists, TableOK
    <3>2. /\ r \in ProcessType /\ r.gen = proc[pid].gen /\ r.group = proc[pid].group
          /\ r.kin = proc[pid].kin /\ r.child = proc[pid].child /\ r.doomed = proc[pid].doomed
          /\ r.was = proc[pid].was /\ r.cmd = proc[pid].cmd /\ r.state = proc[pid].state
      BY <3>1 DEF ProcessType
    <3> HIDE DEF r
    <3>3. QED
      BY <2>3, <3>1, <3>2, NoneAssumption DEF Exists
  <2>4. QED
    BY <2>1, <2>2, <2>3
<1>2. proc' \in [Pid -> {None} \cup ProcessType]
  <2>1. proc' = [pid \in Pid |-> proc'[pid]]
    BY DEF Signalled
  <2>2. QED
    BY <1>1, <2>1
<1>3. TableOK'
  BY <1>1, <1>2 DEF TableOK, Exists
<1>4. \A pid \in Pid : (Kept(pid) \/ Absent(pid)) /\ ~Born(pid) /\ ~Gone(pid)
  BY <1>1 DEF Kept, Absent, Born, Gone, Exists, Free, Running
<1>5. Moves
  BY <1>3, <1>4 DEF Moves, TableOK
<1>6. \A pid \in Pid : Kept(pid) => proc'[pid].doomed = proc[pid].doomed
  BY <1>1
<1>7. QED
  BY <1>3, <1>4, <1>5, <1>6 DEF KernelMoves, KeepsListed, KeepsChildren

\* The reaper marks the processes that it lists, and clears the marks.
LEMMA MarkStep ==
  ASSUME TableOK, UNCHANGED spawned, NEW marked \in SUBSET Pid, NEW mark \in BOOLEAN,
         proc' = [pid \in Pid |-> IF pid \in marked THEN [proc[pid] EXCEPT !.doomed = mark] ELSE proc[pid]],
         \A pid \in marked : Exists(pid)
  PROVE  /\ TableOK' /\ Moves /\ KeepsChildren
         /\ \A pid \in Pid : /\ Exists(pid)' <=> Exists(pid)
                             /\ Exists(pid) => /\ proc'[pid].gen = proc[pid].gen
                                               /\ proc'[pid].doomed = IF pid \in marked THEN mark ELSE proc[pid].doomed
                             /\ Running(pid)' <=> Running(pid)
<1>1. ASSUME NEW pid \in Pid
      PROVE  /\ proc'[pid] \in {None} \cup ProcessType
             /\ \/ proc'[pid] = proc[pid] /\ pid \notin marked
                \/ /\ Exists(pid) /\ Exists(pid)' /\ pid \in marked
                   /\ proc'[pid].gen = proc[pid].gen /\ proc'[pid].group = proc[pid].group
                   /\ proc'[pid].kin = proc[pid].kin /\ proc'[pid].child = proc[pid].child
                   /\ proc'[pid].doomed = mark /\ proc'[pid].was = proc[pid].was
                   /\ proc'[pid].cmd = proc[pid].cmd /\ proc'[pid].state = proc[pid].state
  <2> DEFINE r == [proc[pid] EXCEPT !.doomed = mark]
  <2>1. CASE pid \notin marked
    BY <2>1 DEF TableOK
  <2>2. CASE pid \in marked
    <3>1. Exists(pid) /\ proc[pid] \in ProcessType /\ proc'[pid] = r
      BY <2>2 DEF Exists, TableOK
    <3>2. /\ r \in ProcessType /\ r.gen = proc[pid].gen /\ r.group = proc[pid].group
          /\ r.kin = proc[pid].kin /\ r.child = proc[pid].child /\ r.doomed = mark
          /\ r.was = proc[pid].was /\ r.cmd = proc[pid].cmd /\ r.state = proc[pid].state
      BY <3>1 DEF ProcessType
    <3> HIDE DEF r
    <3>3. QED
      BY <2>2, <3>1, <3>2, NoneAssumption DEF Exists
  <2>3. QED
    BY <2>1, <2>2
<1>2. proc' \in [Pid -> {None} \cup ProcessType]
  <2>1. proc' = [pid \in Pid |-> proc'[pid]]
    OBVIOUS
  <2>2. QED
    BY <1>1, <2>1
<1>3. TableOK'
  BY <1>1, <1>2 DEF TableOK, Exists
<1>4. \A pid \in Pid : (Kept(pid) \/ Absent(pid)) /\ ~Born(pid) /\ ~Gone(pid)
  BY <1>1 DEF Kept, Absent, Born, Gone, Exists, Free, Running
<1>5. Moves
  BY <1>3, <1>4 DEF Moves, TableOK
<1>6. \A pid \in Pid : /\ Exists(pid)' <=> Exists(pid)
                       /\ Exists(pid) => /\ proc'[pid].gen = proc[pid].gen
                                         /\ proc'[pid].doomed = IF pid \in marked THEN mark ELSE proc[pid].doomed
                       /\ Running(pid)' <=> Running(pid)
  BY <1>1 DEF Exists, Running
<1>7. QED
  BY <1>3, <1>4, <1>5, <1>6 DEF KeepsChildren

\* The supervisor reaps the leader.
LEMMA ReapLeaderStep ==
  ASSUME TableOK, UNCHANGED spawned, proc' = [proc EXCEPT ![leader.pid] = None]
  PROVE  /\ TableOK' /\ Moves /\ KeepsListed
         /\ \A pid \in Pid : Exists(pid)' => proc'[pid] = proc[pid] /\ Exists(pid)
<1>1. /\ \A pid \in Pid : proc'[pid] = IF pid = leader.pid THEN None ELSE proc[pid]
      /\ proc' \in [Pid -> {None} \cup ProcessType]
  BY DEF TableOK
<1>2. TableOK'
  BY <1>1 DEF TableOK, Exists
<1>3. \A pid \in Pid : Kept(pid) \/ Gone(pid) \/ Absent(pid)
  BY <1>1 DEF Kept, Gone, Absent, Exists, Running
<1>4. Moves
  BY <1>2, <1>3 DEF Moves, TableOK
<1>5. KeepsListed
  BY <1>1 DEF KeepsListed, Kept, Exists
<1>6. QED
  BY <1>1, <1>2, <1>4, <1>5 DEF Exists

\* The supervisor starts the command.
LEMMA StartStep ==
  ASSUME TableOK, NEW p \in Pid, Start(p)
  PROVE  /\ TableOK' /\ Moves /\ KeepsListed /\ Born(p)
         /\ proc'[p].group = p /\ proc'[p].kin = TRUE /\ proc'[p].child = TRUE
         /\ \A pid \in Pid : pid # p => proc'[pid] = proc[pid]
<1> DEFINE yes == TRUE
<1>1. yes \in BOOLEAN /\ yes = TRUE /\ Spawn(p, p, "other", yes, yes)
  BY DEF Start
<1> HIDE DEF yes
<1>2. /\ TableOK' /\ Moves /\ Born(p)
      /\ proc'[p].group = p /\ proc'[p].kin = yes /\ proc'[p].child = yes
      /\ \A pid \in Pid : pid # p => proc'[pid] = proc[pid]
  BY <1>1, SpawnStep
<1>3. KeepsListed
  BY <1>2 DEF KeepsListed, Kept, Born, Free
<1>4. QED
  BY <1>1, <1>2, <1>3

\* The launcher starts it without a supervisor.
LEMMA StartBareStep ==
  ASSUME TableOK, NEW p \in Pid, StartBare(p)
  PROVE  TableOK' /\ Moves /\ KeepsListed
<1> DEFINE yes == TRUE
           own == None
<1>1. yes \in BOOLEAN /\ yes = TRUE /\ own \in Pid \cup {None} /\ Spawn(p, own, "other", yes, yes)
  BY DEF StartBare
<1> HIDE DEF yes, own
<1>2. TableOK' /\ Moves /\ Born(p) /\ \A pid \in Pid : pid # p => proc'[pid] = proc[pid]
  BY <1>1, SpawnStep
<1>3. KeepsListed
  BY <1>2 DEF KeepsListed, Kept, Born, Free
<1>4. QED
  BY <1>2, <1>3

\* The first step of a capture.
LEMMA ListStep ==
  ASSUME TableOK, List
  PROVE  /\ TableOK' /\ Moves /\ KeepsChildren
         /\ \A pid \in Pid : /\ Exists(pid)' <=> Exists(pid)
                             /\ Exists(pid) => /\ proc'[pid].gen = proc[pid].gen
                                               /\ proc'[pid].doomed = IF pid \in Listing THEN TRUE ELSE proc[pid].doomed
                             /\ Running(pid)' <=> Running(pid)
<1>1. Listing \in SUBSET Pid /\ \A pid \in Listing : Exists(pid)
  BY DEF Listing, Profile, Running
<1>2. /\ proc' = [pid \in Pid |-> IF pid \in Listing THEN [proc[pid] EXCEPT !.doomed = TRUE] ELSE proc[pid]]
      /\ UNCHANGED spawned
  BY DEF List
<1> DEFINE mark == TRUE
<1>3. mark \in BOOLEAN /\ mark = TRUE
  OBVIOUS
<1>4. proc' = [pid \in Pid |-> IF pid \in Listing THEN [proc[pid] EXCEPT !.doomed = mark] ELSE proc[pid]]
  BY <1>2
<1> HIDE DEF mark
<1>5. /\ TableOK' /\ Moves /\ KeepsChildren
      /\ \A pid \in Pid : /\ Exists(pid)' <=> Exists(pid)
                          /\ Exists(pid) => /\ proc'[pid].gen = proc[pid].gen
                                            /\ proc'[pid].doomed = IF pid \in Listing THEN mark ELSE proc[pid].doomed
                          /\ Running(pid)' <=> Running(pid)
  BY <1>1, <1>2, <1>3, <1>4, MarkStep
<1>6. QED
  BY <1>3, <1>5

\* The first step of a reap.
LEMMA StartReapStep ==
  ASSUME TableOK, StartReap
  PROVE  /\ TableOK' /\ Moves /\ KeepsChildren
         /\ \A pid \in Pid : Exists(pid)' => proc'[pid].doomed = FALSE
<1> DEFINE marked == {pid \in Pid : Exists(pid)}
           mark == FALSE
<1>1. marked \in SUBSET Pid /\ (\A pid \in marked : Exists(pid)) /\ mark \in BOOLEAN /\ mark = FALSE
      /\ (\A pid \in Pid : Exists(pid) => pid \in marked)
  OBVIOUS
<1>2. UNCHANGED spawned
  BY DEF StartReap
<1>3. proc' = [pid \in Pid |-> IF pid \in marked THEN [proc[pid] EXCEPT !.doomed = mark] ELSE proc[pid]]
  <2>1. ASSUME NEW pid \in Pid
        PROVE  (IF Exists(pid) THEN [proc[pid] EXCEPT !.doomed = FALSE] ELSE None) =
               (IF pid \in marked THEN [proc[pid] EXCEPT !.doomed = mark] ELSE proc[pid])
    BY DEF Exists
  <2>2. proc' = [pid \in Pid |-> IF Exists(pid) THEN [proc[pid] EXCEPT !.doomed = FALSE] ELSE None]
    BY DEF StartReap
  <2> HIDE DEF marked, mark
  <2>3. QED
    BY <2>1, <2>2
<1> HIDE DEF marked, mark
<1>4. /\ TableOK' /\ Moves /\ KeepsChildren
      /\ \A pid \in Pid : /\ Exists(pid)' <=> Exists(pid)
                          /\ Exists(pid) => /\ proc'[pid].gen = proc[pid].gen
                                            /\ proc'[pid].doomed = IF pid \in marked THEN mark ELSE proc[pid].doomed
                          /\ Running(pid)' <=> Running(pid)
  BY <1>1, <1>2, <1>3, MarkStep
<1>5. QED
  BY <1>1, <1>4

\* Any other step of the reaper leaves the table alone or signals.
LEMMA OtherReapStep ==
  ASSUME TableOK, Reap, ~List PROVE TableOK' /\ KernelMoves
<1>1. CASE Send
  BY <1>1, SignalStep DEF Send
<1>2. CASE UNCHANGED kernel
  BY <1>2, IdleStep
<1>3. QED
  BY <1>1, <1>2 DEF Reap, Identify, Relist, Recheck, Captured, OpenSignal, MatchFirst, MatchAgain,
                    FindListed, Poll, PollsEnd, ReapFails

\* So does any step of the supervisor that does not reap the leader.
LEMMA OtherSuperviseStep ==
  ASSUME TableOK, Supervise, ~ReapLeader, ~WaitBare PROVE TableOK' /\ KernelMoves
<1>1. ASSUME NEW sig \in {"TERM", "KILL"}, SignalGroup(sig), UNCHANGED spawned PROVE TableOK' /\ KernelMoves
  <2>1. CASE proc' = Signalled(InGroup(leader.pid), sig)
    BY <1>1, <2>1, SignalStep
  <2>2. CASE UNCHANGED proc
    BY <1>1, <2>2, IdleStep DEF kernel
  <2>3. QED
    BY <1>1, <2>1, <2>2 DEF SignalGroup
<1>2. CASE Term \/ Kill
  BY <1>1, <1>2 DEF Term, Kill
<1>3. CASE KillLeader
  <2>1. CASE proc' = Signalled({leader.pid}, "KILL")
    BY <1>3, <2>1, SignalStep DEF KillLeader
  <2>2. CASE UNCHANGED proc
    BY <1>3, <2>2, IdleStep DEF kernel, KillLeader
  <2>3. QED
    BY <1>3, <2>1, <2>2 DEF KillLeader
<1>4. CASE UNCHANGED kernel
  BY <1>4, IdleStep
<1>5. QED
  BY <1>2, <1>3, <1>4 DEF Supervise, CaptureOwner, StartExitWatch, WatchExit, Deadline, Arbitrate, Grace,
                          ObserveExit, Await, Drain, ProveGone

-----------------------------------------------------------------------------
(* The reaper *)

\* What the reaper holds are identities of processes that were started, or, while it
\* identifies, pids.
IdsOK ==
  /\ \A id \in ids \cup survivors : Known(id)
  /\ rpc = "identify" => todo \subseteq Pid
  /\ rpc \notin {"identify", "error"} => \A id \in todo : Known(id)

\* While an identity is signalled: if its process is still there, an exact handle is
\* bound to it, and once it was found in a listing it has run a command of the profile.
\* Who has its pid at the signal is that process, or came after the second look.
AimOK ==
  rpc \in {"match", "find", "rematch", "send"} =>
    /\ Known(target)
    /\ exact /\ (SameGeneration(target) \/ rpc # "match") => handle = target
    /\ ~exact => handle = target.pid
    /\ rpc \in {"rematch", "send"} /\ SameGeneration(target) => proc[target.pid].was
    /\ rpc = "send" =>
         /\ seen \in Nat /\ seen <= spawned
         /\ Exists(target.pid) /\ proc[target.pid].gen < seen => SameGeneration(target)

\* A start time is never used twice.
LEMMA SameStays ==
  ASSUME TableOK, Moves, NEW id, Known(id), SameGeneration(id)'
  PROVE  SameGeneration(id) /\ Kept(id.pid)
<1>1. id.pid \in Pid /\ id.gen \in Nat /\ id.gen < spawned
  BY DEF Known, IdentityType
<1>2. ~Born(id.pid)
  BY <1>1 DEF Born, SameGeneration, TableOK
<1>3. Kept(id.pid)
  BY <1>1, <1>2 DEF Moves, SameGeneration, Gone, Absent, Exists
<1>4. QED
  BY <1>3 DEF Kept, SameGeneration

LEMMA KnownStays ==
  ASSUME TableOK, Moves PROVE \A id : Known(id) => Known(id)'
BY DEF Known, Moves, TableOK, IdentityType

\* An identity that is read off the table is known.
LEMMA IdentityKnown ==
  ASSUME TableOK, NEW pid \in Pid, Exists(pid)
  PROVE  Known(Identity(pid)) /\ Identity(pid).pid = pid /\ Identity(pid).gen = proc[pid].gen
<1>1. proc[pid] \in ProcessType
  BY DEF Exists, TableOK
<1>2. proc[pid].gen \in Nat /\ proc[pid].gen < spawned
  BY <1>1 DEF ProcessType, TableOK
<1>3. QED
  BY <1>2 DEF Known, IdentityType, Identity

\* Whatever happens to the table while the reaper does not move.
LEMMA AimStays ==
  ASSUME TableOK, Moves, AimOK, IdsOK, UNCHANGED reaper, UNCHANGED exact PROVE AimOK' /\ IdsOK'
<1>1. IdsOK'
  BY KnownStays DEF IdsOK, reaper, capture
<1>2. AimOK'
  <2> SUFFICES ASSUME rpc \in {"match", "find", "rematch", "send"}
               PROVE  /\ Known(target)'
                      /\ exact /\ (SameGeneration(target)' \/ rpc # "match") => handle' = target'
                      /\ ~exact => handle' = target'.pid
                      /\ rpc \in {"rematch", "send"} /\ SameGeneration(target)' => proc'[target'.pid].was
                      /\ rpc = "send" =>
                           /\ seen' \in Nat /\ seen' <= spawned'
                           /\ Exists(target.pid)' /\ proc'[target'.pid].gen < seen' => SameGeneration(target)'
    BY DEF AimOK, reaper
  <2>1. target' = target /\ handle' = handle /\ seen' = seen /\ Known(target) /\ Known(target)'
    BY KnownStays DEF AimOK, reaper, aim, Known
  <2>2. SameGeneration(target)' => SameGeneration(target) /\ Kept(target.pid)
    <3>1. SameGeneration(target)' <=> Exists(target.pid)' /\ proc'[target.pid].gen = target.gen
      BY <2>1 DEF SameGeneration, Exists
    <3>2. SUFFICES ASSUME Exists(target.pid)', proc'[target.pid].gen = target.gen
                   PROVE  SameGeneration(target) /\ Kept(target.pid)
      BY <3>1
    <3>3. QED
      BY <2>1, <3>2, SameStays DEF SameGeneration
  <2>3. ASSUME rpc = "send"
        PROVE  /\ seen' \in Nat /\ seen' <= spawned'
               /\ Exists(target.pid)' /\ proc'[target'.pid].gen < seen' => SameGeneration(target)'
    <3>1. seen \in Nat /\ seen <= spawned /\ spawned \in Nat /\ spawned' \in Nat /\ spawned <= spawned'
      BY <2>3 DEF AimOK, TableOK, Moves
    <3>2. SUFFICES ASSUME Exists(target.pid)', proc'[target.pid].gen < seen PROVE SameGeneration(target)'
      BY <2>1, <3>1
    <3>3. target.pid \in Pid
      BY <2>1 DEF Known, IdentityType
    <3>4. Kept(target.pid)
      <4>1. proc'[target.pid] # None /\ proc'[target.pid].gen < seen
        BY <2>1, <3>2 DEF Exists
      <4>2. ~Born(target.pid)
        BY <3>1, <4>1 DEF Born
      <4>3. QED
        BY <3>3, <4>1, <4>2 DEF Moves, Gone, Absent
    <3>5. SameGeneration(target)
      BY <2>3, <3>2, <3>4 DEF AimOK, Kept
    <3>6. QED
      BY <2>1, <3>4, <3>5 DEF SameGeneration, Kept
  <2>4. QED
    BY <2>1, <2>2, <2>3 DEF AimOK, Kept
<1>3. QED
  BY <1>1, <1>2

\* The reaper's own steps.
LEMMA ReapKeepsIds ==
  ASSUME TableOK, IdsOK, AimOK, Reap PROVE IdsOK'
<1>1. CASE List
  <2>1. Moves
    BY <1>1, ListStep
  <2>2. QED
    BY <1>1, <2>1, KnownStays DEF List, IdsOK, Listing
<1>2. ASSUME ~List PROVE \A id : Known(id) => Known(id)'
  BY <1>2, OtherReapStep, KnownStays DEF KernelMoves
<1>3. CASE Identify
  <2>1. PICK pid \in todo : /\ todo' = todo \ {pid}
                            /\ ids' = ids \cup (IF Running(pid) THEN {Identity(pid)} ELSE {})
    BY <1>3 DEF Identify
  <2>2. pid \in Pid /\ rpc = "identify" /\ rpc' = rpc /\ UNCHANGED <<survivors, kernel>>
    BY <1>3 DEF Identify, IdsOK
  <2>3. Running(pid) => Known(Identity(pid))
    BY <2>2, IdentityKnown DEF Running
  <2>4. \A id : Known(id) => Known(id)'
    BY <2>2 DEF Known, kernel
  <2>5. QED
    BY <2>1, <2>2, <2>3, <2>4 DEF IdsOK
<1>4. CASE Relist \/ Recheck \/ Captured \/ Poll \/ PollsEnd \/ ReapFails
  <2>1. ~List /\ \A id : Known(id) => Known(id)'
    BY <1>2, <1>4 DEF List, Relist, Recheck, Captured, Poll, PollsEnd, ReapFails, kernel, Known
  <2>2. QED
    BY <1>4, <2>1 DEF Relist, Recheck, Captured, Poll, PollsEnd, ReapFails, IdsOK, capture
<1>5. CASE OpenSignal \/ MatchFirst \/ FindListed \/ MatchAgain \/ Send
  <2>1. ~List
    BY <1>5 DEF List, OpenSignal, MatchFirst, FindListed, MatchAgain, Send
  <2>2. \A id : Known(id) => Known(id)'
    BY <1>2, <2>1
  <2>3. QED
    BY <1>5, <2>2 DEF OpenSignal, MatchFirst, FindListed, MatchAgain, Send, Skip, IdsOK, capture
<1>6. QED
  BY <1>1, <1>3, <1>4, <1>5 DEF Reap

LEMMA ReapKeepsAim ==
  ASSUME TableOK, IdsOK, AimOK, Reap, UNCHANGED exact PROVE AimOK'
<1>1. CASE OpenSignal
  <2>1. PICK id \in todo : IF Exists(id.pid) \/ ~exact
            THEN rpc' = "match" /\ target' = id /\ handle' = Bind(id.pid)
            ELSE Skip
    BY <1>1 DEF OpenSignal
  <2>2. Known(id) /\ UNCHANGED kernel
    BY <1>1 DEF OpenSignal, IdsOK
  <2>3. CASE ~Exists(id.pid) /\ exact
    BY <2>1, <2>3 DEF Skip, AimOK
  <2>4. CASE Exists(id.pid) \/ ~exact
    <3>1. id.pid \in Pid /\ id = [pid |-> id.pid, gen |-> id.gen]
      BY <2>2 DEF Known, IdentityType
    <3>2. /\ rpc' = "match" /\ target' = id
          /\ exact => handle' = [pid |-> id.pid, gen |-> proc[id.pid].gen]
          /\ ~exact => handle' = id.pid
      BY <2>1, <2>4 DEF Bind, ExactHandle, LegacyHandle, Identity
    <3>3. Known(target)'
      BY <2>2, <3>2 DEF Known, kernel
    <3>4. exact /\ SameGeneration(target)' => handle' = target'
      <4>1. SameGeneration(target)' => proc[id.pid].gen = id.gen
        BY <2>2, <3>2 DEF SameGeneration, kernel
      <4>2. QED
        BY <3>1, <3>2, <4>1
    <3>5. QED
      BY <3>2, <3>3, <3>4 DEF AimOK
  <2>5. QED
    BY <2>3, <2>4, Zenon
<1>2. CASE MatchFirst
  <2>1. UNCHANGED <<proc, spawned>> /\ rpc = "match"
    BY <1>2 DEF MatchFirst, aim, kernel
  <2>2. CASE SameGeneration(target)
    BY <1>2, <2>1, <2>2 DEF MatchFirst, aim, AimOK, Known, SameGeneration, Exists
  <2>3. CASE ~SameGeneration(target)
    BY <1>2, <2>3 DEF MatchFirst, aim, AimOK, Skip
  <2>4. QED
    BY <2>2, <2>3
<1>3. CASE FindListed
  <2>1. UNCHANGED <<proc, spawned>> /\ rpc = "find"
    BY <1>3 DEF FindListed, kernel
  <2>2. CASE target.pid \in Listing
    <3>1. proc[target.pid].was
      BY <2>2 DEF Listing, Profile, Running, TableOK
    <3>2. QED
      BY <1>3, <2>1, <2>2, <3>1 DEF FindListed, aim, AimOK, Known, SameGeneration, Exists
  <2>3. CASE target.pid \notin Listing
    BY <1>3, <2>3 DEF FindListed, AimOK, Skip, aim
  <2>4. QED
    BY <2>2, <2>3
<1>4. CASE MatchAgain
  <2>1. UNCHANGED <<proc, spawned>> /\ rpc = "rematch"
    BY <1>4 DEF MatchAgain, kernel
  <2>2. CASE SameGeneration(target)
    BY <1>4, <2>1, <2>2 DEF MatchAgain, AimOK, Known, SameGeneration, Exists, TableOK
  <2>3. CASE ~SameGeneration(target)
    BY <1>4, <2>3 DEF MatchAgain, AimOK, Skip
  <2>4. QED
    BY <2>2, <2>3
<1>5. CASE rpc' \notin {"match", "find", "rematch", "send"}
  BY <1>5 DEF AimOK
<1>6. QED
  BY <1>1, <1>2, <1>3, <1>4, <1>5 DEF Reap, List, Identify, Relist, Recheck, Captured, Send, Poll, PollsEnd,
                                      ReapFails, Skip

\* A signal reaches a process that has run a command of the profile or, through a
\* legacy handle, one that was started after the second look at the generation.
LEMMA SendHits ==
  ASSUME TableOK, AimOK, rpc = "send"
  PROVE  \A pid \in Addressee : proc[pid].was \/ (~exact /\ proc[pid].gen >= seen)
<1> SUFFICES ASSUME NEW pid \in Pid, Running(pid), Bind(pid) = handle, ~proc[pid].was
             PROVE  ~exact /\ proc[pid].gen >= seen
  BY DEF Addressee
<1>1. ~exact
  <2> SUFFICES ASSUME exact PROVE FALSE
    OBVIOUS
  <2>1. Identity(pid) = target
    BY DEF AimOK, Bind, ExactHandle
  <2>2. target.pid = pid /\ SameGeneration(target)
    BY <2>1, IdentityKnown DEF Running, SameGeneration
  <2>3. QED
    BY <2>2 DEF AimOK
<1>2. pid = target.pid /\ Exists(pid)
  BY <1>1 DEF AimOK, Bind, LegacyHandle, Running
<1>3. ~SameGeneration(target)
  BY <1>2 DEF AimOK
<1>4. ~(proc[pid].gen < seen) /\ seen \in Nat
  BY <1>2, <1>3 DEF AimOK
<1>5. proc[pid].gen \in Nat
  <2>1. proc[pid] \in ProcessType
    BY <1>2 DEF Exists, TableOK
  <2>2. QED
    BY <2>1 DEF ProcessType
<1>6. QED
  BY <1>1, <1>4, <1>5

\* A process that the reap has listed and that still runs is among the identities
\* it holds, or is a pid that it has still to identify.
Held(pid) == Identity(pid) \in ids \cup survivors \/ (rpc = "identify" /\ pid \in todo)

HeldOK ==
  /\ rpc \notin {"identify", "recheck", "error"} => ids = {}
  /\ rpc = "ok" => survivors = {}
  /\ rpc # "error" => \A pid \in Pid : Running(pid) /\ proc[pid].doomed => Held(pid)

\* Who runs and is listed after a step did and was before it, under the same identity.
LEMMA ListedStays ==
  ASSUME TableOK, Moves, KeepsListed, NEW pid \in Pid, Running(pid)', proc'[pid].doomed
  PROVE  Running(pid) /\ proc[pid].doomed /\ Identity(pid)' = Identity(pid)
<1>1. Kept(pid)
  BY DEF Moves, Born, Gone, Absent, Running, Exists
<1>2. QED
  BY <1>1 DEF Kept, KeepsListed, Identity

LEMMA HeldStays ==
  ASSUME TableOK, Moves, KeepsListed, HeldOK, UNCHANGED reaper PROVE HeldOK'
BY ListedStays DEF HeldOK, Held, reaper, capture

LEMMA ReapKeepsHeld ==
  ASSUME TableOK, IdsOK, HeldOK, Reap PROVE HeldOK'
<1>1. CASE List
  <2>1. \A pid \in Pid : /\ Exists(pid)' <=> Exists(pid)
                         /\ Exists(pid) => /\ proc'[pid].gen = proc[pid].gen
                                           /\ proc'[pid].doomed = IF pid \in Listing THEN TRUE ELSE proc[pid].doomed
                         /\ Running(pid)' <=> Running(pid)
    BY <1>1, ListStep
  <2>2. rpc = "list" /\ rpc' = "identify" /\ todo' = Listing /\ survivors' = survivors /\ ids = {}
    BY <1>1 DEF List, HeldOK
  <2>3. ASSUME NEW pid \in Pid, Running(pid)', proc'[pid].doomed PROVE Held(pid)'
    <3>1. CASE pid \in Listing
      BY <2>2, <3>1 DEF Held
    <3>2. CASE pid \notin Listing
      <4>1. Running(pid) /\ proc[pid].doomed /\ Identity(pid)' = Identity(pid)
        BY <2>1, <2>3, <3>2 DEF Running, Identity
      <4>2. Identity(pid) \in survivors
        BY <2>2, <4>1 DEF HeldOK, Held
      <4>3. QED
        BY <2>2, <4>1, <4>2 DEF Held
    <3>3. QED
      BY <3>1, <3>2
  <2>4. QED
    BY <2>2, <2>3 DEF HeldOK
<1>2. CASE Send
  <2>1. Moves /\ KeepsListed
    BY <1>2, OtherReapStep DEF KernelMoves, Send, List
  <2>2. rpc' = "signal" /\ rpc = "send" /\ UNCHANGED <<ids, survivors, todo>>
    BY <1>2 DEF Send, Skip, capture
  <2>3. QED
    BY <2>1, <2>2, ListedStays DEF HeldOK, Held
<1>3. ASSUME UNCHANGED kernel
      PROVE  \A pid \in Pid : /\ Running(pid)' <=> Running(pid)
                              /\ proc'[pid] = proc[pid]
                              /\ Identity(pid)' = Identity(pid)
  BY <1>3 DEF kernel, Running, Exists, Identity
<1>4. CASE Identify
  <2>1. PICK p \in todo : /\ todo' = todo \ {p}
                          /\ ids' = ids \cup (IF Running(p) THEN {Identity(p)} ELSE {})
    BY <1>4 DEF Identify
  <2>2. rpc = "identify" /\ rpc' = "identify" /\ survivors' = survivors /\ UNCHANGED kernel
    BY <1>4 DEF Identify
  <2>3. QED
    BY <1>3, <2>1, <2>2 DEF HeldOK, Held
<1>5. CASE Relist
  BY <1>3, <1>5 DEF Relist, HeldOK, Held
<1>6. CASE Recheck
  <2>1. rpc = "recheck" /\ rpc' \in {"recheck", "error"} /\ survivors' = survivors /\ UNCHANGED kernel
    BY <1>6 DEF Recheck
  <2>2. ASSUME rpc' # "error", NEW pid \in Pid, Running(pid), Identity(pid) \in ids PROVE Identity(pid) \in ids'
    <3>1. CurrentIdentity(Identity(pid))
      BY <2>2 DEF CurrentIdentity, Alive, Identity
    <3>2. QED
      BY <1>6, <2>2, <3>1 DEF Recheck
  <2>3. QED
    BY <1>3, <2>1, <2>2 DEF HeldOK, Held
<1>7. CASE Captured
  <2>1. rpc = "recheck" /\ survivors' = survivors \cup ids /\ ids' = {} /\ UNCHANGED kernel
    BY <1>7 DEF Captured
  <2>2. rpc' \in {"error", "signal"} \/ (rpc' = "ok" /\ survivors' = {})
    BY <1>7 DEF Captured
  <2>3. QED
    BY <1>3, <2>1, <2>2 DEF HeldOK, Held
<1>8. CASE Poll
  <2>1. /\ rpc = "signal" /\ rpc' = "signal" /\ ids' = ids /\ UNCHANGED kernel
        /\ survivors' = {id \in survivors : CurrentIdentity(id)}
    BY <1>8 DEF Poll, capture
  <2>2. ASSUME NEW pid \in Pid, Running(pid) PROVE CurrentIdentity(Identity(pid))
    BY <2>2 DEF CurrentIdentity, Alive, Identity
  <2>3. QED
    BY <1>3, <2>1, <2>2 DEF HeldOK, Held
<1>9. CASE OpenSignal \/ MatchFirst \/ FindListed \/ MatchAgain \/ PollsEnd \/ ReapFails
  <2>1. /\ UNCHANGED <<ids, survivors>> /\ UNCHANGED kernel
        /\ \/ rpc' = "error"
           \/ rpc \notin {"identify", "recheck", "error"} /\ rpc' \notin {"identify", "recheck", "ok"}
    BY <1>9 DEF OpenSignal, MatchFirst, FindListed, MatchAgain, Skip, PollsEnd, ReapFails, capture
  <2>2. QED
    BY <1>3, <2>1 DEF HeldOK, Held
<1>10. QED
  BY <1>1, <1>2, <1>4, <1>5, <1>6, <1>7, <1>8, <1>9 DEF Reap

-----------------------------------------------------------------------------
(* The supervisor *)

NoKin == \A pid \in Pid : Exists(pid) => ~proc[pid].kin
KinInGroup == \A pid \in Pid : Exists(pid) /\ proc[pid].kin => proc[pid].group = leader.pid

\* The leader is there, running or a zombie, and the group that has its number is the
\* one that the command was started in.
AtHome ==
  /\ leader.pid \in Pid /\ Exists(leader.pid) /\ proc[leader.pid].child
  /\ \A pid \in Pid : Exists(pid) => (proc[pid].kin <=> proc[pid].group = leader.pid)

Unreaped == {"capture", "watch", "select", "term", "grace", "kill", "leader", "observe", "drain", "reap"}

HomeOK ==
  /\ spc = "idle" => NoKin
  /\ spc \in Unreaped => AtHome /\ limited /\ Known(leader)
  /\ spc = "prove" => KinInGroup /\ limited /\ Known(leader) /\ ~SameGeneration(leader)
  /\ spc = "bare" => ~limited /\ Known(leader)
  /\ result \in {"status", "timeout"} =>
       /\ spc = "done" /\ Known(leader) /\ ~SameGeneration(leader)
       /\ IF limited THEN NoKin ELSE result = "status"

\* Whatever the others do to the table, as long as nobody else starts or reaps a child
\* of the supervisor.
LEMMA HomeStays ==
  ASSUME TableOK, Moves, KeepsChildren, leader' = leader
  PROVE  /\ Known(leader) => Known(leader)'
         /\ Known(leader) /\ ~SameGeneration(leader) => ~SameGeneration(leader)'
         /\ NoKin => NoKin'
         /\ KinInGroup => KinInGroup'
         /\ AtHome => AtHome'
<1>1. ASSUME NEW pid \in Pid, Exists(pid)' PROVE Kept(pid) \/ Born(pid)
  BY <1>1 DEF Moves, Gone, Absent, Exists
<1>2. ASSUME NEW pid \in Pid, Born(pid)
      PROVE  \/ proc'[pid].group = pid /\ ~proc'[pid].kin
             \/ \E parent \in Pid : /\ Exists(parent)
                                    /\ proc'[pid].group = proc[parent].group
                                    /\ proc'[pid].kin = proc[parent].kin
  BY <1>2 DEF Born, KeepsChildren
<1>3. NoKin => NoKin'
  BY <1>1, <1>2 DEF NoKin, Kept
<1>4. KinInGroup => KinInGroup'
  BY <1>1, <1>2 DEF KinInGroup, Kept
<1>5. ASSUME AtHome PROVE AtHome'
  <2>1. Kept(leader.pid)
    BY <1>5 DEF AtHome, Moves, KeepsChildren, Born, Free, Absent
  <2>2. leader'.pid \in Pid /\ Exists(leader.pid)' /\ proc'[leader'.pid].child
    BY <1>5, <2>1 DEF AtHome, Kept
  <2>3. ASSUME NEW pid \in Pid, Exists(pid)'
        PROVE  proc'[pid].kin <=> proc'[pid].group = leader.pid
    <3>1. CASE Kept(pid)
      BY <1>5, <3>1 DEF AtHome, Kept
    <3>2. CASE Born(pid)
      <4>1. pid # leader.pid
        BY <1>5, <3>2 DEF AtHome, Born, Free
      <4>2. QED
        BY <1>2, <1>5, <3>2, <4>1 DEF AtHome
    <3>3. QED
      BY <1>1, <2>3, <3>1, <3>2
  <2>4. QED
    BY <2>2, <2>3 DEF AtHome, Exists
<1>6. Known(leader) => Known(leader)'
  BY KnownStays DEF Known
<1>7. ASSUME Known(leader), SameGeneration(leader)' PROVE SameGeneration(leader)
  <2>1. Exists(leader.pid)' /\ proc'[leader.pid].gen = leader.gen
    BY <1>7 DEF SameGeneration, Exists
  <2>2. QED
    BY <1>7, <2>1, SameStays DEF SameGeneration
<1>8. QED
  BY <1>3, <1>4, <1>5, <1>6, <1>7

LEMMA OthersKeepHome ==
  ASSUME TableOK, Moves, KeepsChildren, HomeOK, UNCHANGED supervisor, UNCHANGED limited PROVE HomeOK'
BY HomeStays DEF HomeOK, supervisor

LEMMA SuperviseKeepsHome ==
  ASSUME TableOK, HomeOK, Supervise, UNCHANGED limited PROVE HomeOK'
<1>1. CASE ReapLeader
  <2>1. \A pid \in Pid : Exists(pid)' => proc'[pid] = proc[pid] /\ Exists(pid)
    BY <1>1, ReapLeaderStep DEF ReapLeader
  <2>2. /\ AtHome /\ limited /\ Known(leader)
        /\ spc' = "prove" /\ spc = "reap" /\ leader' = leader /\ result' = result
    BY <1>1 DEF ReapLeader, Go, HomeOK, Unreaped
  <2>3. KinInGroup'
    BY <2>1, <2>2 DEF AtHome, KinInGroup
  <2>4. Known(leader)' /\ ~SameGeneration(leader)'
    BY <1>1, <2>2 DEF ReapLeader, Known, IdentityType, SameGeneration, Exists, TableOK
  <2>5. QED
    BY <2>2, <2>3, <2>4 DEF HomeOK, Unreaped
<1>2. CASE ProveGone
  <2>1. PICK proved \in {FALSE, Proved} : Finish(Verdict(proved))
    BY <1>2 DEF ProveGone
  <2>2. spc = "prove" /\ spc' = "done" /\ result' = Verdict(proved) /\ UNCHANGED <<kernel, leader>>
    BY <1>2, <2>1 DEF ProveGone, Finish
  <2>3. ASSUME result' \in {"status", "timeout"} PROVE NoKin'
    <3>1. InGroup(leader.pid) = {}
      BY <2>2, <2>3 DEF Verdict, Proved
    <3>2. NoKin
      BY <2>2, <3>1 DEF HomeOK, KinInGroup, InGroup, NoKin
    <3>3. QED
      BY <2>2, <3>2 DEF NoKin, Exists, kernel
  <2>4. limited /\ Known(leader)' /\ ~SameGeneration(leader)'
    BY <2>2 DEF HomeOK, Known, SameGeneration, Exists, kernel
  <2>5. QED
    BY <2>2, <2>3, <2>4 DEF HomeOK, Unreaped
<1>3. ASSUME ~ReapLeader, ~WaitBare, leader' = leader
      PROVE  (AtHome => AtHome') /\ (Known(leader) => Known(leader)')
  BY <1>3, OtherSuperviseStep, HomeStays DEF KernelMoves
<1>4. CASE Drain
  <2>1. spc = "drain" /\ leader' = leader /\ ~ReapLeader /\ ~WaitBare
    BY <1>4 DEF Drain, ReapLeader, WaitBare
  <2>2. \/ spc' = "reap" /\ result' = result
        \/ spc' = "done" /\ result' = "error"
    BY <1>4 DEF Drain, Go, Finish
  <2>3. QED
    BY <1>3, <2>1, <2>2 DEF HomeOK, Unreaped
<1>5. CASE \/ CaptureOwner \/ StartExitWatch \/ Arbitrate \/ Term \/ Grace \/ Kill \/ KillLeader \/ ObserveExit
           \/ Deadline
  <2>1. /\ spc \in Unreaped /\ spc' \in Unreaped /\ spc # "reap" /\ leader' = leader /\ result' = result
    BY <1>5 DEF CaptureOwner, StartExitWatch, Arbitrate, Term, Grace, Kill, KillLeader, ObserveExit, Await,
                Deadline, Go, Unreaped
  <2>2. ~ReapLeader /\ ~WaitBare
    BY <2>1 DEF ReapLeader, WaitBare, Unreaped
  <2>3. QED
    BY <1>3, <2>1, <2>2 DEF HomeOK, Unreaped
<1>6. CASE WatchExit
  <2>1. UNCHANGED <<kernel, spc, leader, result>>
    BY <1>6 DEF WatchExit
  <2>2. QED
    BY <2>1 DEF HomeOK, NoKin, AtHome, KinInGroup, Exists, SameGeneration, Known, kernel
<1>7. CASE WaitBare
  <2>1. spc = "bare" /\ spc' = "done" /\ result' \in {"status", "error"} /\ leader' = leader
    BY <1>7 DEF WaitBare, Finish
  <2>2. ~limited /\ Known(leader) /\ Known(leader)'
    BY <1>7, <2>1 DEF HomeOK, WaitBare, Known
  <2>3. result' = "status" => ~SameGeneration(leader)'
    BY <1>7, <2>1, <2>2 DEF WaitBare, Finish, Known, IdentityType, SameGeneration, Exists, TableOK
  <2>4. QED
    BY <2>1, <2>2, <2>3 DEF HomeOK, Unreaped
<1>8. QED
  BY <1>1, <1>2, <1>4, <1>5, <1>6, <1>7 DEF Supervise

\* A group signal is sent while the leader is unreaped.
LEMMA SuperviseStaysHome ==
  ASSUME TableOK, HomeOK, Supervise, strays = {} PROVE strays' = {}
<1>1. CASE Term \/ Kill
  <2>1. AtHome
    BY <1>1 DEF Term, Kill, HomeOK, Unreaped
  <2>2. {pid \in InGroup(leader.pid) : ~proc[pid].kin} = {}
    BY <2>1 DEF AtHome, InGroup
  <2>3. QED
    BY <1>1, <2>2 DEF Term, Kill, SignalGroup
<1>2. QED
  BY <1>1 DEF Supervise, WaitBare, CaptureOwner, StartExitWatch, WatchExit, Deadline, Arbitrate, Grace, KillLeader,
              ObserveExit, Await, Drain, ReapLeader, ProveGone

-----------------------------------------------------------------------------
(* The inductive invariant *)

TeardownInv ==
  /\ TableOK /\ IdsOK /\ AimOK /\ HeldOK /\ HomeOK
  /\ OnlyProfileSignalled /\ GroupSignalsStayHome

LEMMA InitInv == Init => TeardownInv
<1> SUFFICES ASSUME Init PROVE TeardownInv
  OBVIOUS
<1>1. ASSUME NEW pid \in Pid, Exists(pid)
      PROVE  /\ proc[pid] \in ProcessType /\ proc[pid].gen = 0 /\ ~proc[pid].kin /\ ~proc[pid].doomed
             /\ proc[pid].cmd = "profile" => proc[pid].was
  <2>1. PICK cmd \in [Pid -> {None, "profile", "other"}] :
          proc = [p \in Pid |-> IF cmd[p] = None THEN None
                                 ELSE [Process(p, cmd[p], FALSE, FALSE) EXCEPT !.gen = 0]]
    BY DEF Init, ProcInit
  <2> DEFINE r == [Process(pid, cmd[pid], FALSE, FALSE) EXCEPT !.gen = 0]
  <2>2. proc[pid] = r /\ cmd[pid] \in {"profile", "other"}
    BY <1>1, <2>1 DEF Exists
  <2>3. /\ r \in ProcessType /\ r.gen = 0 /\ r.kin = FALSE /\ r.doomed = FALSE
        /\ r.cmd = cmd[pid] /\ r.was = (cmd[pid] = "profile")
    BY <2>2 DEF Process, ProcessType
  <2> HIDE DEF r
  <2>4. QED
    BY <2>2, <2>3
<1>2. TableOK
  <2>1. spawned = 1 /\ proc = [pid \in Pid |-> proc[pid]]
    BY DEF Init, ProcInit
  <2>2. proc \in [Pid -> {None} \cup ProcessType]
    BY <1>1, <2>1 DEF Exists
  <2>3. QED
    BY <1>1, <2>1, <2>2 DEF TableOK
<1>3. NoKin
  BY <1>1 DEF NoKin
<1>4. HeldOK
  BY <1>1 DEF HeldOK, Init, ReaperInit, Running
<1>5. IdsOK /\ AimOK /\ HomeOK
  BY <1>3, ResultAssumption DEF Init, ReaperInit, SupervisorInit, IdsOK, AimOK, HomeOK, Unreaped
<1>6. QED
  BY <1>2, <1>4, <1>5 DEF TeardownInv, Init, ReaperInit, SupervisorInit, OnlyProfileSignalled, GroupSignalsStayHome

LEMMA NextInv == TeardownInv /\ [Next]_vars => TeardownInv'
<1> SUFFICES ASSUME TeardownInv, [Next]_vars PROVE TeardownInv'
  OBVIOUS
<1> USE DEF TeardownInv
<1>0. exact' = exact /\ limited' = limited
  BY DEF Next, vars, settings
<1>1. ASSUME TableOK', KernelMoves, UNCHANGED <<reaper, supervisor>> PROVE TeardownInv'
  <2>1. IdsOK' /\ AimOK' /\ HeldOK' /\ HomeOK'
    BY <1>0, <1>1, AimStays, HeldStays, OthersKeepHome DEF KernelMoves
  <2>2. QED
    BY <1>0, <1>1, <2>1 DEF OnlyProfileSignalled, GroupSignalsStayHome, reaper, supervisor
<1>2. CASE BeginReap
  <2>1. /\ TableOK' /\ Moves /\ KeepsChildren
        /\ \A pid \in Pid : Exists(pid)' => proc'[pid].doomed = FALSE
    BY <1>2, StartReapStep DEF BeginReap
  <2>2. HomeOK'
    BY <1>0, <1>2, <2>1, OthersKeepHome DEF BeginReap
  <2>3. /\ rpc = "idle" /\ rpc' = "list" /\ survivors' = {} /\ ids' = ids /\ todo' = todo
        /\ UNCHANGED <<astray, strays>>
    BY <1>2 DEF BeginReap, StartReap, capture, supervisor
  <2>4. IdsOK' /\ AimOK'
    BY <2>1, <2>3, KnownStays DEF IdsOK, AimOK
  <2>5. HeldOK'
    BY <2>1, <2>3 DEF HeldOK, Running
  <2>6. QED
    BY <1>0, <2>1, <2>2, <2>3, <2>4, <2>5 DEF OnlyProfileSignalled, GroupSignalsStayHome
<1>3. CASE ReapReturns
  <2>1. UNCHANGED kernel /\ UNCHANGED supervisor /\ UNCHANGED <<ids, todo, survivors, astray>>
    BY <1>3 DEF ReapReturns, capture
  <2>2. TableOK' /\ KernelMoves
    BY <2>1, IdleStep
  <2>3. rpc \in {"ok", "error"} /\ (rpc' = rpc \/ (rpc = "ok" /\ rpc' = "idle"))
    BY <1>3 DEF ReapReturns
  <2>4. IdsOK' /\ AimOK'
    BY <2>1, <2>2, <2>3, KnownStays DEF IdsOK, AimOK, KernelMoves
  <2>5. HeldOK'
    BY <2>1, <2>2, <2>3, ListedStays DEF HeldOK, Held, KernelMoves
  <2>6. HomeOK'
    BY <1>0, <2>1, <2>2, OthersKeepHome DEF KernelMoves
  <2>7. QED
    BY <1>0, <2>1, <2>2, <2>4, <2>5, <2>6 DEF OnlyProfileSignalled, GroupSignalsStayHome, supervisor
<1>4. ASSUME NEW p \in Pid, Start(p), spc = "idle", limited, UNCHANGED reaper PROVE TeardownInv'
  <2>1. /\ TableOK' /\ Moves /\ KeepsListed /\ Born(p)
        /\ proc'[p].group = p /\ proc'[p].kin = TRUE /\ proc'[p].child = TRUE
        /\ \A pid \in Pid : pid # p => proc'[pid] = proc[pid]
    BY <1>4, StartStep
  <2>2. IdsOK' /\ AimOK' /\ HeldOK'
    BY <1>0, <1>4, <2>1, AimStays, HeldStays
  <2>3. spc' = "capture" /\ leader'.pid = p /\ result' = result /\ strays' = strays
    BY <1>4 DEF Start, Go
  <2>4. AtHome'
    <3>1. NoKin /\ Free(p)
      BY <1>4, <2>1 DEF HomeOK, Born
    <3>2. ASSUME NEW pid \in Pid, Exists(pid)' PROVE proc'[pid].kin <=> proc'[pid].group = p
      <4>1. CASE pid = p
        BY <2>1, <4>1
      <4>2. CASE pid # p
        BY <2>1, <3>1, <3>2, <4>2 DEF NoKin, Free, InGroup, Exists
      <4>3. QED
        BY <4>1, <4>2
    <3>3. QED
      BY <2>1, <2>3, <3>2 DEF AtHome, Born, Exists
  <2>5. Known(leader)'
    BY <1>4, <2>1 DEF Start, Born, Known, IdentityType, TableOK
  <2>6. HomeOK'
    BY <1>0, <1>4, <2>3, <2>4, <2>5 DEF HomeOK, Unreaped
  <2>7. QED
    BY <1>0, <1>4, <2>1, <2>6, <2>2, <2>3, <2>5 DEF OnlyProfileSignalled, GroupSignalsStayHome, reaper
<1>5. ASSUME StartFails, spc = "idle", UNCHANGED reaper PROVE TeardownInv'
  <2>1. UNCHANGED kernel /\ spc' = "done" /\ result' = "error" /\ strays' = strays
    BY <1>5 DEF StartFails, Finish
  <2>2. TableOK' /\ KernelMoves
    BY <2>1, IdleStep
  <2>3. IdsOK' /\ AimOK' /\ HeldOK'
    BY <1>0, <1>5, <2>2, AimStays, HeldStays DEF KernelMoves
  <2>4. HomeOK'
    BY <2>1 DEF HomeOK, Unreaped
  <2>5. QED
    BY <1>0, <1>5, <2>1, <2>2, <2>3, <2>4 DEF OnlyProfileSignalled, GroupSignalsStayHome, reaper
<1>6. ASSUME NEW p \in Pid, StartBare(p), spc = "idle", ~limited, UNCHANGED reaper PROVE TeardownInv'
  <2>1. TableOK' /\ Moves /\ KeepsListed
    BY <1>6, StartBareStep
  <2>2. IdsOK' /\ AimOK' /\ HeldOK'
    BY <1>0, <1>6, <2>1, AimStays, HeldStays
  <2>3. spc' = "bare" /\ result' = result /\ strays' = strays
    BY <1>6 DEF StartBare, Go
  <2>4. Known(leader)'
    BY <1>6 DEF StartBare, Spawn, Known, IdentityType, TableOK
  <2>5. HomeOK'
    BY <1>0, <1>6, <2>3, <2>4 DEF HomeOK, Unreaped
  <2>6. QED
    BY <1>0, <1>6, <2>1, <2>2, <2>3, <2>5 DEF OnlyProfileSignalled, GroupSignalsStayHome, reaper
<1>7. CASE BeginDelete
  BY <1>4, <1>5, <1>6, <1>7 DEF BeginDelete
<1>8. CASE DeleteReturns \/ RemoveState \/ UNCHANGED vars
  <2>1. UNCHANGED kernel /\ UNCHANGED <<reaper, supervisor>>
    BY <1>8 DEF DeleteReturns, RemoveState, vars
  <2>2. QED
    BY <1>1, <2>1, IdleStep
<1>9. CASE Reap /\ UNCHANGED <<supervisor, tpc>>
  <2>1. IdsOK' /\ AimOK' /\ HeldOK'
    BY <1>0, <1>9, ReapKeepsIds, ReapKeepsAim, ReapKeepsHeld
  <2>2. TableOK' /\ Moves /\ KeepsChildren
    BY <1>9, ListStep, OtherReapStep DEF KernelMoves
  <2>3. HomeOK'
    BY <1>0, <1>9, <2>2, OthersKeepHome
  <2>4. OnlyProfileSignalled'
    <3>1. CASE Send
      <4>1. \A pid \in {p \in Addressee : ~proc[p].was} : ~exact /\ proc[pid].gen >= seen
        BY <3>1, SendHits DEF Send
      <4>2. astray' = astray \cup {proc[pid].gen >= seen : pid \in {p \in Addressee : ~proc[p].was}}
        BY <3>1 DEF Send
      <4>3. QED
        BY <1>0, <4>1, <4>2 DEF OnlyProfileSignalled
    <3>2. QED
      BY <1>0, <1>9, <3>1 DEF Reap, List, Identify, Relist, Recheck, Captured, OpenSignal, MatchFirst, MatchAgain,
                        FindListed, Poll, PollsEnd, ReapFails, OnlyProfileSignalled
  <2>5. QED
    BY <1>9, <2>1, <2>2, <2>3, <2>4 DEF OnlyProfileSignalled, GroupSignalsStayHome, supervisor
<1>10. CASE Supervise /\ UNCHANGED <<reaper, tpc>>
  <2>1. HomeOK' /\ strays' = {}
    BY <1>0, <1>10, SuperviseKeepsHome, SuperviseStaysHome DEF GroupSignalsStayHome
  <2>2. TableOK' /\ Moves /\ KeepsListed
    <3>1. CASE ReapLeader
      BY <3>1, ReapLeaderStep DEF ReapLeader
    <3>2. CASE WaitBare
      BY <3>2, ReapLeaderStep, IdleStep DEF WaitBare, KernelMoves, kernel
    <3>3. QED
      BY <1>10, <3>1, <3>2, OtherSuperviseStep DEF KernelMoves
  <2>3. IdsOK' /\ AimOK' /\ HeldOK'
    BY <1>0, <1>10, <2>2, AimStays, HeldStays
  <2>4. QED
    BY <1>0, <1>10, <2>1, <2>2, <2>3 DEF OnlyProfileSignalled, GroupSignalsStayHome, reaper
<1>11. CASE Kernel /\ UNCHANGED <<reaper, supervisor, tpc>>
  BY <1>1, <1>11, KernelStep
<1>12. QED
  BY <1>2, <1>3, <1>7, <1>8, <1>9, <1>10, <1>11 DEF Next, Teardown

LEMMA InvHolds == Spec => []TeardownInv
BY InitInv, NextInv, PTL DEF Spec

-----------------------------------------------------------------------------
(* The theorems *)

\* The process table stays well-formed, whatever processes come and go: no start time
\* lies in the future, so none is ever used twice (the kernel that the reaper relies on).
THEOREM TableCorrect == Spec => []TableOK
BY InvHolds, PTL DEF TeardownInv

\* However many pids are reused between the looks of signalCurrentProcessIdentity, the
\* reaper signals only processes that ran a command of the profile; on a host without
\* exact handles, also one that got the pid after the second look at its generation.
THEOREM SignalsOnlyTheProfile == Spec => []OnlyProfileSignalled
BY InvHolds, PTL DEF TeardownInv

\* A group signal of stopStartedCommand reaches only the group that the command was
\* started in: the unreaped leader keeps its number from being used again.
THEOREM GroupSignalsAreSafe == Spec => []GroupSignalsStayHome
BY InvHolds, PTL DEF TeardownInv

\* When ReapColimaProfileProcesses succeeds, no process runs that one of its captures
\* listed first, whatever command it runs by then.
THEOREM ReapedProcessesAreDead == Spec => []ReapedMeansDead
<1>1. TeardownInv => ReapedMeansDead
  BY DEF TeardownInv, HeldOK, Held, ReapedMeansDead
<1>2. QED
  BY <1>1, InvHolds, PTL

\* When RunHostColimaWithTimeout reports a status or a timeout, the command is reaped;
\* if it had a timeout, the group that it was started in is empty, and stays so; if it
\* had none, no timeout is ever reported.
THEOREM ReportedGroupIsGone == Spec => []ReportedMeansGone
<1>1. TeardownInv => ReportedMeansGone
  BY DEF TeardownInv, HomeOK, NoKin, ReportedMeansGone
<1>2. QED
  BY <1>1, InvHolds, PTL
=============================================================================
