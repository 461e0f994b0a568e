------------------------ MODULE RetrievalDaemonProofs ------------------------
(* Who may have the port and what the lock file may name, for any number of   *)
(* daemons, agents, operators and kills.                                      *)
EXTENDS RetrievalDaemon, TLAPS

\* The lock is held exactly by the one process that is past it.
HolderIsPastLock == \A p \in Procs : p \in PastLock <=> holder = p

\* OneDaemon alone is not inductive: a process gets past the lock because nobody
\* holds it, which says nothing of the others unless those past it hold it.
DInv == TypeOK /\ HolderIsPastLock /\ PidIsHolderOrDead

LEMMA NamesDiffer == Nobody \notin Procs /\ Absent \notin Procs /\ Empty \notin Procs
  BY NamesAssumption

LEMMA DInit == Init => DInv
  BY NamesDiffer, LimitsAssumption
  DEF Init, DInv, TypeOK, HolderIsPastLock, PastLock, PidIsHolderOrDead, ProcStates, AgentStates

------------------------------------------------------------------------------
\* Types.

\* The log of a pipe that is not full stays within the pipe.
LEMMA LogTyped ==
  ASSUME TypeOK, NEW p \in Procs, ~PipeFull(p), Log(p)
  PROVE  log' \in [Procs -> 0 .. PipeSize]
  BY LimitsAssumption DEF TypeOK, PipeFull, Log

LEMMA ClosePipesTyped ==
  ASSUME TypeOK, NEW P, ClosePipes(P)
  PROVE  /\ starter' \in [Procs -> Agents \cup {Nobody}]
         /\ log' \in [Procs -> 0 .. PipeSize]
         /\ blocked' \in SUBSET Procs
  BY LimitsAssumption DEF TypeOK, ClosePipes

LEMMA ProcTyped ==
  ASSUME TypeOK, NEW p \in Procs, StartByHand(p) \/ ProcStep(p) \/ Kill(p)
  PROVE  TypeOK'
  <1>1. CASE StartByHand(p)
    BY <1>1 DEF StartByHand, ProcTo, TypeOK, ProcStates, fileVars, pipeVars, agentVars
  <1>2. CASE Open(p)
    BY <1>2 DEF Open, FileAfterOpen, ProcTo, TypeOK, ProcStates, pipeVars, agentVars
  <1>3. CASE TryLock(p)
    BY <1>3, ClosePipesTyped
    DEF TryLock, GivesWay, ProcTo, TypeOK, ProcStates, pipeVars, agentVars
  <1>4. CASE WritePid(p)
    BY <1>4 DEF WritePid, ProcTo, TypeOK, ProcStates, pipeVars, agentVars
  <1>5. CASE Load(p) \/ LoadLogs(p)
    BY <1>5, LogTyped DEF Load, LoadLogs, ProcTo, TypeOK, ProcStates, fileVars, agentVars
  <1>6. CASE LoadFails(p) \/ Exit(p) \/ Kill(p)
    BY <1>6, ClosePipesTyped DEF LoadFails, Exit, Kill, Die, ProcTo, TypeOK, ProcStates, agentVars
  <1> QED
    BY <1>1, <1>2, <1>3, <1>4, <1>5, <1>6 DEF ProcStep

LEMMA AgentTyped ==
  ASSUME TypeOK, NEW a \in Agents, StartupStep(a) \/ Ask(a) \/ End(a)
  PROVE  TypeOK'
  <1> USE DEF TypeOK, AgentTo, AgentStates, fileVars, pipeVars
  <1>1. CASE CheckHealth(a)
    BY <1>1 DEF CheckHealth
  <1>2. CASE Spawn(a)
    BY <1>2 DEF Spawn, ProcTo, ProcStates
  <1>3. CASE WaitForChild(a)
    BY <1>3 DEF WaitForChild
  <1>4. CASE Poll(a)
    BY <1>4, LimitsAssumption DEF Poll, OutOfPolls
  <1>5. CASE Boot(a)
    BY <1>5 DEF Boot
  <1>6. ASSUME NEW p \in Procs, Embed(a, p) PROVE TypeOK'
    BY <1>6, LogTyped DEF Embed, agentVars
  <1>7. ASSUME NEW p \in Procs, EmbedBlocks(a, p) PROVE TypeOK'
    BY <1>7 DEF EmbedBlocks, agentVars
  <1>8. CASE End(a)
    BY <1>8, ClosePipesTyped DEF End
  <1> QED
    BY <1>1, <1>2, <1>3, <1>4, <1>5, <1>6, <1>7, <1>8 DEF StartupStep, Ask

LEMMA Typed == ASSUME TypeOK, [Next]_vars PROVE TypeOK'
  <1>1. CASE Stop
    BY <1>1 DEF Stop, ProcTo, TypeOK, ProcStates, fileVars, pipeVars, agentVars
  <1>2. CASE UNCHANGED vars
    BY <1>2 DEF vars, TypeOK, fileVars, pipeVars, agentVars
  <1> QED
    BY <1>1, <1>2, ProcTyped, AgentTyped DEF Next

------------------------------------------------------------------------------
\* The lock.

LEMMA ProcKeepsLock ==
  ASSUME DInv, NEW p \in Procs, StartByHand(p) \/ ProcStep(p) \/ Kill(p)
  PROVE  HolderIsPastLock' /\ PidIsHolderOrDead'
  <1> USE NamesDiffer DEF DInv, TypeOK, HolderIsPastLock, PidIsHolderOrDead, PastLock, ProcTo
  <1>1. CASE StartByHand(p)
    BY <1>1 DEF StartByHand, fileVars
  <1>2. CASE Open(p)
    BY <1>2 DEF Open, FileAfterOpen
  <1>3. CASE TryLock(p)
    BY <1>3 DEF TryLock, LockIsFree, GivesWay
  <1>4. CASE WritePid(p)
    BY <1>4 DEF WritePid
  <1>5. CASE Load(p) \/ LoadLogs(p)
    BY <1>5 DEF Load, LoadLogs, fileVars
  <1>6. CASE LoadFails(p) \/ Exit(p) \/ Kill(p)
    BY <1>6 DEF LoadFails, Exit, Kill, Die
  <1> QED
    BY <1>1, <1>2, <1>3, <1>4, <1>5, <1>6 DEF ProcStep

\* An agent touches the processes only by starting one.
LEMMA AgentKeepsLock ==
  ASSUME DInv, NEW a \in Agents, StartupStep(a) \/ Ask(a) \/ End(a)
  PROVE  HolderIsPastLock' /\ PidIsHolderOrDead'
  <1> USE DEF DInv, HolderIsPastLock, PidIsHolderOrDead, PastLock
  <1>1. CASE Spawn(a)
    BY <1>1 DEF Spawn, ProcTo, TypeOK, fileVars
  <1>2. CASE CheckHealth(a) \/ WaitForChild(a) \/ Poll(a) \/ Boot(a) \/ Ask(a) \/ End(a)
    <2>1. UNCHANGED <<proc, lockFile, holder>>
      BY <1>2 DEF CheckHealth, WaitForChild, Poll, Boot, Ask, Embed, EmbedBlocks, End, fileVars
    <2> QED
      BY <2>1
  <1> QED
    BY <1>1, <1>2 DEF StartupStep

LEMMA DStep == ASSUME DInv, [Next]_vars PROVE DInv'
  <1>1. TypeOK'
    BY Typed DEF DInv
  <1>2. CASE Stop
    BY <1>1, <1>2
    DEF Stop, ProcTo, DInv, TypeOK, HolderIsPastLock, PastLock, PidIsHolderOrDead, fileVars
  <1>3. CASE UNCHANGED vars
    BY <1>1, <1>3
    DEF vars, DInv, HolderIsPastLock, PastLock, PidIsHolderOrDead, fileVars
  <1> QED
    BY <1>1, <1>2, <1>3, ProcKeepsLock, AgentKeepsLock DEF DInv, Next

\* The inductive invariant, for every number of processes and agents.
THEOREM DaemonInvariant == Spec => []DInv
  BY DInit, DStep, PTL DEF Spec

\* Types; polls and lines of log stay within their limits.
THEOREM DaemonTypeCorrect == Spec => []TypeOK
  BY DaemonInvariant, PTL DEF DInv

\* At most one daemon is past the lock, whoever starts, stops or kills them.
THEOREM AtMostOneDaemon == Spec => []OneDaemon
  <1>1. DInv => OneDaemon
    BY DEF DInv, HolderIsPastLock, OneDaemon, PastLock
  <1> QED
    BY <1>1, DaemonInvariant, PTL

\* The pid in the lock file is that of the holder or of a process that has ended:
\* a stop never signals a living daemon process but the one with the lock.
THEOREM PidTrue == Spec => []PidIsHolderOrDead
  BY DaemonInvariant, PTL DEF DInv

\* A start that is not killed ends before it has the lock only because somebody
\* holds it, and who holds it lives.
THEOREM NothingDeadKeepsOut == Spec => GivesWayToTheLiving
  <1> DEFINE Gives(p) == proc[p] = "opened" /\ proc'[p] = "dead" /\ p \notin failed'
  <1>1. ASSUME DInv, Next, NEW p \in Procs, Gives(p)
        PROVE  PastLock # {}
    <2> USE <1>1 DEF DInv, TypeOK
    <2>1. CASE TryLock(p)
      <3>1. holder \in Procs
        BY <2>1 DEF TryLock, LockIsFree, ProcTo
      <3> QED
        BY <3>1 DEF HolderIsPastLock
    <2>2. ~Kill(p) /\ ~LoadFails(p) /\ ~Exit(p)
      BY DEF Kill, LoadFails, Exit
    <2>3. CASE Open(p) \/ WritePid(p) \/ LoadLogs(p) \/ Load(p) \/ StartByHand(p)
      BY <2>3 DEF Open, WritePid, LoadLogs, Load, StartByHand
    <2>4. ASSUME NEW q \in Procs \ {p}, StartByHand(q) \/ ProcStep(q) \/ Kill(q)
          PROVE  FALSE
      BY <2>4
      DEF StartByHand, ProcStep, Kill, Open, TryLock, GivesWay, WritePid, LoadLogs, Load,
          LoadFails, Exit, Die, ProcTo
    <2>5. ~Stop
      BY DEF Stop, ProcTo
    <2>6. ASSUME NEW a \in Agents, StartupStep(a) \/ Ask(a) \/ End(a)
          PROVE  FALSE
      BY <2>6
      DEF StartupStep, CheckHealth, Spawn, WaitForChild, Poll, Boot, Ask, Embed, EmbedBlocks,
          End, ProcTo
    <2> QED
      BY <2>1, <2>2, <2>3, <2>4, <2>5, <2>6 DEF Next, ProcStep
  <1>2. DInv /\ [Next]_vars => [\A p \in Procs : Gives(p) => PastLock # {}]_vars
    BY <1>1 DEF vars
  <1> QED
    BY <1>2, DaemonInvariant, PTL DEF Spec, GivesWayToTheLiving

------------------------------------------------------------------------------
\* How long a startup can take.

\* What an agent that comes up, and a daemon before it serves, have left to do.
StartupLeft(a) ==
  CASE agent[a] = "idle" -> MaxPolls + 4
    [] agent[a] = "spawned" -> MaxPolls + 3
    [] agent[a] = "polling" -> MaxPolls - polls[a] + 2
    [] agent[a] = "booting" -> 1
    [] OTHER -> 0
LoadLeft(p) ==
  CASE proc[p] = "unborn" -> PipeSize + 5
    [] proc[p] = "born" -> PipeSize + 4
    [] proc[p] = "opened" -> PipeSize + 3
    [] proc[p] = "locked" -> PipeSize + 2
    [] proc[p] = "loading" -> IF Piped(p) THEN PipeSize - log[p] + 1 ELSE 1
    [] OTHER -> 0

\* Nothing that any process does gives an agent or a daemon more to do, and each
\* step of its own uses some of it up.
AgentStepCounts ==
  \A a \in Agents :
    /\ StartupLeft(a)' <= StartupLeft(a)
    /\ StartupStep(a) => StartupLeft(a)' < StartupLeft(a)
ProcStepCounts ==
  \A p \in Procs :
    /\ LoadLeft(p)' <= LoadLeft(p)
    /\ ProcStep(p) /\ proc[p] # "stopping" => LoadLeft(p)' < LoadLeft(p)
StartupCounts == [][AgentStepCounts /\ ProcStepCounts]_vars

LEMMA AgentCounts ==
  ASSUME TypeOK, Next
  PROVE  AgentStepCounts
  <1> USE DEF TypeOK
  <1>1. MaxPolls \in Nat
    BY LimitsAssumption
  <1>2. SUFFICES ASSUME NEW a \in Agents
                 PROVE  /\ StartupLeft(a)' <= StartupLeft(a)
                        /\ StartupStep(a) => StartupLeft(a)' < StartupLeft(a)
    BY DEF AgentStepCounts
  <1>3. agent[a] \in AgentStates /\ polls[a] \in 0 .. MaxPolls
    OBVIOUS
  <1>4. StartupLeft(a) \in Nat
    BY <1>1, <1>3 DEF StartupLeft
  <1>5. CASE StartupStep(a)
    <2>1. CASE CheckHealth(a) \/ Spawn(a) \/ WaitForChild(a)
      BY <1>1, <1>3, <2>1 DEF CheckHealth, Spawn, WaitForChild, AgentTo, StartupLeft
    <2>2. CASE Poll(a)
      BY <1>1, <1>3, <2>2 DEF Poll, OutOfPolls, AgentTo, StartupLeft
    <2>3. CASE Boot(a)
      BY <1>1, <1>3, <2>3 DEF Boot, AgentTo, StartupLeft
    <2> QED
      BY <1>4, <1>5, <2>1, <2>2, <2>3 DEF StartupStep
  <1>6. CASE agent'[a] = agent[a] /\ polls'[a] = polls[a]
    <2>1. StartupLeft(a)' = StartupLeft(a)
      BY <1>6 DEF StartupLeft
    <2> QED
      BY <1>4, <1>5, <2>1
  <1>7. CASE End(a)
    BY <1>1, <1>3, <1>5, <1>7 DEF End, AgentTo, StartupLeft
  <1>8. ASSUME NEW b \in Agents \ {a}, StartupStep(b) \/ End(b)
        PROVE  agent'[a] = agent[a] /\ polls'[a] = polls[a]
    BY <1>8 DEF StartupStep, CheckHealth, Spawn, WaitForChild, Poll, Boot, End, AgentTo
  <1>9. ASSUME NEW b \in Agents, Ask(b)
        PROVE  agent' = agent /\ polls' = polls
    BY <1>9 DEF Ask, Embed, EmbedBlocks, agentVars
  <1>10. ASSUME Stop \/ \E p \in Procs : StartByHand(p) \/ ProcStep(p) \/ Kill(p)
         PROVE  agent' = agent /\ polls' = polls
    BY <1>10
    DEF Stop, StartByHand, ProcStep, Kill, Open, TryLock, WritePid, LoadLogs, Load, LoadFails,
        Exit, agentVars
  <1> QED
    BY <1>5, <1>6, <1>7, <1>8, <1>9, <1>10 DEF Next

\* What others do to a daemon that loads: nothing, or they close its pipe.
PipeKept(p) == (starter'[p] = starter[p] /\ log'[p] = log[p]) \/ ~Piped(p)'

\* The ways in which p is left by those that take no step of its own.
OthersLeave(p) ==
  \/ proc'[p] = proc[p] /\ (PipeKept(p) \/ proc[p] # "loading")
  \/ proc'[p] = "dead"
  \/ proc[p] = "unborn" /\ proc'[p] = "born"
  \/ proc[p] \in {"loading", "serving"} /\ proc'[p] = "stopping"

LEMMA OthersCount ==
  ASSUME TypeOK, NEW p \in Procs, OthersLeave(p)
  PROVE  LoadLeft(p)' <= LoadLeft(p)
  <1>1. PipeSize \in Nat /\ proc[p] \in ProcStates /\ log[p] \in 0 .. PipeSize
    BY LimitsAssumption DEF TypeOK
  <1>2. CASE proc[p] = "loading" /\ proc'[p] = "loading" /\ PipeKept(p)
    BY <1>1, <1>2 DEF LoadLeft, PipeKept, Piped
  <1>3. CASE proc[p] # "loading" /\ proc'[p] = proc[p]
    BY <1>1, <1>3 DEF LoadLeft, ProcStates
  <1>4. CASE proc'[p] \in {"dead", "stopping"}
    BY <1>1, <1>4 DEF LoadLeft
  <1>5. CASE proc[p] = "unborn" /\ proc'[p] = "born"
    BY <1>1, <1>5 DEF LoadLeft
  <1> QED
    BY <1>2, <1>3, <1>4, <1>5 DEF OthersLeave

LEMMA OwnStepCounts ==
  ASSUME TypeOK, NEW p \in Procs, ProcStep(p), proc[p] # "stopping"
  PROVE  LoadLeft(p)' < LoadLeft(p)
  <1>1. PipeSize \in Nat /\ proc[p] \in ProcStates /\ log[p] \in 0 .. PipeSize
    BY LimitsAssumption DEF TypeOK
  <1>2. CASE Open(p) \/ TryLock(p)
    BY <1>1, <1>2 DEF Open, TryLock, GivesWay, ProcTo, LoadLeft, TypeOK
  <1>3. CASE WritePid(p)
    <2>1. proc[p] = "locked" /\ proc'[p] = "loading" /\ log'[p] = log[p]
      BY <1>3 DEF WritePid, ProcTo, TypeOK, pipeVars
    <2> QED
      BY <1>1, <2>1 DEF LoadLeft
  <1>4. CASE LoadLogs(p)
    <2>1. /\ proc[p] = "loading" /\ proc' = proc /\ starter' = starter
          /\ Piped(p) /\ log'[p] = log[p] + 1
      BY <1>4 DEF LoadLogs, Log, TypeOK
    <2> QED
      BY <1>1, <2>1 DEF LoadLeft, Piped
  <1>5. CASE Load(p) \/ LoadFails(p)
    <2>1. proc[p] = "loading" /\ proc'[p] \in {"serving", "dead"}
      BY <1>5 DEF Load, LoadFails, Die, ProcTo, TypeOK
    <2> QED
      BY <1>1, <2>1 DEF LoadLeft
  <1> QED
    BY <1>2, <1>3, <1>4, <1>5 DEF ProcStep, Exit

LEMMA ProcCounts ==
  ASSUME TypeOK, Next
  PROVE  ProcStepCounts
  <1> USE DEF TypeOK
  <1>1. SUFFICES ASSUME NEW p \in Procs
                 PROVE  /\ LoadLeft(p)' <= LoadLeft(p)
                        /\ ProcStep(p) /\ proc[p] # "stopping" => LoadLeft(p)' < LoadLeft(p)
    BY DEF ProcStepCounts
  <1>2. LoadLeft(p) \in Nat
    BY LimitsAssumption DEF LoadLeft
  <1>3. CASE ProcStep(p)
    <2>1. CASE proc[p] # "stopping"
      <3>1. LoadLeft(p)' < LoadLeft(p)
        BY <1>3, <2>1, OwnStepCounts
      <3>2. LoadLeft(p)' \in Nat
        <4>1. log'[p] \in 0 .. PipeSize
          BY Typed
        <4> QED
          BY <4>1, LimitsAssumption DEF LoadLeft
      <3> QED
        BY <1>2, <3>1, <3>2
    <2>2. CASE proc[p] = "stopping"
      <3>1. proc'[p] = "dead"
        BY <1>3, <2>2
        DEF ProcStep, Open, TryLock, WritePid, LoadLogs, Load, LoadFails, Exit, Die, ProcTo
      <3> QED
        BY <2>2, <3>1, OthersCount DEF OthersLeave
    <2> QED
      BY <2>1, <2>2
  <1>4. ASSUME NEW q \in Procs, StartByHand(q) \/ Kill(q)
        PROVE  OthersLeave(p)
    BY <1>4 DEF StartByHand, Kill, Die, ProcTo, ClosePipes, OthersLeave, PipeKept, pipeVars
  <1>5. ASSUME NEW q \in Procs \ {p}, ProcStep(q)
        PROVE  OthersLeave(p)
    BY <1>5
    DEF ProcStep, Open, TryLock, GivesWay, WritePid, LoadLogs, Log, Load, LoadFails, Exit, Die,
        ProcTo, ClosePipes, OthersLeave, PipeKept, pipeVars
  <1>6. ASSUME Stop
        PROVE  OthersLeave(p)
    BY <1>6 DEF Stop, ProcTo, OthersLeave, PipeKept, pipeVars
  <1>7. ASSUME NEW a \in Agents, Spawn(a)
        PROVE  OthersLeave(p)
    <2>1. PICK q \in Procs : /\ proc[q] = "unborn" /\ ProcTo(q, "born")
                             /\ starter' = [starter EXCEPT ![q] = a] /\ log' = log
      BY <1>7 DEF Spawn
    <2> QED
      BY <2>1 DEF ProcTo, OthersLeave, PipeKept
  <1>8. ASSUME NEW a \in Agents, StartupStep(a), ~Spawn(a)
        PROVE  OthersLeave(p)
    BY <1>8
    DEF StartupStep, CheckHealth, WaitForChild, Poll, Boot, OthersLeave, PipeKept, pipeVars
  <1>9. ASSUME NEW a \in Agents, Ask(a)
        PROVE  OthersLeave(p)
    <2>1. PICK q \in Procs : Embed(a, q) \/ EmbedBlocks(a, q)
      BY <1>9 DEF Ask
    <2> QED
      BY <2>1 DEF Embed, EmbedBlocks, Asks, Serving, Log, OthersLeave, PipeKept
  <1>10. ASSUME NEW a \in Agents, End(a)
         PROVE  OthersLeave(p)
    <2>1. PipeKept(p)
      <3>1. CASE starter[p] = a
        BY <1>10, <3>1 DEF End, ClosePipes, PipeKept, Piped
      <3>2. CASE starter[p] # a
        BY <1>10, <3>2 DEF End, ClosePipes, PipeKept
      <3> QED
        BY <3>1, <3>2
    <2> QED
      BY <1>10, <2>1 DEF End, OthersLeave
  <1>11. ProcStep(p) \/ OthersLeave(p)
    BY <1>4, <1>5, <1>6, <1>7, <1>8, <1>9, <1>10 DEF Next
  <1> QED
    BY <1>3, <1>11, OthersCount

\* An agent is up after at most MaxPolls + 4 steps of its own, whatever its daemon
\* does.  A daemon takes at most PipeSize + 4 until it serves or has ended, each line
\* it can write while it loads counted as one, whatever the others start, stop and
\* kill; before that nothing but a full pipe can keep it from its next step.
THEOREM StartupIsBounded == Spec => StartupCounts
  <1>1. DInv /\ [Next]_vars => [AgentStepCounts /\ ProcStepCounts]_vars
    BY AgentCounts, ProcCounts DEF DInv
  <1> QED
    BY <1>1, DaemonInvariant, PTL DEF Spec, StartupCounts
==============================================================================
