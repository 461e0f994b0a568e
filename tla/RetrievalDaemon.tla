---------------------------- MODULE RetrievalDaemon ----------------------------
(***************************************************************************)
(* The life of the retrieval daemon (scripts/retrieval_daemon.py) and the  *)
(* agents that start it (config/startup.py) and use it (daemon_client.py,  *)
(* daemon_embed.py).                                                       *)
(*                                                                         *)
(* A daemon process opens the lock file for writing, which empties it,     *)
(* then tries the lock, then writes its pid; --stop reads the pid from the *)
(* file.  An agent that finds no daemon with a model starts one, waits for *)
(* it a while, and keeps what /health said for the rest of its life.  The  *)
(* standard error of a daemon started by an agent is a pipe nobody reads:  *)
(* who writes to it when it is full waits until that agent ends.           *)
(*                                                                         *)
(* External: the operating system (the lock is released when its holder    *)
(* dies, a closed pipe swallows what is written), and uvicorn (serves      *)
(* after the startup handler, closes the port on SIGTERM and then exits).  *)
(***************************************************************************)
EXTENDS Naturals, FiniteSets

CONSTANTS
  Procs,       \* daemon processes, each run at most once
  Agents,      \* agent processes, each run at most once
  Lazy,        \* RETRIEVAL_DAEMON_LAZY_EMBEDDING: load on the first request
  MaxPolls,    \* _DAEMON_START_TIMEOUT polls of /health
  PipeSize     \* lines of log a pipe holds, the first of a process at least

ASSUME LimitsAssumption == MaxPolls \in Nat \ {0} /\ PipeSize \in Nat \ {0}
ASSUME LazyAssumption == Lazy \in BOOLEAN

Absent == "absent"
Empty == "empty"
Nobody == "nobody"
ASSUME NamesAssumption ==
  {Absent, Empty, Nobody} \cap (Procs \cup Agents) = {} /\ Procs \cap Agents = {}

VARIABLES
  proc,        \* where each daemon process is
  lockFile,    \* what the lock file holds
  holder,      \* the process that holds the lock
  loaded,      \* the processes whose embedding model is loaded
  failed,      \* the processes that exited with an error
  starter,     \* the agent at the other end of each process's standard error
  log,         \* lines in that pipe
  blocked,     \* processes with a thread blocked in writing to it
  agent,       \* where each agent is
  child,       \* the process it has started and waits for
  polls,       \* its polls of /health
  route        \* its copy of what /health said about embeddings

fileVars == <<lockFile, holder>>
pipeVars == <<starter, log, blocked>>
agentVars == <<agent, child, polls, route>>
vars == <<proc, fileVars, loaded, failed, pipeVars, agentVars>>

ProcStates == {"unborn", "born", "opened", "locked", "loading", "serving", "stopping", "dead"}
AgentStates == {"idle", "spawned", "polling", "booting", "running", "ended"}

Init ==
  /\ proc = [p \in Procs |-> "unborn"]
  /\ lockFile = Absent /\ holder = Nobody
  /\ loaded = {} /\ failed = {}
  /\ starter = [p \in Procs |-> Nobody] /\ log = [p \in Procs |-> 0] /\ blocked = {}
  /\ agent = [a \in Agents |-> "idle"]
  /\ child = [a \in Agents |-> Nobody]
  /\ polls = [a \in Agents |-> 0]
  /\ route = [a \in Agents |-> "unknown"]

------------------------------------------------------------------------------
\* The pipe of a daemon's standard error.

\* At the other end of the pipe of p is its starter, who reads nothing.
Piped(p) == starter[p] # Nobody
PipeFull(p) == Piped(p) /\ log[p] >= PipeSize

\* A line of log; whoever writes it has tested that it fits.
Log(p) == log' = [log EXCEPT ![p] = IF Piped(p) THEN @ + 1 ELSE @]

\* A pipe without one of its ends holds nothing and blocks nobody.
ClosePipes(P) ==
  /\ starter' = [p \in Procs |-> IF p \in P THEN Nobody ELSE starter[p]]
  /\ log' = [p \in Procs |-> IF p \in P THEN 0 ELSE log[p]]
  /\ blocked' = blocked \ P

------------------------------------------------------------------------------
\* The daemon: main().

ProcTo(p, s) == proc' = [proc EXCEPT ![p] = s]

\* An operator starts one from a shell; its log goes to a file.
StartByHand(p) ==
  /\ proc[p] = "unborn"
  /\ ProcTo(p, "born")
  /\ UNCHANGED <<fileVars, loaded, failed, pipeVars, agentVars>>

FileAfterOpen_Pid(p) == p
\* open(lp, "w") creates or empties the file, before the lock is tried.
FileAfterOpen(p) == Empty

Open(p) ==
  /\ proc[p] = "born"
  /\ ProcTo(p, "opened")
  /\ lockFile' = FileAfterOpen(p)
  /\ UNCHANGED <<holder, loaded, failed, pipeVars, agentVars>>

LockIsFree_Always == TRUE
LockIsFree == holder = Nobody

\* "already running", the one line of this process, and exit code 0.
GivesWay(p) == ProcTo(p, "dead") /\ ClosePipes({p})

\* flock with LOCK_NB.
TryLock(p) ==
  /\ proc[p] = "opened"
  /\ \/ LockIsFree /\ holder' = p /\ ProcTo(p, "locked") /\ UNCHANGED pipeVars
     \/ ~LockIsFree /\ GivesWay(p) /\ UNCHANGED holder
  /\ UNCHANGED <<lockFile, loaded, failed, agentVars>>

WritePid(p) ==
  /\ proc[p] = "locked"
  /\ ProcTo(p, "loading")
  /\ lockFile' = p
  /\ UNCHANGED <<holder, loaded, failed, pipeVars, agentVars>>

\* What the end of a process does: the lock is free if it held it.
Die_KeepsLock(p) ==
  ProcTo(p, "dead") /\ loaded' = loaded \ {p} /\ ClosePipes({p}) /\ UNCHANGED holder
Die(p) ==
  /\ ProcTo(p, "dead")
  /\ holder' = IF holder = p THEN Nobody ELSE holder
  /\ loaded' = loaded \ {p}
  /\ ClosePipes({p})

\* From "flock acquired" to the startup handler: as many lines as the checks, the
\* libraries and the sizes of the memory make.
LoadLogs(p) ==
  /\ proc[p] = "loading" /\ Piped(p) /\ ~PipeFull(p)
  /\ Log(p)
  /\ UNCHANGED <<proc, fileVars, loaded, failed, starter, blocked, agentVars>>

\* load_models: the model unless it is lazy, then the subsystems, then the last
\* line.  A daemon whose model cannot be loaded serves without it.
Load(p) ==
  /\ proc[p] = "loading" /\ ~PipeFull(p)
  /\ ProcTo(p, "serving")
  /\ Log(p)
  /\ loaded' \in {loaded, IF Lazy THEN loaded ELSE loaded \cup {p}}
  /\ UNCHANGED <<fileVars, failed, starter, blocked, agentVars>>

\* A RuntimeError of initialize_subsystems is logged and ends the process.
LoadFails(p) ==
  /\ proc[p] = "loading" /\ ~PipeFull(p)
  /\ Die(p)
  /\ failed' = failed \cup {p}
  /\ UNCHANGED <<lockFile, agentVars>>

\* The port is closed, and the process exits once no thread works and the shutdown
\* is logged.
Exit(p) ==
  /\ proc[p] = "stopping" /\ p \notin blocked /\ ~PipeFull(p)
  /\ Die(p)
  /\ UNCHANGED <<lockFile, failed, agentVars>>

\* A process is killed, or gets SIGTERM before uvicorn has its handler.
Kill(p) ==
  /\ proc[p] \notin {"unborn", "dead"}
  /\ Die(p)
  /\ failed' = failed \cup {p}
  /\ UNCHANGED <<lockFile, agentVars>>

\* _stop_daemon: SIGTERM to the process in the file.  An absent or an empty
\* file, or a dead process, is reported and changes nothing.
Stop ==
  /\ lockFile \in Procs
  /\ proc[lockFile] \in {"loading", "serving"}
  /\ ProcTo(lockFile, "stopping")
  /\ UNCHANGED <<fileVars, loaded, failed, pipeVars, agentVars>>

------------------------------------------------------------------------------
\* The agents.

Serving == {p \in Procs : proc[p] = "serving"}

\* _retrieval_daemon_health wants a loaded model, ...
Ready == Serving \cap loaded # {}
\* ... daemon_client is content with one that loads on demand.
Routable == \E p \in Serving : Lazy \/ p \in loaded

AgentTo(a, s) == agent' = [agent EXCEPT ![a] = s]

\* _ensure_retrieval_daemon_running.
CheckHealth(a) ==
  /\ agent[a] = "idle" /\ Ready
  /\ AgentTo(a, "booting")
  /\ UNCHANGED <<proc, fileVars, loaded, failed, pipeVars, child, polls, route>>

Spawn(a) ==
  /\ agent[a] = "idle" /\ ~Ready
  /\ \E p \in Procs :
       /\ proc[p] = "unborn"
       /\ ProcTo(p, "born")
       /\ starter' = [starter EXCEPT ![p] = a]
       /\ child' = [child EXCEPT ![a] = p]
  /\ AgentTo(a, "spawned")
  /\ UNCHANGED <<fileVars, loaded, failed, log, blocked, polls, route>>

WaitIsOver_NoTimeout(a) == proc[child[a]] = "dead"
\* proc.wait(timeout=5) ends at any time.
WaitIsOver(a) == TRUE

\* An error at once ends the startup, anything else is waited for.
WaitForChild(a) ==
  /\ agent[a] = "spawned" /\ WaitIsOver(a)
  /\ AgentTo(a, IF child[a] \in failed THEN "booting" ELSE "polling")
  /\ child' = [child EXCEPT ![a] = Nobody]
  /\ UNCHANGED <<proc, fileVars, loaded, failed, pipeVars, polls, route>>

OutOfPolls(a) == polls[a] >= MaxPolls

Poll(a) ==
  /\ agent[a] = "polling"
  /\ \/ (Ready \/ OutOfPolls(a)) /\ AgentTo(a, "booting") /\ UNCHANGED polls
     \/ /\ ~Ready /\ ~OutOfPolls(a)
        /\ polls' = [polls EXCEPT ![a] = @ + 1]
        /\ UNCHANGED agent
  /\ UNCHANGED <<proc, fileVars, loaded, failed, pipeVars, child, route>>

\* boot() asks /health once more, and that answer is kept.
Boot(a) ==
  /\ agent[a] = "booting"
  /\ AgentTo(a, "running")
  /\ route' = [route EXCEPT ![a] = IF Routable THEN "daemon" ELSE "local"]
  /\ UNCHANGED <<proc, fileVars, loaded, failed, pipeVars, child, polls>>

\* An agent that was told so asks its daemon for embeddings all its life; when
\* nobody listens it has none, and asks the same way again.
Asks(a, p) == agent[a] = "running" /\ route[a] = "daemon" /\ p \in Serving

\* POST /embed: a line of log, the model if it is lazy and can be loaded, and the
\* answer, which is empty without a model.
Embed(a, p) ==
  /\ Asks(a, p) /\ p \notin blocked /\ ~PipeFull(p)
  /\ Log(p)
  /\ loaded' \in {loaded, IF Lazy THEN loaded \cup {p} ELSE loaded}
  /\ UNCHANGED <<proc, fileVars, failed, starter, blocked, agentVars>>

\* The thread of the request blocks in the log; the agent gives up after 30 s.
EmbedBlocks(a, p) ==
  /\ Asks(a, p) /\ PipeFull(p)
  /\ blocked' = blocked \cup {p}
  /\ UNCHANGED <<proc, fileVars, loaded, failed, starter, log, agentVars>>

\* The agent ends; what its daemon writes from now on is dropped.
End(a) ==
  /\ agent[a] = "running"
  /\ AgentTo(a, "ended")
  /\ ClosePipes({p \in Procs : starter[p] = a})
  /\ UNCHANGED <<proc, fileVars, loaded, failed, child, polls, route>>

------------------------------------------------------------------------------
ProcStep(p) ==
  \/ Open(p) \/ TryLock(p) \/ WritePid(p)
  \/ LoadLogs(p) \/ Load(p) \/ LoadFails(p) \/ Exit(p)
StartupStep(a) == CheckHealth(a) \/ Spawn(a) \/ WaitForChild(a) \/ Poll(a) \/ Boot(a)
Ask(a) == \E p \in Procs : Embed(a, p) \/ EmbedBlocks(a, p)

Next ==
  \/ \E p \in Procs : StartByHand(p) \/ ProcStep(p) \/ Kill(p)
  \/ Stop
  \/ \E a \in Agents : StartupStep(a) \/ Ask(a) \/ End(a)

\* The operating system runs every process that can take a step.
Spec ==
  /\ Init /\ [][Next]_vars
  /\ \A p \in Procs : WF_vars(ProcStep(p))
  /\ \A a \in Agents : WF_vars(StartupStep(a))

------------------------------------------------------------------------------
\* Properties.

TypeOK ==
  /\ proc \in [Procs -> ProcStates]
  /\ lockFile \in Procs \cup {Absent, Empty} /\ holder \in Procs \cup {Nobody}
  /\ loaded \in SUBSET Procs /\ failed \in SUBSET Procs /\ blocked \in SUBSET Procs
  /\ starter \in [Procs -> Agents \cup {Nobody}]
  /\ log \in [Procs -> 0 .. PipeSize]
  /\ agent \in [Agents -> AgentStates]
  /\ child \in [Agents -> Procs \cup {Nobody}]
  /\ polls \in [Agents -> 0 .. MaxPolls]
  /\ route \in [Agents -> {"unknown", "daemon", "local"}]

PastLock == {p \in Procs : proc[p] \in {"locked", "loading", "serving", "stopping"}}

\* However many agents and operators start daemons at the same time, at most one
\* of them loads models or has the port, also while the last one is stopping or
\* after one was killed.
OneDaemon == \A p, q \in PastLock : p = q

\* A pid in the lock file is that of the one daemon or of a process that has
\* ended: --stop signals no living process but the one with the lock, and a start
\* that loses the race never leaves its own pid.
PidIsHolderOrDead ==
  lockFile \in Procs => lockFile = holder \/ proc[lockFile] = "dead"

\* A start gives way ("already running") only to a process that lives and has the
\* lock, however the ones before it ended: nothing a dead one leaves keeps it out.
GivesWayToTheLiving ==
  [][\A p \in Procs :
       proc[p] = "opened" /\ proc'[p] = "dead" /\ p \notin failed' => PastLock # {}]_vars

\* An agent comes up whatever its daemon does: the wait for it is bounded.
StartupReturns == \A a \in Agents : agent[a] = "spawned" ~> agent[a] = "running"

\* "Stop the daemon by sending SIGTERM to PID recorded in the lock file."
\* (_stop_daemon): the process that serves is the one the file names.
StopFindsServer == \A p \in Serving : lockFile = p

\* "Daemon runs as subprocess; stays up for subsequent agent runs." (startup.py):
\* a daemon that was not told to stop answers.
StaysUp == blocked \cap Serving = {}
==============================================================================
