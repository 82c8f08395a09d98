--------------------------- MODULE HeartbeatRuns ---------------------------
(* The run orchestration of the control plane,                               *)
(* paperclip/server/src/services/heartbeat.ts: wakeups become queued runs,   *)
(* an issue has at most one owning run and defers the wakes of other agents, *)
(* an agent has a bounded number of running runs, and runs are executed,     *)
(* cancelled, reaped and settled by handlers that interleave at every await. *)
(*                                                                           *)
(* Database rows survive a restart; jobs, start locks and the map of child   *)
(* processes are memory of the one server process and do not.  A job is an   *)
(* asynchronous call in progress: the execution of a run, or a request or    *)
(* timer tick served by a Handler.  job[j].pc names its next statement.      *)
(*                                                                           *)
(* Abstracted: the wakeup request a run was created for is the run's wake    *)
(* field, the agents of all requests that name the run are its answers       *)
(* field, and a deferred request is an entry of deferred; skipped requests   *)
(* name no run and are left out.  An agent's name key is the agent (names    *)
(* are deduplicated per company).  Sessions, workspaces, logs and live       *)
(* events do not steer any of this.                                          *)
EXTENDS Naturals, Sequences, FiniteSets

CONSTANTS
  Agent,          \* the agents of one company
  Issue,          \* the issues of the company
  NoAgent, NoIssue, NoJob,
  Handler,        \* requests and timer ticks served at the same time
  MaxConcurrent,  \* Agent -> heartbeat.maxConcurrentRuns
  Kinds,          \* kinds of wake that arrive, a subset of WakeKinds
  Commands,       \* board commands used, a subset of BoardCommands
  Outcomes,       \* what an adapter may report
  LocalAgents,    \* agents whose adapter spawns a child process
  Budgeted,       \* agents that may hit their monthly budget
  SlowRuns,       \* TRUE: a live run may leave its row untouched for 5 minutes
  MayFail,        \* TRUE: preparing a run, or its adapter, may throw
  MaxRuns,        \* bound: runs created in a behaviour
  MaxCommands,    \* bound: board commands issued in a behaviour
  MaxCrashes      \* bound: restarts of the server in a behaviour

WakeKinds     == {"plain", "comment", "mention"}
BoardCommands == {"cancel", "pause", "terminate", "resume"}
RunId         == 1..MaxRuns
JobId         == RunId \union Handler

Active    == {"queued", "running"}
Terminal  == {"succeeded", "failed", "timed_out", "cancelled"}
AgentStatus == {"idle", "running", "error", "paused", "terminated"}

ASSUME ConcurrencyAssumption == MaxConcurrent \in [Agent -> Nat \ {0}]
ASSUME BoundsAssumption == {MaxRuns, MaxCommands, MaxCrashes} \subseteq Nat
ASSUME SentinelAssumption ==
  NoAgent \notin Agent /\ NoIssue \notin Issue /\ NoJob \notin JobId
ASSUME HandlerAssumption == Handler \intersect RunId = {}
ASSUME ChoiceAssumption ==
  /\ Kinds \subseteq WakeKinds
  /\ Commands \subseteq BoardCommands
  /\ Outcomes \subseteq {"succeeded", "failed", "timed_out"}
  /\ LocalAgents \subseteq Agent /\ Budgeted \subseteq Agent
  /\ SlowRuns \in BOOLEAN /\ MayFail \in BOOLEAN

VARIABLES
  \* rows
  agentStatus,   \* Agent -> agents.status
  run,           \* RunId -> heartbeat_runs row, ids in order of createdAt
  created,       \* number of rows inserted so far
  lock,          \* Issue -> executionRunId (0: null) and executionAgentNameKey
  deferred,      \* Issue -> agents of the deferred wakeups, oldest first
  \* memory
  job,           \* JobId -> the call in progress
  start,         \* Agent -> the start lock and what its holder has picked
  proc,          \* runs in runningProcesses
  commands,      \* board commands so far
  crashes        \* restarts so far

rows == <<agentStatus, run, created, lock, deferred>>
bounds == <<commands, crashes>>
vars == <<agentStatus, run, created, lock, deferred, job, start, proc, commands, crashes>>

Row == [agent : Agent \union {NoAgent},
        issue : Issue \union {NoIssue},
        status : Active \union Terminal \union {"absent"},
        wake : Terminal \union {"none", "queued", "claimed"},
        answers : SUBSET Agent]   \* the agents whose wakes the run answers

NoRun == [agent |-> NoAgent, issue |-> NoIssue, status |-> "absent",
          wake |-> "none", answers |-> {}]

Unlocked == [run |-> 0, name |-> NoAgent]

(* by: the job inside the lock; picked: queued runs still to be claimed;     *)
(* claimed: the run whose wakeup is next marked claimed; started: the runs   *)
(* to execute when the loop is over.                                         *)
StartLock == [by : JobId \union {NoJob}, picked : SUBSET RunId,
              claimed : 0..MaxRuns, started : SUBSET RunId]

Free == [by |-> NoJob, picked |-> {}, claimed |-> 0, started |-> {}]

IdleJob == [op |-> "idle", pc |-> "idle", run |-> 0, rest |-> {}, value |-> "none",
            agent |-> NoAgent, then |-> "idle", issue |-> NoIssue, kind |-> "none"]

Job == [op : {"idle", "exec", "wake", "cancel", "stop", "reap"},
        pc : {"idle", "load", "mark", "spawn", "adapter", "settle", "wakeup",
              "release", "cost", "agent", "agentWrite", "start", "starting",
              "snapshot", "next", "enqueue", "scan", "insert"},
        run : 0..MaxRuns,          \* the run the job is about
        rest : SUBSET RunId,       \* stop, reap: runs of the snapshot still to do
        value : Terminal \union AgentStatus \union {"none"}, \* status it will write
        agent : Agent \union {NoAgent},    \* whose start lock it takes
        then : {"idle", "cost", "agent", "next"},            \* pc after the lock
        issue : Issue \union {NoIssue},
        kind : WakeKinds \union {"none"}]

TypeOK ==
  /\ agentStatus \in [Agent -> AgentStatus]
  /\ run \in [RunId -> Row]
  /\ created \in 0..MaxRuns
  /\ lock \in [Issue -> [run : 0..MaxRuns, name : Agent \union {NoAgent}]]
  /\ deferred \in [Issue -> Seq(Agent)]
  /\ job \in [JobId -> Job]
  /\ start \in [Agent -> StartLock]
  /\ proc \subseteq RunId
  /\ commands \in 0..MaxCommands
  /\ crashes \in 0..MaxCrashes

Init ==
  /\ agentStatus = [a \in Agent |-> "idle"]
  /\ run = [r \in RunId |-> NoRun]
  /\ created = 0
  /\ lock = [s \in Issue |-> Unlocked]
  /\ deferred = [s \in Issue |-> <<>>]
  /\ job = [j \in JobId |-> IdleJob]
  /\ start = [a \in Agent |-> Free]
  /\ proc = {}
  /\ commands = 0
  /\ crashes = 0

-----------------------------------------------------------------------------
(* Queries and small updates.                                                *)

IsActive(r) == run[r].status \in Active
ActiveRuns == {r \in RunId : IsActive(r)}
Running(a) == {r \in RunId : run[r].agent = a /\ run[r].status = "running"}
Queued(a) == {r \in RunId : run[r].agent = a /\ run[r].status = "queued"}

Stopped(a) == agentStatus[a] \in {"paused", "terminated"}

At(j, pc) == job[j].pc = pc

Become(j, state) == job' = [job EXCEPT ![j] = state]

Goto(j, pc) == job' = [job EXCEPT ![j].pc = pc]

(* Call startNextQueuedRunForAgent(a), then go on at pc then.                *)
CallStart(j, a, then) ==
  job' = [job EXCEPT ![j].pc = "start", ![j].agent = a, ![j].then = then]

(* job[j] after startNextQueuedRunForAgent returned to it.                   *)
Returned(j) ==
  IF job[j].then = "idle" THEN IdleJob
  ELSE [job[j] EXCEPT !.pc = job[j].then, !.agent = NoAgent, !.then = "idle"]

(* Insert the next heartbeat_runs row, queued for agent a on issue s.        *)
Insert(a, s) ==
  /\ created < MaxRuns
  /\ created' = created + 1
  /\ run' = [run EXCEPT ![created + 1] =
               [agent |-> a, issue |-> s, status |-> "queued",
                wake |-> "queued", answers |-> {a}]]

(* Record a's wake against run r (a coalesced wakeup request naming r).      *)
Coalesce(r, a) == run' = [run EXCEPT ![r].answers = @ \union {a}]

-----------------------------------------------------------------------------
(* startNextQueuedRunForAgent, under withAgentStartLock: the oldest queued   *)
(* runs are picked for the free slots.  The agent's status is not consulted. *)

Oldest(n, runs) == {r \in runs : Cardinality({q \in runs : q < r}) < n}

(* Mutant of Picked: the running runs are not counted.                       *)
PickedWhateverRuns(a) == Oldest(MaxConcurrent[a], Queued(a))

Picked(a) ==
  LET busy == Cardinality(Running(a))
  IN  IF busy < MaxConcurrent[a]
      THEN Oldest(MaxConcurrent[a] - busy, Queued(a)) ELSE {}

Acquire(j) ==
  /\ At(j, "start")
  /\ LET a == job[j].agent IN
     /\ start[a].by = NoJob
     /\ IF Picked(a) = {}
        THEN Become(j, Returned(j)) /\ start' = start
        ELSE /\ Goto(j, "starting")
             /\ start' = [start EXCEPT ![a] = [Free EXCEPT !.by = j, !.picked = Picked(a)]]
  /\ UNCHANGED <<rows, proc, bounds>>

(* Mutant of Claim: the update is by id alone.                               *)
ClaimUnconditionally(a) ==
  /\ start[a].claimed = 0
  /\ \E r \in start[a].picked :
       /\ \A q \in start[a].picked : r <= q
       /\ run' = [run EXCEPT ![r].status = "running"]
       /\ start' = [start EXCEPT ![a].picked = @ \ {r}, ![a].claimed = r]
  /\ UNCHANGED <<agentStatus, created, lock, deferred, job, proc, bounds>>

(* claimQueuedRun: the update is conditional on the row still being queued.  *)
Claim(a) ==
  /\ start[a].claimed = 0
  /\ \E r \in start[a].picked :
       /\ \A q \in start[a].picked : r <= q
       /\ run' = [run EXCEPT ![r].status = IF @ = "queued" THEN "running" ELSE @]
       /\ start' = [start EXCEPT ![a].picked = @ \ {r},
                                 ![a].claimed = IF run[r].status = "queued" THEN r ELSE 0]
  /\ UNCHANGED <<agentStatus, created, lock, deferred, job, proc, bounds>>

(* ... and its wakeup request is marked claimed by a second statement.       *)
MarkClaimed(a) ==
  LET r == start[a].claimed IN
  /\ r # 0
  /\ run' = [run EXCEPT ![r].wake = "claimed"]
  /\ start' = [start EXCEPT ![a].claimed = 0, ![a].started = @ \union {r}]
  /\ UNCHANGED <<agentStatus, created, lock, deferred, job, proc, bounds>>

(* The loop is over: executions begin, the lock passes on.                   *)
Launch(a) ==
  /\ start[a].by # NoJob /\ start[a].picked = {} /\ start[a].claimed = 0
  /\ job' = [j \in JobId |->
               IF j \in start[a].started
               THEN [IdleJob EXCEPT !.op = "exec", !.pc = "load", !.run = j]
               ELSE IF j = start[a].by THEN Returned(j) ELSE job[j]]
  /\ start' = [start EXCEPT ![a] = Free]
  /\ UNCHANGED <<rows, proc, bounds>>

StartLoop(a) == Claim(a) \/ MarkClaimed(a) \/ Launch(a)

-----------------------------------------------------------------------------
(* enqueueWakeup.  The agent's status is read first; the rest happens later. *)

(* Agent a has a deferred wake for issue s.                                  *)
Waiting(s, a) == \E i \in 1..Len(deferred[s]) : deferred[s][i] = a

(* Wakes accepted so far that have, or may still get, a run of their own:    *)
(* the bound MaxRuns is spent here, so that no promotion is ever refused.    *)
Accepted ==
  created + Cardinality({p \in Issue \X Agent : Waiting(p[1], p[2])})
          + Cardinality({h \in Handler : job[h].pc \in {"enqueue", "scan", "insert"}})

ReceiveWake(h, a, s, k) ==
  /\ job[h] = IdleJob
  /\ Accepted < MaxRuns
  /\ s = NoIssue => k = "plain"
  /\ ~Stopped(a)
  /\ Become(h, [IdleJob EXCEPT !.op = "wake", !.agent = a, !.issue = s, !.kind = k,
                 !.pc = IF s = NoIssue \/ k = "mention" THEN "scan" ELSE "enqueue"])
  /\ UNCHANGED <<rows, start, proc, bounds>>

(* The run the wake of an issue finds active: the lock's, or else a run on   *)
(* the issue that holds no lock, running before queued, then oldest.         *)
LockRun(s) == IF lock[s].run # 0 /\ IsActive(lock[s].run) THEN lock[s].run ELSE 0

LegacyRun(s) ==
  LET all   == {r \in ActiveRuns : run[r].issue = s}
      first == {r \in all : run[r].status = "running"}
      pool  == IF first # {} THEN first ELSE all
  IN  IF pool = {} THEN 0 ELSE CHOOSE r \in pool : \A q \in pool : r <= q

(* The name key the code compares with: the one the issue row had when the   *)
(* transaction read it, even when the lock it belonged to was stale.         *)
OwnerName(s, r) == IF lock[s].name # NoAgent THEN lock[s].name ELSE run[r].agent

(* Mutant of EnqueueOnIssue: every wake gets a run of its own.               *)
EnqueueBlindly(h) ==
  /\ At(h, "enqueue")
  /\ Insert(job[h].agent, job[h].issue)
  /\ lock' = [lock EXCEPT ![job[h].issue] = [run |-> created + 1, name |-> job[h].agent]]
  /\ Become(h, [IdleJob EXCEPT !.op = "wake", !.pc = "start", !.agent = job[h].agent])
  /\ UNCHANGED <<agentStatus, deferred, start, proc, bounds>>

(* One transaction under the issue's row lock: repair the lock, then         *)
(* coalesce, defer, or create the run that owns the issue.                   *)
EnqueueOnIssue(h) ==
  /\ At(h, "enqueue")
  /\ LET s     == job[h].issue
         a     == job[h].agent
         owner == IF LockRun(s) # 0 THEN LockRun(s) ELSE LegacyRun(s)
         follow == job[h].kind = "comment" /\ run[owner].status = "running"
     IN
     \/ /\ owner # 0
        /\ lock' = IF LockRun(s) # 0 THEN lock
                   ELSE [lock EXCEPT ![s] = [run |-> owner, name |-> run[owner].agent]]
        /\ \/ /\ OwnerName(s, owner) = a /\ ~follow
              /\ Coalesce(owner, a)
              /\ deferred' = deferred
           \/ /\ OwnerName(s, owner) # a \/ follow
              /\ deferred' = IF Waiting(s, a) THEN deferred
                             ELSE [deferred EXCEPT ![s] = Append(@, a)]
              /\ run' = run
        /\ Become(h, IdleJob)
        /\ created' = created
     \/ /\ owner = 0
        /\ Insert(a, s)
        /\ lock' = [lock EXCEPT ![s] = [run |-> created + 1, name |-> a]]
        /\ Become(h, [IdleJob EXCEPT !.op = "wake", !.pc = "start", !.agent = a])
        /\ deferred' = deferred
  /\ UNCHANGED <<agentStatus, start, proc, bounds>>

(* Wakes without an issue, and mentions: look for a run of the same scope,   *)
(* without a transaction ...                                                 *)
Scan(h) ==
  /\ At(h, "scan")
  /\ LET a     == job[h].agent
         scope == {r \in ActiveRuns : run[r].agent = a /\ run[r].issue = job[h].issue}
         queued  == {r \in scope : run[r].status = "queued"}
         targets == IF queued # {} THEN queued
                    ELSE IF job[h].kind \in {"comment", "mention"} THEN {} ELSE scope
     IN IF targets = {}
        THEN Goto(h, "insert") /\ run' = run
        ELSE /\ \E r \in targets : (\A q \in targets : q <= r) /\ Coalesce(r, a)
             /\ Become(h, IdleJob)
  /\ UNCHANGED <<agentStatus, created, lock, deferred, start, proc, bounds>>

(* ... and insert a run later, whatever has been inserted since.             *)
InsertRun(h) ==
  /\ At(h, "insert")
  /\ Insert(job[h].agent, job[h].issue)
  /\ Become(h, [IdleJob EXCEPT !.op = "wake", !.pc = "start", !.agent = job[h].agent])
  /\ UNCHANGED <<agentStatus, lock, deferred, start, proc, bounds>>

-----------------------------------------------------------------------------
(* executeRun, up to the outcome.                                            *)

Load(j) ==
  /\ At(j, "load")
  /\ IF IsActive(job[j].run) THEN Goto(j, "mark") ELSE Become(j, IdleJob)
  /\ UNCHANGED <<rows, start, proc, bounds>>

(* Resolving the workspace, the secrets or the configuration throws before   *)
(* the try block: the row stays running, and no next run is started.         *)
PreparationThrows(j) ==
  /\ MayFail
  /\ At(j, "mark")
  /\ Become(j, IdleJob)
  /\ UNCHANGED <<rows, start, proc, bounds>>

MarkAgentRunning(j) ==
  /\ At(j, "mark")
  /\ LET a == run[job[j].run].agent IN
     /\ agentStatus' = [agentStatus EXCEPT ![a] = "running"]
     /\ Goto(j, IF a \in LocalAgents THEN "spawn" ELSE "adapter")
  /\ UNCHANGED <<run, created, lock, deferred, start, proc, bounds>>

(* runChildProcess registers the child it has spawned.                       *)
Spawn(j) ==
  /\ At(j, "spawn")
  /\ proc' = proc \union {job[j].run}
  /\ Goto(j, "adapter")
  /\ UNCHANGED <<rows, start, bounds>>

Settle(j, value) == job' = [job EXCEPT ![j].pc = "settle", ![j].value = value]

(* The adapter returns; a run found cancelled stays so, else it reports.     *)
AdapterReturns(j) ==
  /\ At(j, "adapter")
  /\ \E value \in Outcomes :
       Settle(j, IF run[job[j].run].status = "cancelled" THEN "cancelled" ELSE value)
  /\ proc' = proc \ {job[j].run}
  /\ UNCHANGED <<rows, start, bounds>>

(* The adapter throws: the catch block settles the run as failed unread.     *)
AdapterThrows(j) ==
  /\ MayFail
  /\ At(j, "adapter")
  /\ Settle(j, "failed")
  /\ proc' = proc \ {job[j].run}
  /\ UNCHANGED <<rows, start, bounds>>

-----------------------------------------------------------------------------
(* Settling a run, common to executeRun, cancelRun, cancelActiveForAgent and *)
(* reapOrphanedRuns: three separate statements, each by id alone.            *)

SetRunStatus(j) ==
  /\ At(j, "settle")
  /\ run' = [run EXCEPT ![job[j].run].status = job[j].value]
  /\ Goto(j, "wakeup")
  /\ UNCHANGED <<agentStatus, created, lock, deferred, start, proc, bounds>>

(* Mutant of SetWakeupStatus: the wakeup request is forgotten.               *)
SkipWakeupStatus(j) ==
  /\ At(j, "wakeup")
  /\ Goto(j, "release")
  /\ UNCHANGED <<rows, start, proc, bounds>>

SetWakeupStatus(j) ==
  /\ At(j, "wakeup")
  /\ run' = [run EXCEPT ![job[j].run].wake = job[j].value]
  /\ Goto(j, "release")
  /\ proc' = IF job[j].op = "stop" THEN proc \ {job[j].run} ELSE proc
  /\ UNCHANGED <<agentStatus, created, lock, deferred, start, bounds>>

(* Where each caller of releaseIssueExecutionAndPromote goes on.             *)
AfterRelease(j) ==
  CASE job[j].op = "exec" -> "cost"
    [] job[j].op = "stop" -> "next"
    [] OTHER -> "agent"

Invokable(s) == {i \in 1..Len(deferred[s]) : ~Stopped(deferred[s][i])}

(* No deferred wake may run: the issue is free and the wakes have failed.    *)
FreeIssue(j, s) ==
  /\ lock' = [lock EXCEPT ![s] = Unlocked]
  /\ deferred' = [deferred EXCEPT ![s] = <<>>]
  /\ Goto(j, AfterRelease(j))
  /\ UNCHANGED <<run, created>>

(* Mutants of Promote: the issue keeps the name key of its last owner;       *)
(* nobody starts the promoted run.                                           *)
PromoteUnderOldName(j, s, i) ==
  /\ Insert(deferred[s][i], s)
  /\ lock' = [lock EXCEPT ![s].run = created + 1]
  /\ deferred' = [deferred EXCEPT ![s] = SubSeq(@, i + 1, Len(@))]
  /\ CallStart(j, deferred[s][i], AfterRelease(j))

PromoteWithoutStart(j, s, i) ==
  /\ Insert(deferred[s][i], s)
  /\ lock' = [lock EXCEPT ![s] = [run |-> created + 1, name |-> deferred[s][i]]]
  /\ deferred' = [deferred EXCEPT ![s] = SubSeq(@, i + 1, Len(@))]
  /\ Goto(j, AfterRelease(j))

(* The issue passes to a run for the i-th deferred wake; those before it,    *)
(* whose agents may not run, have failed.                                    *)
Promote(j, s, i) ==
  /\ Insert(deferred[s][i], s)
  /\ lock' = [lock EXCEPT ![s] = [run |-> created + 1, name |-> deferred[s][i]]]
  /\ deferred' = [deferred EXCEPT ![s] = SubSeq(@, i + 1, Len(@))]
  /\ CallStart(j, deferred[s][i], AfterRelease(j))

(* Mutant of Release: the lock is cleared and the deferred wakes forgotten.  *)
ReleaseOnly(j) ==
  /\ At(j, "release")
  /\ lock' = [s \in Issue |-> IF lock[s].run = job[j].run THEN Unlocked ELSE lock[s]]
  /\ Goto(j, AfterRelease(j))
  /\ UNCHANGED <<agentStatus, run, created, deferred, start, proc, bounds>>

(* releaseIssueExecutionAndPromote: one transaction that clears the lock of  *)
(* an issue the run owns and hands it to the oldest deferred wake whose      *)
(* agent may run.                                                            *)
Release(j) ==
  /\ At(j, "release")
  /\ \/ /\ \A s \in Issue : lock[s].run # job[j].run
        /\ Goto(j, AfterRelease(j))
        /\ UNCHANGED <<run, created, lock, deferred>>
     \/ \E s \in Issue :
          /\ lock[s].run = job[j].run
          /\ \/ Invokable(s) = {} /\ FreeIssue(j, s)
             \/ \E i \in Invokable(s) : (\A k \in Invokable(s) : i <= k) /\ Promote(j, s, i)
  /\ UNCHANGED <<agentStatus, start, proc, bounds>>

(* updateRuntimeState: the cost event may exhaust the agent's budget, which  *)
(* pauses the agent and cancels nothing.                                     *)
RecordCost(j) ==
  /\ At(j, "cost")
  /\ LET a == run[job[j].run].agent IN
     \/ agentStatus' = agentStatus
     \/ /\ a \in Budgeted /\ ~Stopped(a)
        /\ agentStatus' = [agentStatus EXCEPT ![a] = "paused"]
  /\ Goto(j, "agent")
  /\ UNCHANGED <<run, created, lock, deferred, start, proc, bounds>>

(* Mutant of Settled: the agent's next run is not started.                   *)
SettledWithoutStart(j, a) ==
  IF job[j].op = "reap" THEN [job[j] EXCEPT !.pc = "next", !.value = "failed"] ELSE IdleJob

(* What is left of a call when its run is settled: start the agent's next    *)
(* run; the reaper then goes on to the next run of its snapshot.             *)
Settled(j, a) ==
  [job[j] EXCEPT !.pc = "start", !.agent = a,
                 !.then = IF job[j].op = "reap" THEN "next" ELSE "idle",
                 !.value = IF job[j].op = "reap" THEN "failed" ELSE "none"]

(* finalizeAgentStatus reads the agent and counts its running runs ...       *)
ReadAgent(j) ==
  /\ At(j, "agent")
  /\ LET a == run[job[j].run].agent IN
     IF Stopped(a) THEN job' = [job EXCEPT ![j] = Settled(j, a)]
     ELSE job' = [job EXCEPT ![j].pc = "agentWrite", ![j].value =
                    IF Running(a) # {} THEN "running"
                    ELSE IF job[j].value \in {"succeeded", "cancelled"} THEN "idle"
                    ELSE "error"]
  /\ proc' = IF job[j].op = "cancel" THEN proc \ {job[j].run} ELSE proc
  /\ UNCHANGED <<rows, start, bounds>>

(* ... and writes the status it computed, whatever the agent is by now.      *)
WriteAgent(j) ==
  /\ At(j, "agentWrite")
  /\ LET a == run[job[j].run].agent IN
     /\ agentStatus' = [agentStatus EXCEPT ![a] = job[j].value]
     /\ job' = [job EXCEPT ![j] = Settled(j, a)]
  /\ UNCHANGED <<run, created, lock, deferred, start, proc, bounds>>

-----------------------------------------------------------------------------
(* Board commands and timers that settle runs.                               *)

Command(c) == c \in Commands /\ commands < MaxCommands /\ commands' = commands + 1

CancelRun(h, r) ==
  /\ Command("cancel")
  /\ job[h] = IdleJob
  /\ IsActive(r)
  /\ Become(h, [IdleJob EXCEPT !.op = "cancel", !.pc = "settle", !.run = r,
                               !.value = "cancelled"])
  /\ UNCHANGED <<rows, start, proc, crashes>>

(* POST pause and terminate: set the status, then cancelActiveForAgent.      *)
StopAgent(h, a) ==
  /\ job[h] = IdleJob
  /\ \/ /\ Command("pause") /\ agentStatus[a] # "terminated"
        /\ agentStatus' = [agentStatus EXCEPT ![a] = "paused"]
     \/ /\ Command("terminate")
        /\ agentStatus' = [agentStatus EXCEPT ![a] = "terminated"]
  /\ Become(h, [IdleJob EXCEPT !.op = "stop", !.pc = "snapshot", !.agent = a,
                               !.value = "cancelled"])
  /\ UNCHANGED <<run, created, lock, deferred, start, proc, crashes>>

ResumeAgent(a) ==
  /\ Command("resume")
  /\ agentStatus[a] # "terminated"
  /\ agentStatus' = [agentStatus EXCEPT ![a] = "idle"]
  /\ UNCHANGED <<run, created, lock, deferred, job, start, proc, crashes>>

(* Mutant of Orphans: the test of runningProcesses is inverted.              *)
OrphansWithChild == {r \in proc : run[r].status = "running" /\ job[r].op = "idle"}

(* A running row that nobody executes any more or is about to execute.       *)
Orphans == {r \in RunId : /\ run[r].status = "running"
                          /\ job[r].op = "idle"
                          /\ \A a \in Agent : r \notin start[a].started \union {start[a].claimed}}

(* The periodic reaper takes the rows left untouched for five minutes: the   *)
(* orphans, and with SlowRuns any active run.                                *)
ReapTick(h, stale) ==
  /\ job[h] = IdleJob
  /\ stale # {} /\ stale \subseteq IF SlowRuns THEN ActiveRuns ELSE Orphans
  /\ Become(h, [IdleJob EXCEPT !.op = "reap", !.pc = "next", !.rest = stale,
                               !.value = "failed"])
  /\ UNCHANGED <<rows, start, proc, bounds>>

(* The rows cancelActiveForAgent, or the reaper at startup, will settle.     *)
Snapshot(h) ==
  /\ At(h, "snapshot")
  /\ job' = [job EXCEPT ![h].pc = "next", ![h].rest =
               IF job[h].op = "stop"
               THEN Queued(job[h].agent) \union Running(job[h].agent) ELSE ActiveRuns,
               ![h].agent = NoAgent]
  /\ UNCHANGED <<rows, start, proc, bounds>>

PassOver(h, r) == job[h].op = "reap" /\ r \in proc \ {job[h].run}

(* The next run of the snapshot, in no particular order and whatever has     *)
(* become of it since.  The reaper passes over runs with a live child, and   *)
(* drops the child of the one it has just done.                              *)
NextOfSnapshot(h) ==
  /\ At(h, "next")
  /\ \/ /\ job[h].rest = {}
        /\ Become(h, IdleJob)
     \/ \E r \in job[h].rest :
          job' = [job EXCEPT ![h].rest = @ \ {r},
                             ![h].run = IF PassOver(h, r) THEN 0 ELSE r,
                             ![h].pc = IF PassOver(h, r) THEN "next" ELSE "settle"]
  /\ proc' = IF job[h].op = "reap" THEN proc \ {job[h].run} ELSE proc
  /\ UNCHANGED <<rows, start, bounds>>

-----------------------------------------------------------------------------
(* The server stops at any point and comes back: the rows remain, memory is  *)
(* gone, and the reaper starts over every active row.                        *)
Restart(h) ==
  /\ crashes < MaxCrashes
  /\ crashes' = crashes + 1
  /\ job' = [j \in JobId |-> IF j # h THEN IdleJob
               ELSE [IdleJob EXCEPT !.op = "reap", !.pc = "snapshot", !.value = "failed"]]
  /\ start' = [a \in Agent |-> Free]
  /\ proc' = {}
  /\ UNCHANGED <<rows, commands>>

-----------------------------------------------------------------------------
Execute(j) ==
  \/ Load(j) \/ PreparationThrows(j) \/ MarkAgentRunning(j) \/ Spawn(j)
  \/ AdapterReturns(j) \/ AdapterThrows(j) \/ RecordCost(j)

SettleRun(j) ==
  \/ SetRunStatus(j) \/ SetWakeupStatus(j) \/ Release(j)
  \/ ReadAgent(j) \/ WriteAgent(j)

Serve(h) ==
  EnqueueOnIssue(h) \/ Scan(h) \/ InsertRun(h) \/ Snapshot(h) \/ NextOfSnapshot(h)

(* A call in progress takes its next step.                                   *)
Step(j) == Execute(j) \/ SettleRun(j) \/ (j \in Handler /\ Serve(j))

(* Something new happens: a request, a timer tick, a restart.                *)
Arrive(h) ==
  \/ \E a \in Agent, s \in Issue \union {NoIssue}, k \in Kinds : ReceiveWake(h, a, s, k)
  \/ \E r \in RunId : CancelRun(h, r)
  \/ \E a \in Agent : StopAgent(h, a)
  \/ \E stale \in SUBSET RunId : ReapTick(h, stale)
  \/ Restart(h)

Next ==
  \/ \E j \in JobId : Step(j) \/ Acquire(j)
  \/ \E a \in Agent : StartLoop(a) \/ ResumeAgent(a)
  \/ \E h \in Handler : Arrive(h)

(* Every call in progress goes on: statements and adapters return.  The      *)
(* start lock is a promise chain, so a call that waits for it gets its turn  *)
(* (strong fairness); the reaper ticks for ever and meets every orphan.      *)
Fairness ==
  /\ \A j \in JobId : WF_vars(Step(j)) /\ SF_vars(Acquire(j))
  /\ \A a \in Agent : WF_vars(StartLoop(a))
  /\ SF_vars(\E h \in Handler : ReapTick(h, Orphans))

Spec == Init /\ [][Next]_vars
FairSpec == Spec /\ Fairness

-----------------------------------------------------------------------------
(* An agent never has more running runs than heartbeat.maxConcurrentRuns,    *)
(* though any number of calls count, pick and claim at the same time: the    *)
(* start lock makes count-then-claim one critical section.                   *)
RunningBounded == \A a \in Agent : Cardinality(Running(a)) <= MaxConcurrent[a]

(* A single issue never has more than one queued or running run.             *)
OneOwnerPerIssue ==
  \A r, q \in ActiveRuns : run[r].issue = run[q].issue /\ run[r].issue # NoIssue => r = q

(* Two runs never execute on the same issue at the same time: the next owner *)
(* does not begin before the adapter of the previous one has returned.       *)
OneExecutionPerIssue ==
  \A r, q \in RunId :
    /\ At(r, "adapter") /\ At(q, "adapter")
    /\ run[r].issue = run[q].issue /\ run[r].issue # NoIssue
    => r = q

(* A deferred wake is never stranded: its issue is owned by a run that is    *)
(* still active or that some call is about to release.                       *)
DeferredHasOwner ==
  \A s \in Issue : deferred[s] # <<>> =>
    /\ lock[s].run # 0
    /\ \/ IsActive(lock[s].run)
       \/ \E j \in JobId : job[j].run = lock[s].run /\ job[j].pc \in {"wakeup", "release"}

(* The rows implement the issue gate: every transaction is one of its steps, *)
(* whatever calls are in progress.                                           *)
Gate == INSTANCE IssueGate WITH
  phase <- [s \in Issue |-> IF lock[s].run = 0 THEN "free"
                            ELSE IF IsActive(lock[s].run) THEN "held" ELSE "ending"],
  holder <- [s \in Issue |-> lock[s].name],
  waiting <- deferred

ImplementsGate == Gate!Spec

(* A wake is coalesced only into a run of the agent it is for.               *)
WakesStayWithAgent == \A r \in RunId : run[r].answers \subseteq {run[r].agent}

(* No call is about run r any more.                                          *)
Done(r) ==
  /\ \A j \in JobId : job[j].run # r
  /\ \A a \in Agent : r # start[a].claimed /\ r \notin start[a].started

(* When a run is over and nobody handles it any more, its wakeup request has *)
(* ended as well, except that a cancel which comes between the claim of the  *)
(* run and that of its request leaves the request claimed.                   *)
WakeupEndsWithRun ==
  \A r \in RunId : run[r].status \in Terminal /\ Done(r) =>
    run[r].wake \in Terminal \/ (run[r].status = "cancelled" /\ run[r].wake = "claimed")

(* What is not so: without exception.                                        *)
NoRequestLeftOpen ==
  \A r \in RunId : run[r].status \in Terminal /\ Done(r) => run[r].wake \in Terminal

(* When no call is in progress, an agent that shows running has a run.       *)
AgentStatusSettles ==
  (\A j \in JobId : job[j] = IdleJob) =>
    \A a \in Agent : agentStatus[a] = "running" => Running(a) # {}

(* A run of a paused or terminated agent is not started.                     *)
StoppedAgentNotStarted ==
  [][\A r \in RunId : run[r].status = "queued" /\ run'[r].status = "running"
                        => ~Stopped(run[r].agent)]_vars

(* A run that is over stays over: a call that chose it while it was queued,  *)
(* or that reads it as active, does not bring it back.                       *)
NoRunIsRevived ==
  [][\A r \in RunId : run[r].status \in Terminal => run'[r].status \in Terminal]_vars

(* Only a board command lifts a pause.                                       *)
PauseHolds ==
  [][\A a \in Agent : Stopped(a) /\ ~Stopped(a)' => ResumeAgent(a)]_vars

(* The reaper fails only running rows that nobody executes ...               *)
OnlyOrphansReaped ==
  [][\A h \in Handler : job[h].op = "reap" /\ SetRunStatus(h) => job[h].run \in Orphans]_vars

(* ... or at the least no row that this very process is executing.           *)
ExecutingRunNotReaped ==
  [][\A h \in Handler : job[h].op = "reap" /\ SetRunStatus(h)
                          => job[job[h].run].op # "exec"]_vars

(* Every queued run leaves the queue, every running run ends, and every      *)
(* deferred wake is promoted or fails.                                       *)
QueuedRunLeaves == \A r \in RunId : run[r].status = "queued" ~> run[r].status # "queued"
RunningRunEnds == \A r \in RunId : run[r].status = "running" ~> run[r].status # "running"
DeferredWakeLeaves ==
  \A s \in Issue, a \in Agent : Waiting(s, a) ~> ~Waiting(s, a)
=============================================================================
