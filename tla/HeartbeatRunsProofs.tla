------------------------ MODULE HeartbeatRunsProofs ------------------------
(* Theorems about HeartbeatRuns, for any number of agents, issues, requests  *)
(* and runs, any limits, and any use of commands, restarts and failures.     *)
EXTENDS HeartbeatRuns, FiniteSetTheorems, WellFoundedInduction, TLAPS

(* The statements at which a call is about one run.                          *)
RunPc == {"load", "mark", "spawn", "adapter", "settle", "wakeup", "release",
          "cost", "agent", "agentWrite"}

(* The rows inserted so far are the first ones.                              *)
RowsFilled ==
  \A r \in RunId : IF r <= created
                   THEN run[r].agent \in Agent /\ run[r].status # "absent"
                   ELSE run[r] = NoRun

(* The locals of a call in progress are those its next statements use.       *)
JobFits(state, n) ==
  /\ state.run <= n
  /\ \A r \in state.rest : r <= n
  /\ state.pc \in RunPc \/ state.then \in {"cost", "agent"} => state.run # 0
  /\ state.pc \in {"settle", "wakeup", "release", "snapshot", "next"} \/ state.then = "next"
       => state.value \in Terminal
  /\ state.pc = "agentWrite" => state.value \in AgentStatus
  /\ state.pc \in {"start", "starting", "enqueue", "scan", "insert"} => state.agent \in Agent
  /\ state.pc = "enqueue" => state.issue \in Issue
  /\ state.pc \notin {"start", "starting"} => state.then = "idle"

JobsFit == \A j \in JobId : JobFits(job[j], created)

(* A start lock is about inserted runs, and picks runs of its own agent.     *)
StartFits ==
  \A a \in Agent :
    /\ start[a].claimed <= created
    /\ \A r \in start[a].started : r <= created
    /\ \A r \in start[a].picked : run[r].agent = a
    /\ start[a].by = NoJob => start[a].picked = {}

TypeInv == TypeOK /\ RowsFilled /\ JobsFit /\ StartFits

(* What the start lock protects: the runs picked fit beside the running ones. *)
SlotsReserved ==
  \A a \in Agent : Cardinality(Running(a) \union start[a].picked) <= MaxConcurrent[a]

-----------------------------------------------------------------------------
(* A call moves to a state that fits.                                        *)
Moves(j) ==
  \E state \in Job : JobFits(state, created') /\ job' = [job EXCEPT ![j] = state]

LEMMA JobMoves ==
  ASSUME TypeInv, NEW j \in JobId, Moves(j),
         created' \in 0..MaxRuns, created <= created'
  PROVE  job' \in [JobId -> Job] /\ JobsFit'
<1>1. PICK state \in Job : JobFits(state, created') /\ job' = [job EXCEPT ![j] = state]
  BY DEF Moves
<1>2. job' \in [JobId -> Job]
  BY <1>1 DEF TypeInv, TypeOK
<1>3. ASSUME NEW k \in JobId PROVE JobFits(job'[k], created')
  <2>1. CASE k = j
    BY <1>1, <2>1 DEF TypeInv, TypeOK
  <2>2. CASE k # j
    <3>1. job'[k] = job[k] /\ job[k] \in Job /\ JobFits(job[k], created)
      BY <1>1, <2>2 DEF TypeInv, TypeOK, JobsFit
    <3> QED
      BY <3>1 DEF JobFits, Job, TypeInv, TypeOK, RunId
  <2> QED
    BY <2>1, <2>2
<1> QED
  BY <1>2, <1>3 DEF JobsFit

(* A step of a call that leaves the rows of runs and the start locks alone.  *)
LEMMA JobOnly ==
  ASSUME TypeInv, NEW j \in JobId, Moves(j), UNCHANGED <<run, created, start>>
  PROVE  /\ job' \in [JobId -> Job]
         /\ RowsFilled' /\ JobsFit' /\ StartFits'
<1>1. created' \in 0..MaxRuns /\ created <= created'
  BY DEF TypeInv, TypeOK
<1>2. job' \in [JobId -> Job] /\ JobsFit'
  BY <1>1, JobMoves
<1>3. RowsFilled' /\ StartFits'
  BY DEF TypeInv, RowsFilled, StartFits
<1> QED
  BY <1>2, <1>3

LEMMA MaxRunsType == MaxRuns \in Nat
BY BoundsAssumption

(* A set of naturals has a least element.                                    *)
LEMMA LeastNatural ==
  ASSUME NEW S \in SUBSET Nat, S # {} PROVE \E n \in S : \A m \in S : n <= m
<1> DEFINE R == OpToRel(<, Nat)
<1>1. IsWellFoundedOn(R, Nat)
  BY NatLessThanWellFounded
<1>2. \A m, n \in Nat : m < n => <<m, n>> \in R
  BY DEF OpToRel
<1> HIDE DEF R
<1>3. PICK n \in S : \A m \in S : ~(<<m, n>> \in R)
  BY <1>1, WFMin
<1>4. ASSUME NEW m \in S PROVE n <= m
  <2>1. m \in Nat /\ n \in Nat /\ ~(<<m, n>> \in R)
    BY <1>3
  <2>2. ~(m < n)
    BY <1>2, <2>1
  <2> QED
    BY <2>1, <2>2
<1> QED
  BY <1>4

LEMMA JobHas ==
  ASSUME TypeInv, NEW j \in JobId
  PROVE  job[j] \in Job /\ JobFits(job[j], created) /\ created \in 0..MaxRuns
BY DEF TypeInv, TypeOK, JobsFit

LEMMA IdleType == IdleJob \in Job
BY MaxRunsType DEF IdleJob, Job

(* The fields of a call one at a time: an update of several is a chain.      *)
LEMMA OpType ==
  ASSUME NEW s \in Job, NEW v \in {"exec", "wake", "cancel", "stop", "reap"}
  PROVE  [s EXCEPT !.op = v] \in Job
BY DEF Job

LEMMA PcType ==
  ASSUME NEW s \in Job, NEW v \in RunPc \union {"idle", "start", "starting", "snapshot", "next",
                                               "enqueue", "scan", "insert"}
  PROVE  [s EXCEPT !.pc = v] \in Job
BY DEF Job, RunPc

LEMMA RunType ==
  ASSUME NEW s \in Job, NEW v \in RunId \union {0} PROVE [s EXCEPT !.run = v] \in Job
BY MaxRunsType DEF Job, RunId

LEMMA RestType ==
  ASSUME NEW s \in Job, NEW v \in SUBSET RunId PROVE [s EXCEPT !.rest = v] \in Job
BY DEF Job

LEMMA ValueType ==
  ASSUME NEW s \in Job, NEW v \in Terminal \union {"none"} PROVE [s EXCEPT !.value = v] \in Job
BY DEF Job

LEMMA AgentType ==
  ASSUME NEW s \in Job, NEW v \in Agent \union {NoAgent} PROVE [s EXCEPT !.agent = v] \in Job
BY DEF Job

LEMMA ThenType ==
  ASSUME NEW s \in Job, NEW v \in {"idle", "cost", "agent", "next"}
  PROVE  [s EXCEPT !.then = v] \in Job
BY DEF Job

LEMMA IssueType ==
  ASSUME NEW s \in Job, NEW v \in Issue \union {NoIssue} PROVE [s EXCEPT !.issue = v] \in Job
BY DEF Job

LEMMA KindType ==
  ASSUME NEW s \in Job, NEW v \in WakeKinds PROVE [s EXCEPT !.kind = v] \in Job
BY DEF Job

LEMMA IdleFits ==
  ASSUME NEW n \in 0..MaxRuns PROVE JobFits(IdleJob, n)
BY MaxRunsType DEF IdleJob, JobFits, RunPc

(* Going on at a statement about the same run, or at the next of a snapshot. *)
LEMMA GotoMoves ==
  ASSUME TypeInv, NEW j \in JobId, NEW pc \in (RunPc \ {"agentWrite"}) \union {"next"},
         Goto(j, pc), created' \in 0..MaxRuns, created <= created',
         job[j].pc \in RunPc,
         pc \in {"settle", "wakeup", "release", "next"} => job[j].value \in Terminal
  PROVE  Moves(j)
<1> DEFINE next == [job[j] EXCEPT !.pc = pc]
<1>1. next \in Job
  BY JobHas DEF Job, RunPc
<1>2. job[j].run # 0 /\ job[j].then = "idle" /\ JobFits(job[j], created) /\ job[j] \in Job
  BY JobHas DEF JobFits, RunPc
<1>3. next.run <= created' /\ \A r \in next.rest : r <= created'
  BY <1>2, MaxRunsType, JobHas DEF JobFits, Job, RunId
<1>4. JobFits(next, created')
  BY <1>2, <1>3 DEF JobFits, Job, RunPc
<1>5. job' = [job EXCEPT ![j] = next]
  BY DEF Goto
<1> QED
  BY <1>1, <1>4, <1>5 DEF Moves

LEMMA IdleMoves ==
  ASSUME TypeInv, NEW j \in JobId, Become(j, IdleJob), created' \in 0..MaxRuns
  PROVE  Moves(j)
BY IdleType, IdleFits DEF Become, Moves

LEMMA LoadMoves == ASSUME TypeInv, NEW j \in JobId, Load(j) PROVE Moves(j)
<1>1. job[j].pc = "load" /\ created' = created /\ created \in 0..MaxRuns
  BY JobHas DEF Load, At, rows
<1>2. CASE IsActive(job[j].run)
  BY <1>1, <1>2, GotoMoves DEF Load, RunPc
<1>3. CASE ~IsActive(job[j].run)
  BY <1>1, <1>3, IdleMoves DEF Load
<1> QED
  BY <1>2, <1>3

LEMMA MarkMoves ==
  ASSUME TypeInv, NEW j \in JobId, MarkAgentRunning(j) \/ PreparationThrows(j) PROVE Moves(j)
<1>1. job[j].pc = "mark" /\ created' = created /\ created \in 0..MaxRuns
  BY JobHas DEF MarkAgentRunning, PreparationThrows, At, rows
<1>2. CASE MarkAgentRunning(j)
  BY <1>1, <1>2, GotoMoves DEF MarkAgentRunning, RunPc
<1>3. CASE PreparationThrows(j)
  BY <1>1, <1>3, IdleMoves DEF PreparationThrows
<1> QED
  BY <1>2, <1>3

LEMMA SpawnMoves == ASSUME TypeInv, NEW j \in JobId, Spawn(j) PROVE Moves(j)
<1>1. job[j].pc = "spawn" /\ created' = created /\ created \in 0..MaxRuns
  BY JobHas DEF Spawn, At, rows
<1> QED
  BY <1>1, GotoMoves DEF Spawn, RunPc

LEMMA SettleMoves ==
  ASSUME TypeInv, NEW j \in JobId, NEW value \in Terminal, job[j].pc = "adapter",
         Settle(j, value), created' = created
  PROVE  Moves(j)
<1> DEFINE next == [job[j] EXCEPT !.pc = "settle", !.value = value]
<1>1. next \in Job
  <2>1. job[j] \in Job
    BY JobHas
  <2> QED
    BY <2>1 DEF Job
<1>2. JobFits(next, created)
  BY JobHas DEF JobFits, Job, RunPc
<1>3. job' = [job EXCEPT ![j] = next]
  BY DEF Settle
<1> QED
  BY <1>1, <1>2, <1>3 DEF Moves

LEMMA AdapterMoves ==
  ASSUME TypeInv, NEW j \in JobId, AdapterReturns(j) \/ AdapterThrows(j) PROVE Moves(j)
<1>1. job[j].pc = "adapter" /\ created' = created
  BY DEF AdapterReturns, AdapterThrows, At, rows
<1>2. CASE AdapterReturns(j)
  <2>1. PICK value \in Terminal : Settle(j, value)
    BY <1>2, ChoiceAssumption DEF AdapterReturns, Terminal
  <2> QED
    BY <1>1, <2>1, SettleMoves
<1>3. CASE AdapterThrows(j)
  BY <1>1, <1>3, SettleMoves DEF AdapterThrows, Terminal
<1> QED
  BY <1>2, <1>3

LEMMA SetStatusMoves ==
  ASSUME TypeInv, NEW j \in JobId, SetRunStatus(j) \/ SetWakeupStatus(j) PROVE Moves(j)
<1>1. /\ job[j].pc \in {"settle", "wakeup"} /\ job[j].value \in Terminal
      /\ created' = created /\ created \in 0..MaxRuns
  BY JobHas DEF SetRunStatus, SetWakeupStatus, At, JobFits
<1>2. CASE SetRunStatus(j)
  BY <1>1, <1>2, GotoMoves DEF SetRunStatus, RunPc
<1>3. CASE SetWakeupStatus(j)
  BY <1>1, <1>3, GotoMoves DEF SetWakeupStatus, RunPc
<1> QED
  BY <1>2, <1>3

LEMMA RecordCostMoves == ASSUME TypeInv, NEW j \in JobId, RecordCost(j) PROVE Moves(j)
<1>1. job[j].pc = "cost" /\ created' = created /\ created \in 0..MaxRuns
  BY JobHas DEF RecordCost, At
<1> QED
  BY <1>1, GotoMoves DEF RecordCost, RunPc

(* A call about a run is about an inserted one, which has an agent.          *)
LEMMA RunHasAgent ==
  ASSUME TypeInv, NEW j \in JobId, job[j].pc \in RunPc
  PROVE  job[j].run \in RunId /\ run[job[j].run].agent \in Agent
<1>1. job[j].run \in RunId /\ job[j].run <= created
  BY JobHas, MaxRunsType DEF Job, JobFits, RunId
<1> QED
  BY <1>1 DEF TypeInv, RowsFilled

LEMMA SettledMoves ==
  ASSUME TypeInv, NEW j \in JobId, NEW a \in Agent, job[j].pc \in {"agent", "agentWrite"},
         job' = [job EXCEPT ![j] = Settled(j, a)], created' = created
  PROVE  Moves(j)
<1>1. Settled(j, a) \in Job
  <2>1. job[j] \in Job
    BY JobHas
  <2> QED
    BY <2>1, PcType, AgentType, ThenType, ValueType DEF Settled, Terminal
<1>2. JobFits(Settled(j, a), created)
  BY JobHas DEF Settled, Job, JobFits, Terminal, RunPc
<1> QED
  BY <1>1, <1>2 DEF Moves

LEMMA ReadAgentMoves == ASSUME TypeInv, NEW j \in JobId, ReadAgent(j) PROVE Moves(j)
<1> DEFINE a == run[job[j].run].agent
           value == IF Running(a) # {} THEN "running"
                    ELSE IF job[j].value \in {"succeeded", "cancelled"} THEN "idle"
                    ELSE "error"
           next == [job[j] EXCEPT !.pc = "agentWrite", !.value = value]
<1>1. job[j].pc = "agent" /\ created' = created
  BY DEF ReadAgent, At, rows
<1>2. CASE Stopped(a)
  BY <1>1, <1>2, RunHasAgent, SettledMoves DEF ReadAgent, RunPc
<1>3. CASE ~Stopped(a)
  <2>1. job' = [job EXCEPT ![j] = next]
    BY <1>3 DEF ReadAgent
  <2>2. value \in AgentStatus
    BY DEF AgentStatus
  <2> HIDE DEF value
  <2>3. next \in Job
    <3>1. job[j] \in Job
      BY JobHas
    <3> QED
      BY <2>2, <3>1 DEF Job
  <2>4. JobFits(next, created)
    BY <1>1, <2>2, JobHas DEF Job, JobFits, RunPc
  <2> QED
    BY <1>1, <2>1, <2>3, <2>4 DEF Moves
<1> QED
  BY <1>2, <1>3

LEMMA WriteAgentMoves == ASSUME TypeInv, NEW j \in JobId, WriteAgent(j) PROVE Moves(j)
<1>1. job[j].pc = "agentWrite" /\ created' = created
  BY DEF WriteAgent, At
<1> QED
  BY <1>1, RunHasAgent, SettledMoves DEF WriteAgent, RunPc

-----------------------------------------------------------------------------
(* The calls of handlers.                                                    *)

(* A handler ends its enqueueing with a call of startNextQueuedRunForAgent.  *)
LEMMA WakeStarts ==
  ASSUME TypeInv, NEW j \in JobId, NEW a \in Agent, created' \in 0..MaxRuns,
         Become(j, [IdleJob EXCEPT !.op = "wake", !.pc = "start", !.agent = a])
  PROVE  Moves(j)
<1> DEFINE next == [IdleJob EXCEPT !.op = "wake", !.pc = "start", !.agent = a]
<1>1. next \in Job
  BY IdleType, OpType, PcType, AgentType
<1>2. JobFits(next, created')
  BY MaxRunsType DEF IdleJob, JobFits, RunPc
<1> QED
  BY <1>1, <1>2 DEF Become, Moves

LEMMA ReceiveWakeMoves ==
  ASSUME TypeInv, NEW h \in JobId, NEW a \in Agent, NEW s \in Issue \union {NoIssue},
         NEW k \in Kinds, ReceiveWake(h, a, s, k)
  PROVE  Moves(h)
<1> DEFINE pc == IF s = NoIssue \/ k = "mention" THEN "scan" ELSE "enqueue"
           next == [IdleJob EXCEPT !.op = "wake", !.agent = a, !.issue = s, !.kind = k,
                                   !.pc = pc]
<1>1. next \in Job
  BY IdleType, OpType, AgentType, IssueType, KindType, PcType, ChoiceAssumption
<1>2. JobFits(next, created)
  BY JobHas, MaxRunsType DEF IdleJob, JobFits, RunPc
<1> QED
  BY <1>1, <1>2 DEF ReceiveWake, Become, Moves, rows

LEMMA ScanMoves == ASSUME TypeInv, NEW h \in JobId, Scan(h) PROVE Moves(h)
<1> DEFINE next == [job[h] EXCEPT !.pc = "insert"]
<1>1. job[h].pc = "scan" /\ created' = created /\ created \in 0..MaxRuns
  BY JobHas DEF Scan, At
<1>2. CASE Goto(h, "insert")
  <2>1. next \in Job
    BY JobHas DEF Job
  <2>2. JobFits(next, created)
    BY <1>1, JobHas DEF Job, JobFits, RunPc
  <2> QED
    BY <1>1, <1>2, <2>1, <2>2 DEF Goto, Moves
<1>3. CASE Become(h, IdleJob)
  BY <1>1, <1>3, IdleMoves
<1> QED
  BY <1>2, <1>3 DEF Scan

LEMMA CancelMoves ==
  ASSUME TypeInv, NEW h \in JobId, NEW r \in RunId, CancelRun(h, r) PROVE Moves(h)
<1> DEFINE next == [IdleJob EXCEPT !.op = "cancel", !.pc = "settle", !.run = r,
                                   !.value = "cancelled"]
<1>1. r # 0 /\ r <= created
  BY MaxRunsType DEF CancelRun, IsActive, Active, TypeInv, RowsFilled, NoRun, RunId
<1>2. next \in Job
  BY IdleType, OpType, PcType, RunType, ValueType DEF RunPc, Terminal
<1>3. JobFits(next, created)
  BY <1>1, MaxRunsType DEF IdleJob, JobFits, RunPc, Terminal
<1> QED
  BY <1>2, <1>3 DEF CancelRun, Become, Moves, rows

LEMMA StopMoves ==
  ASSUME TypeInv, NEW h \in JobId, NEW a \in Agent, StopAgent(h, a) PROVE Moves(h)
<1> DEFINE next == [IdleJob EXCEPT !.op = "stop", !.pc = "snapshot", !.agent = a,
                                   !.value = "cancelled"]
<1>1. next \in Job
  BY IdleType, OpType, PcType, AgentType, ValueType DEF Terminal
<1>2. JobFits(next, created)
  BY JobHas, MaxRunsType DEF IdleJob, JobFits, RunPc, Terminal
<1> QED
  BY <1>1, <1>2 DEF StopAgent, Become, Moves

LEMMA ReapMoves ==
  ASSUME TypeInv, NEW h \in JobId, NEW stale \in SUBSET RunId, ReapTick(h, stale)
  PROVE  Moves(h)
<1> DEFINE next == [IdleJob EXCEPT !.op = "reap", !.pc = "next", !.rest = stale,
                                   !.value = "failed"]
<1>1. \A r \in stale : r <= created
  BY DEF ReapTick, ActiveRuns, Orphans, IsActive, Active, TypeInv, RowsFilled, NoRun
<1>2. next \in Job
  BY IdleType, OpType, PcType, RestType, ValueType DEF Terminal
<1>3. JobFits(next, created)
  BY <1>1, JobHas, MaxRunsType DEF IdleJob, JobFits, RunPc, Terminal
<1> QED
  BY <1>2, <1>3 DEF ReapTick, Become, Moves, rows

LEMMA SnapshotMoves == ASSUME TypeInv, NEW h \in JobId, Snapshot(h) PROVE Moves(h)
<1> DEFINE rest == IF job[h].op = "stop"
                   THEN Queued(job[h].agent) \union Running(job[h].agent) ELSE ActiveRuns
           next == [job[h] EXCEPT !.pc = "next", !.rest = rest, !.agent = NoAgent]
<1>1. rest \in SUBSET RunId /\ \A r \in rest : r <= created
  BY DEF Queued, Running, ActiveRuns, IsActive, Active, TypeInv, RowsFilled, NoRun
<1>2. job' = [job EXCEPT ![h] = next] /\ job[h].pc = "snapshot" /\ created' = created
  BY DEF Snapshot, At, rows
<1> HIDE DEF rest
<1>3. next \in Job
  <2>1. job[h] \in Job
    BY JobHas
  <2> QED
    BY <1>1, <2>1 DEF Job
<1>4. JobFits(next, created)
  BY <1>1, <1>2, JobHas DEF Job, JobFits, RunPc
<1> QED
  BY <1>2, <1>3, <1>4 DEF Moves

LEMMA NextMoves == ASSUME TypeInv, NEW h \in JobId, NextOfSnapshot(h) PROVE Moves(h)
<1>1. job[h].pc = "next" /\ created' = created /\ created \in 0..MaxRuns
  BY JobHas DEF NextOfSnapshot, At, rows
<1>2. CASE Become(h, IdleJob)
  BY <1>1, <1>2, IdleMoves
<1>3. ASSUME NEW r \in job[h].rest,
             job' = [job EXCEPT ![h].rest = @ \ {r},
                                ![h].run = IF PassOver(h, r) THEN 0 ELSE r,
                                ![h].pc = IF PassOver(h, r) THEN "next" ELSE "settle"]
      PROVE  Moves(h)
  <2> DEFINE next == [job[h] EXCEPT !.rest = @ \ {r},
                                    !.run = IF PassOver(h, r) THEN 0 ELSE r,
                                    !.pc = IF PassOver(h, r) THEN "next" ELSE "settle"]
  <2>1. r \in RunId /\ r <= created
    BY JobHas DEF Job, JobFits
  <2>2. next \in Job
    <3>1. job[h] \in Job
      BY JobHas
    <3>2. job[h].rest \ {r} \in SUBSET RunId
      BY <3>1 DEF Job
    <3> QED
      BY <3>1, <3>2, <2>1, RestType, RunType, PcType DEF RunPc
  <2>3. JobFits(next, created)
    BY <1>1, <2>1, JobHas, MaxRunsType DEF Job, JobFits, RunPc, RunId
  <2>4. job' = [job EXCEPT ![h] = next]
    BY <1>3
  <2> QED
    BY <1>1, <2>2, <2>3, <2>4 DEF Moves
<1> QED
  BY <1>2, <1>3 DEF NextOfSnapshot

-----------------------------------------------------------------------------
(* Calls of startNextQueuedRunForAgent and steps that insert or settle rows. *)

LEMMA CallStartMoves ==
  ASSUME TypeInv, NEW j \in JobId, job[j].pc = "release", NEW a \in Agent,
         NEW pc \in {"cost", "agent", "next"}, CallStart(j, a, pc),
         created' \in 0..MaxRuns, created <= created'
  PROVE  Moves(j)
<1> DEFINE next == [job[j] EXCEPT !.pc = "start", !.agent = a, !.then = pc]
<1>1. next \in Job
  BY JobHas, PcType, AgentType, ThenType
<1>2. /\ job[j].run # 0 /\ job[j].value \in Terminal /\ job[j] \in Job
      /\ job[j].run <= created' /\ \A r \in job[j].rest : r <= created'
  BY JobHas, MaxRunsType DEF JobFits, Job, RunPc, RunId
<1>3. JobFits(next, created')
  BY <1>2 DEF JobFits, Job, RunPc
<1>4. job' = [job EXCEPT ![j] = next]
  BY DEF CallStart
<1> QED
  BY <1>1, <1>3, <1>4 DEF Moves

LEMMA ReturnedFits ==
  ASSUME NEW state \in Job, NEW n \in 0..MaxRuns, JobFits(state, n)
  PROVE  LET back == IF state.then = "idle" THEN IdleJob
                     ELSE [state EXCEPT !.pc = state.then, !.agent = NoAgent, !.then = "idle"]
         IN  back \in Job /\ JobFits(back, n)
<1>1. CASE state.then = "idle"
  BY <1>1, IdleType, IdleFits
<1>2. CASE state.then # "idle"
  <2> DEFINE back == [state EXCEPT !.pc = state.then, !.agent = NoAgent, !.then = "idle"]
  <2>1. state.then \in {"cost", "agent", "next"}
    BY <1>2 DEF Job
  <2>2. back \in Job
    BY <2>1, PcType, AgentType, ThenType DEF RunPc
  <2>3. JobFits(back, n)
    BY <2>1 DEF JobFits, Job, RunPc
  <2> QED
    BY <1>2, <2>2, <2>3
<1> QED
  BY <1>1, <1>2

LEMMA AcquireMoves == ASSUME TypeInv, NEW j \in JobId, Acquire(j) PROVE Moves(j)
<1> DEFINE next == [job[j] EXCEPT !.pc = "starting"]
<1>1. job[j].pc = "start" /\ created' = created /\ created \in 0..MaxRuns
  BY JobHas DEF Acquire, At, rows
<1>2. CASE Become(j, Returned(j))
  BY <1>1, <1>2, JobHas, ReturnedFits DEF Become, Returned, Moves
<1>3. CASE Goto(j, "starting")
  <2>1. next \in Job
    BY JobHas, PcType
  <2>2. JobFits(next, created)
    BY <1>1, JobHas DEF JobFits, Job, RunPc
  <2> QED
    BY <1>1, <1>3, <2>1, <2>2 DEF Goto, Moves
<1> QED
  BY <1>2, <1>3 DEF Acquire

-----------------------------------------------------------------------------
(* Every step preserves TypeInv.                                             *)

(* Steps that change no row of a run or an issue and no start lock.          *)
LEMMA JobOnlyTypes ==
  ASSUME TypeInv, NEW j \in JobId, Moves(j), UNCHANGED <<run, created, lock, deferred, start>>,
         agentStatus' \in [Agent -> AgentStatus], proc' \subseteq RunId,
         commands' \in 0..MaxCommands, crashes' \in 0..MaxCrashes
  PROVE  TypeInv'
BY JobOnly DEF TypeInv, TypeOK

LEMMA ExecuteTypes == ASSUME TypeInv, NEW j \in JobId, Execute(j) PROVE TypeInv'
<1>1. /\ agentStatus \in [Agent -> AgentStatus] /\ proc \subseteq RunId
      /\ commands \in 0..MaxCommands /\ crashes \in 0..MaxCrashes
  BY DEF TypeInv, TypeOK
<1>2. ASSUME Load(j) PROVE TypeInv'
  BY <1>1, <1>2, LoadMoves, JobOnlyTypes DEF Load, rows, bounds
<1>3. ASSUME PreparationThrows(j) PROVE TypeInv'
  BY <1>1, <1>3, MarkMoves, JobOnlyTypes DEF PreparationThrows, rows, bounds
<1>4. ASSUME MarkAgentRunning(j) PROVE TypeInv'
  <2>1. agentStatus' \in [Agent -> AgentStatus]
    BY <1>1, <1>4 DEF MarkAgentRunning, AgentStatus
  <2> QED
    BY <1>1, <1>4, <2>1, MarkMoves, JobOnlyTypes DEF MarkAgentRunning, bounds
<1>5. ASSUME Spawn(j) PROVE TypeInv'
  <2>1. proc' \subseteq RunId
    BY <1>1, <1>5, RunHasAgent DEF Spawn, At, RunPc
  <2> QED
    BY <1>1, <1>5, <2>1, SpawnMoves, JobOnlyTypes DEF Spawn, rows, bounds
<1>6. ASSUME AdapterReturns(j) PROVE TypeInv'
  BY <1>1, <1>6, AdapterMoves, JobOnlyTypes DEF AdapterReturns, rows, bounds
<1>7. ASSUME AdapterThrows(j) PROVE TypeInv'
  BY <1>1, <1>7, AdapterMoves, JobOnlyTypes DEF AdapterThrows, rows, bounds
<1>8. ASSUME RecordCost(j) PROVE TypeInv'
  <2>1. agentStatus' \in [Agent -> AgentStatus]
    BY <1>1, <1>8 DEF RecordCost, AgentStatus
  <2> QED
    BY <1>1, <1>8, <2>1, RecordCostMoves, JobOnlyTypes DEF RecordCost, bounds
<1> QED
  BY <1>2, <1>3, <1>4, <1>5, <1>6, <1>7, <1>8 DEF Execute

(* Rows stay well formed, and no row with an agent changes it.               *)
RowsKept ==
  /\ run' \in [RunId -> Row]
  /\ RowsFilled'
  /\ \A r \in RunId, b \in Agent : run[r].agent = b => run'[r].agent = b

(* A new row is the next one, and no call and no start lock was about it.    *)
LEMMA InsertTypes ==
  ASSUME TypeInv, NEW a \in Agent, NEW s \in Issue \union {NoIssue}, Insert(a, s)
  PROVE  /\ created + 1 \in RunId /\ created' = created + 1 /\ created' \in 0..MaxRuns
         /\ created <= created'
         /\ RowsKept
<1>1. created \in 0..MaxRuns /\ created + 1 \in RunId /\ created' = created + 1
  BY MaxRunsType DEF TypeInv, TypeOK, Insert, RunId
<1> DEFINE row == [agent |-> a, issue |-> s, status |-> "queued",
                   wake |-> "queued", answers |-> {a}]
<1>2. run' = [run EXCEPT ![created + 1] = row]
  BY DEF Insert
<1>3. row \in Row
  BY DEF Row, Active
<1>4. run[created + 1] = NoRun
  BY <1>1 DEF TypeInv, RowsFilled
<1>5. RowsFilled'
  <2>1. ASSUME NEW r \in RunId
        PROVE  IF r <= created'
               THEN run'[r].agent \in Agent /\ run'[r].status # "absent" ELSE run'[r] = NoRun
    BY <1>1, <1>2, MaxRunsType DEF TypeInv, TypeOK, RowsFilled, RunId
  <2> QED
    BY <2>1 DEF RowsFilled
<1>6. ASSUME NEW r \in RunId, NEW b \in Agent, run[r].agent = b PROVE run'[r].agent = b
  BY <1>1, <1>2, <1>4, <1>6, SentinelAssumption DEF NoRun, TypeInv, TypeOK
<1> QED
  BY <1>1, <1>2, <1>3, <1>5, <1>6, MaxRunsType DEF TypeInv, TypeOK, RunId, RowsKept

(* Rows of runs may change, as long as the agents of inserted runs do not.   *)
LEMMA StartStillFits ==
  ASSUME TypeInv, UNCHANGED start, created' \in 0..MaxRuns, created <= created',
         \A r \in RunId, b \in Agent : run[r].agent = b => run'[r].agent = b
  PROVE  StartFits'
<1> SUFFICES ASSUME NEW a \in Agent
             PROVE  /\ start[a].claimed <= created'
                    /\ \A r \in start[a].started : r <= created'
                    /\ \A r \in start[a].picked : run'[r].agent = a
                    /\ start[a].by = NoJob => start[a].picked = {}
  BY DEF StartFits
<1>1. /\ start[a].claimed \in 0..MaxRuns /\ start[a].started \subseteq RunId
      /\ start[a].picked \subseteq RunId /\ created \in 0..MaxRuns
  BY DEF TypeInv, TypeOK, StartLock
<1> QED
  BY <1>1, MaxRunsType DEF TypeInv, StartFits, RunId

(* The transactions that touch rows of runs and issues, and one call.        *)
LEMMA RowsTypes ==
  ASSUME TypeInv, NEW j \in JobId, Moves(j), created' \in 0..MaxRuns, created <= created',
         RowsKept,
         lock' \in [Issue -> [run : 0..MaxRuns, name : Agent \union {NoAgent}]],
         deferred' \in [Issue -> Seq(Agent)], proc' \subseteq RunId,
         UNCHANGED <<agentStatus, start, bounds>>
  PROVE  TypeInv'
<1>1. job' \in [JobId -> Job] /\ JobsFit'
  BY JobMoves
<1>2. StartFits'
  BY StartStillFits DEF RowsKept
<1>3. TypeOK'
  BY <1>1 DEF TypeInv, TypeOK, bounds, RowsKept
<1> QED
  BY <1>1, <1>2, <1>3 DEF TypeInv, RowsKept

(* Updates of one row that keep its agent and do not make it absent.         *)
LEMMA RowUpdated ==
  ASSUME TypeInv, NEW r \in RunId, r <= created, NEW row \in Row,
         row.agent = run[r].agent, row.status # "absent",
         run' = [run EXCEPT ![r] = row], created' = created
  PROVE  RowsKept
BY DEF TypeInv, TypeOK, RowsFilled, RowsKept

LEMMA StatusUpdated ==
  ASSUME TypeInv, NEW r \in RunId, r <= created, NEW value \in Active \union Terminal,
         run' = [run EXCEPT ![r].status = value], created' = created
  PROVE  RowsKept
<1> DEFINE row == [run[r] EXCEPT !.status = value]
<1>1. run[r] \in Row
  BY DEF TypeInv, TypeOK
<1>2. row \in Row /\ row.agent = run[r].agent /\ row.status = value
  BY <1>1 DEF Row
<1>3. value # "absent"
  BY DEF Active, Terminal
<1>4. run' = [run EXCEPT ![r] = row]
  OBVIOUS
<1> HIDE DEF row
<1> QED
  BY <1>2, <1>3, <1>4, RowUpdated

LEMMA WakeUpdated ==
  ASSUME TypeInv, NEW r \in RunId, r <= created, NEW value \in Terminal \union {"claimed"},
         run' = [run EXCEPT ![r].wake = value], created' = created
  PROVE  RowsKept
<1> DEFINE row == [run[r] EXCEPT !.wake = value]
<1>1. run[r] \in Row /\ run[r].status # "absent"
  BY DEF TypeInv, TypeOK, RowsFilled
<1>2. row \in Row /\ row.agent = run[r].agent /\ row.status = run[r].status
  BY <1>1 DEF Row
<1>3. run' = [run EXCEPT ![r] = row]
  OBVIOUS
<1> HIDE DEF row
<1> QED
  BY <1>1, <1>2, <1>3, RowUpdated

LEMMA Coalesced ==
  ASSUME TypeInv, NEW r \in RunId, r <= created, NEW a \in Agent, Coalesce(r, a),
         created' = created
  PROVE  RowsKept
<1> DEFINE row == [run[r] EXCEPT !.answers = @ \union {a}]
<1>1. run[r] \in Row /\ run[r].status # "absent"
  BY DEF TypeInv, TypeOK, RowsFilled
<1>2. row \in Row /\ row.agent = run[r].agent /\ row.status = run[r].status
  BY <1>1 DEF Row
<1>3. run' = [run EXCEPT ![r] = row]
  BY DEF Coalesce
<1> HIDE DEF row
<1> QED
  BY <1>1, <1>2, <1>3, RowUpdated

LEMMA ReleaseTypes == ASSUME TypeInv, NEW j \in JobId, Release(j) PROVE TypeInv'
<1>1. /\ job[j].pc = "release" /\ created \in 0..MaxRuns
      /\ lock \in [Issue -> [run : 0..MaxRuns, name : Agent \union {NoAgent}]]
      /\ deferred \in [Issue -> Seq(Agent)] /\ run \in [RunId -> Row] /\ proc \subseteq RunId
      /\ RowsFilled
  BY DEF Release, At, TypeInv, TypeOK
<1>2. job[j].value \in Terminal /\ AfterRelease(j) \in {"cost", "agent", "next"}
  BY <1>1, JobHas DEF JobFits, AfterRelease
<1>3. UNCHANGED <<agentStatus, start, proc, bounds>>
  BY DEF Release
<1>4. ASSUME Goto(j, AfterRelease(j)), UNCHANGED <<run, created>>,
             lock' \in [Issue -> [run : 0..MaxRuns, name : Agent \union {NoAgent}]],
             deferred' \in [Issue -> Seq(Agent)]
      PROVE  TypeInv'
  <2>1. Moves(j)
    BY <1>1, <1>2, <1>4, GotoMoves DEF RunPc
  <2>2. RowsKept
    BY <1>1, <1>4 DEF RowsFilled, RowsKept
  <2> QED
    BY <1>1, <1>3, <1>4, <2>1, <2>2, RowsTypes
<1>5. CASE Goto(j, AfterRelease(j)) /\ UNCHANGED <<run, created, lock, deferred>>
  BY <1>1, <1>4, <1>5
<1>6. ASSUME NEW s \in Issue, FreeIssue(j, s) PROVE TypeInv'
  <2>1. lock' \in [Issue -> [run : 0..MaxRuns, name : Agent \union {NoAgent}]]
    BY <1>1, <1>6, MaxRunsType DEF FreeIssue, Unlocked
  <2>2. deferred' \in [Issue -> Seq(Agent)]
    BY <1>1, <1>6 DEF FreeIssue
  <2> QED
    BY <1>4, <1>6, <2>1, <2>2 DEF FreeIssue
<1>7. ASSUME NEW s \in Issue, NEW i \in Invokable(s), Promote(j, s, i) PROVE TypeInv'
  <2>1. deferred[s] \in Seq(Agent) /\ i \in 1..Len(deferred[s]) /\ deferred[s][i] \in Agent
    BY <1>1, <1>7 DEF Invokable
  <2> DEFINE a == deferred[s][i]
  <2>2. /\ created' = created + 1 /\ created' \in 0..MaxRuns /\ created <= created' /\ RowsKept
    BY <1>7, <2>1, InsertTypes DEF Promote
  <2>3. Moves(j)
    BY <1>1, <1>2, <1>7, <2>1, <2>2, CallStartMoves DEF Promote
  <2>4. lock' \in [Issue -> [run : 0..MaxRuns, name : Agent \union {NoAgent}]]
    BY <1>1, <1>7, <2>1, <2>2 DEF Promote
  <2>5. SubSeq(deferred[s], i + 1, Len(deferred[s])) \in Seq(Agent)
    BY <2>1
  <2>6. deferred' \in [Issue -> Seq(Agent)]
    BY <1>1, <1>7, <2>5 DEF Promote
  <2> QED
    BY <1>1, <1>3, <2>2, <2>3, <2>4, <2>6, RowsTypes
<1> QED
  BY <1>5, <1>6, <1>7 DEF Release

LEMMA SettleRunTypes == ASSUME TypeInv, NEW j \in JobId, SettleRun(j) PROVE TypeInv'
<1>1. /\ agentStatus \in [Agent -> AgentStatus] /\ proc \subseteq RunId
      /\ commands \in 0..MaxCommands /\ crashes \in 0..MaxCrashes
      /\ lock \in [Issue -> [run : 0..MaxRuns, name : Agent \union {NoAgent}]]
      /\ deferred \in [Issue -> Seq(Agent)] /\ created \in 0..MaxRuns
  BY DEF TypeInv, TypeOK
<1>2. ASSUME SetRunStatus(j) PROVE TypeInv'
  <2>1. /\ job[j].run \in RunId /\ job[j].run <= created /\ job[j].value \in Terminal
        /\ created' = created
    BY <1>2, JobHas, RunHasAgent DEF SetRunStatus, At, JobFits, RunPc
  <2>2. RowsKept
    BY <1>2, <2>1, StatusUpdated DEF SetRunStatus
  <2>3. Moves(j) /\ UNCHANGED <<agentStatus, lock, deferred, start, proc, bounds>>
    BY <1>2, SetStatusMoves DEF SetRunStatus
  <2> QED
    BY <1>1, <2>1, <2>2, <2>3, RowsTypes
<1>3. ASSUME SetWakeupStatus(j) PROVE TypeInv'
  <2>1. /\ job[j].run \in RunId /\ job[j].run <= created /\ job[j].value \in Terminal
        /\ created' = created
    BY <1>3, JobHas, RunHasAgent DEF SetWakeupStatus, At, JobFits, RunPc
  <2>2. RowsKept
    BY <1>3, <2>1, WakeUpdated DEF SetWakeupStatus
  <2>3. proc' \subseteq RunId
    BY <1>1, <1>3 DEF SetWakeupStatus
  <2>4. Moves(j) /\ UNCHANGED <<agentStatus, lock, deferred, start, bounds>>
    BY <1>3, SetStatusMoves DEF SetWakeupStatus
  <2> QED
    BY <1>1, <2>1, <2>2, <2>3, <2>4, RowsTypes
<1>4. ASSUME ReadAgent(j) PROVE TypeInv'
  <2>1. proc' \subseteq RunId
    BY <1>1, <1>4 DEF ReadAgent
  <2> QED
    BY <1>1, <1>4, <2>1, ReadAgentMoves, JobOnlyTypes DEF ReadAgent, rows, bounds
<1>5. ASSUME WriteAgent(j) PROVE TypeInv'
  <2>1. job[j].value \in AgentStatus
    BY <1>5, JobHas DEF WriteAgent, At, JobFits
  <2>2. agentStatus' \in [Agent -> AgentStatus]
    BY <1>1, <1>5, <2>1 DEF WriteAgent
  <2> QED
    BY <1>1, <1>5, <2>2, WriteAgentMoves, JobOnlyTypes DEF WriteAgent, bounds
<1> QED
  BY <1>2, <1>3, <1>4, <1>5, ReleaseTypes DEF SettleRun

LEMMA EnqueueTypes == ASSUME TypeInv, NEW h \in JobId, EnqueueOnIssue(h) PROVE TypeInv'
<1> DEFINE s == job[h].issue
           a == job[h].agent
           owner == IF LockRun(s) # 0 THEN LockRun(s) ELSE LegacyRun(s)
<1>1. /\ lock \in [Issue -> [run : 0..MaxRuns, name : Agent \union {NoAgent}]]
      /\ deferred \in [Issue -> Seq(Agent)] /\ created \in 0..MaxRuns
      /\ run \in [RunId -> Row] /\ proc \subseteq RunId /\ RowsFilled
  BY DEF TypeInv, TypeOK
<1>2. a \in Agent /\ s \in Issue
  BY JobHas DEF EnqueueOnIssue, At, JobFits
<1>3. UNCHANGED <<agentStatus, start, proc, bounds>>
  BY DEF EnqueueOnIssue
<1>4. owner # 0 => owner \in RunId /\ owner <= created /\ run[owner].agent \in Agent
  <2>1. LockRun(s) # 0 => LockRun(s) \in RunId /\ IsActive(LockRun(s))
    BY <1>1, <1>2, MaxRunsType DEF LockRun, RunId
  <2>2. LegacyRun(s) # 0 => LegacyRun(s) \in RunId /\ IsActive(LegacyRun(s))
    <3> DEFINE all == {r \in ActiveRuns : run[r].issue = s}
               first == {r \in all : run[r].status = "running"}
               pool == IF first # {} THEN first ELSE all
    <3>1. \A r \in pool : r \in RunId /\ IsActive(r)
      BY DEF ActiveRuns
    <3>2. pool # {} => \E r \in pool : \A q \in pool : r <= q
      <4>1. pool \subseteq Nat
        BY <3>1, MaxRunsType DEF RunId
      <4> HIDE DEF pool
      <4> QED
        BY <4>1, LeastNatural
    <3>3. LegacyRun(s) = IF pool = {} THEN 0 ELSE CHOOSE r \in pool : \A q \in pool : r <= q
      BY DEF LegacyRun
    <3> HIDE DEF pool
    <3> QED
      BY <3>1, <3>2, <3>3
  <2> QED
    BY <1>1, <2>1, <2>2 DEF IsActive, Active, RowsFilled, NoRun
<1>5. CASE /\ owner # 0 /\ created' = created /\ Become(h, IdleJob)
           /\ lock' = IF LockRun(s) # 0 THEN lock
                      ELSE [lock EXCEPT ![s] = [run |-> owner, name |-> run[owner].agent]]
           /\ \/ Coalesce(owner, a) /\ deferred' = deferred
              \/ /\ deferred' = IF Waiting(s, a) THEN deferred
                                ELSE [deferred EXCEPT ![s] = Append(@, a)]
                 /\ run' = run
  <2> HIDE DEF owner
  <2>1. owner \in RunId /\ owner <= created /\ run[owner].agent \in Agent
    BY <1>4, <1>5
  <2>2. lock' \in [Issue -> [run : 0..MaxRuns, name : Agent \union {NoAgent}]]
    <3>1. owner \in 0..MaxRuns
      BY <2>1, MaxRunsType DEF RunId
    <3>2. CASE lock' = lock
      BY <1>1, <3>2
    <3>3. CASE lock' = [lock EXCEPT ![s] = [run |-> owner, name |-> run[owner].agent]]
      <4>1. [run |-> owner, name |-> run[owner].agent]
              \in [run : 0..MaxRuns, name : Agent \union {NoAgent}]
        BY <2>1, <3>1
      <4> QED
        BY <1>1, <3>3, <4>1
    <3> QED
      BY <1>5, <3>2, <3>3
  <2>3. deferred' \in [Issue -> Seq(Agent)]
    <3>1. CASE deferred' = deferred
      BY <1>1, <3>1
    <3>2. CASE deferred' = [deferred EXCEPT ![s] = Append(@, a)]
      <4>1. Append(deferred[s], a) \in Seq(Agent)
        BY <1>1, <1>2
      <4> QED
        BY <1>1, <3>2, <4>1
    <3> QED
      BY <1>5, <3>1, <3>2
  <2>4. RowsKept
    <3>1. CASE Coalesce(owner, a)
      BY <1>2, <1>5, <2>1, <3>1, Coalesced
    <3>2. CASE run' = run
      BY <1>1, <1>5, <3>2 DEF RowsFilled, RowsKept
    <3> QED
      BY <1>5, <3>1, <3>2
  <2>5. Moves(h) /\ created' \in 0..MaxRuns /\ created <= created'
    BY <1>1, <1>5, MaxRunsType, IdleMoves
  <2>6. proc' \subseteq RunId
    BY <1>1, <1>3
  <2> QED
    BY <1>3, <2>2, <2>3, <2>4, <2>5, <2>6, RowsTypes
<1>6. CASE /\ Insert(a, s)
           /\ lock' = [lock EXCEPT ![s] = [run |-> created + 1, name |-> a]]
           /\ Become(h, [IdleJob EXCEPT !.op = "wake", !.pc = "start", !.agent = a])
           /\ deferred' = deferred
  <2>1. /\ created' = created + 1 /\ created' \in 0..MaxRuns /\ created <= created' /\ RowsKept
    BY <1>2, <1>6, InsertTypes
  <2>2. lock' \in [Issue -> [run : 0..MaxRuns, name : Agent \union {NoAgent}]]
    BY <1>1, <1>2, <1>6, <2>1
  <2>3. Moves(h)
    BY <1>2, <1>6, <2>1, WakeStarts
  <2> QED
    BY <1>1, <1>3, <1>6, <2>1, <2>2, <2>3, RowsTypes
<1> QED
  BY <1>5, <1>6 DEF EnqueueOnIssue

LEMMA ServeTypes == ASSUME TypeInv, NEW h \in JobId, Serve(h) PROVE TypeInv'
<1>1. /\ agentStatus \in [Agent -> AgentStatus] /\ proc \subseteq RunId
      /\ commands \in 0..MaxCommands /\ crashes \in 0..MaxCrashes
      /\ lock \in [Issue -> [run : 0..MaxRuns, name : Agent \union {NoAgent}]]
      /\ deferred \in [Issue -> Seq(Agent)] /\ created \in 0..MaxRuns /\ created <= created
      /\ run \in [RunId -> Row] /\ RowsFilled
  BY DEF TypeInv, TypeOK
<1>2. ASSUME Scan(h) PROVE TypeInv'
  <2>1. job[h].agent \in Agent
    BY <1>2, JobHas DEF Scan, At, JobFits
  <2>2. RowsKept
    <3>1. CASE run' = run
      BY <1>1, <1>2, <3>1 DEF RowsFilled, Scan, RowsKept
    <3>2. ASSUME NEW r \in ActiveRuns, Coalesce(r, job[h].agent)
          PROVE  RowsKept
      <4>1. r \in RunId /\ r <= created /\ created' = created
        BY <1>1, <1>2 DEF ActiveRuns, IsActive, Active, RowsFilled, NoRun, Scan
      <4> QED
        BY <2>1, <3>2, <4>1, Coalesced
    <3> QED
      BY <1>2, <3>1, <3>2 DEF Scan
  <2>3. Moves(h) /\ UNCHANGED <<agentStatus, created, lock, deferred, start, proc, bounds>>
    BY <1>2, ScanMoves DEF Scan
  <2> QED
    BY <1>1, <2>2, <2>3, RowsTypes
<1>3. ASSUME InsertRun(h) PROVE TypeInv'
  <2>1. job[h].agent \in Agent /\ job[h].issue \in Issue \union {NoIssue}
    BY <1>3, JobHas DEF InsertRun, At, JobFits, Job
  <2>2. /\ created' \in 0..MaxRuns /\ created <= created' /\ RowsKept
    BY <1>3, <2>1, InsertTypes DEF InsertRun
  <2>3. Moves(h) /\ UNCHANGED <<agentStatus, lock, deferred, start, proc, bounds>>
    BY <1>3, <2>1, <2>2, WakeStarts DEF InsertRun
  <2> QED
    BY <1>1, <2>2, <2>3, RowsTypes
<1>4. ASSUME Snapshot(h) PROVE TypeInv'
  BY <1>1, <1>4, SnapshotMoves, JobOnlyTypes DEF Snapshot, rows, bounds
<1>5. ASSUME NextOfSnapshot(h) PROVE TypeInv'
  <2>1. proc' \subseteq RunId
    BY <1>1, <1>5 DEF NextOfSnapshot
  <2> QED
    BY <1>1, <1>5, <2>1, NextMoves, JobOnlyTypes DEF NextOfSnapshot, rows, bounds
<1> QED
  BY <1>2, <1>3, <1>4, <1>5, EnqueueTypes DEF Serve

LEMMA RestartTypes == ASSUME TypeInv, NEW h \in JobId, Restart(h) PROVE TypeInv'
<1> DEFINE next == [IdleJob EXCEPT !.op = "reap", !.pc = "snapshot", !.value = "failed"]
<1>1. next \in Job
  BY IdleType, OpType, PcType, ValueType DEF Terminal
<1>2. created \in 0..MaxRuns /\ UNCHANGED rows
  BY DEF TypeInv, TypeOK, Restart
<1>3. JobFits(next, created) /\ JobFits(IdleJob, created)
  BY <1>2, MaxRunsType DEF IdleJob, JobFits, RunPc, Terminal
<1>4. \A j \in JobId : job'[j] \in {IdleJob, next}
  BY DEF Restart
<1>5. job' \in [JobId -> Job] /\ JobsFit'
  <2>1. job' \in [JobId -> Job]
    <3>1. job' = [j \in JobId |-> IF j # h THEN IdleJob ELSE next]
      BY DEF Restart
    <3> QED
      BY <1>1, <3>1, IdleType
  <2> QED
    BY <1>2, <1>3, <1>4, <2>1 DEF JobsFit, rows
<1>6. /\ start' \in [Agent -> StartLock]
      /\ StartFits'
  BY <1>2, MaxRunsType DEF Restart, Free, StartFits, rows, StartLock
<1>7. crashes' \in 0..MaxCrashes /\ commands' = commands /\ proc' = {}
  BY BoundsAssumption DEF TypeInv, TypeOK, Restart
<1>8. TypeOK'
  BY <1>2, <1>5, <1>6, <1>7 DEF TypeInv, TypeOK, rows
<1>9. RowsFilled'
  BY <1>2 DEF TypeInv, RowsFilled, rows
<1> QED
  BY <1>5, <1>6, <1>8, <1>9 DEF TypeInv

LEMMA ArriveTypes == ASSUME TypeInv, NEW h \in Handler, Arrive(h) PROVE TypeInv'
<1>1. /\ agentStatus \in [Agent -> AgentStatus] /\ proc \subseteq RunId /\ h \in JobId
      /\ commands \in 0..MaxCommands /\ crashes \in 0..MaxCrashes
  BY DEF TypeInv, TypeOK, JobId
<1>2. \A c : Command(c) => commands' \in 0..MaxCommands
  BY <1>1, BoundsAssumption DEF Command
<1>3. ASSUME NEW a \in Agent, NEW s \in Issue \union {NoIssue}, NEW k \in Kinds,
             ReceiveWake(h, a, s, k)
      PROVE  TypeInv'
  BY <1>1, <1>3, ReceiveWakeMoves, JobOnlyTypes DEF ReceiveWake, rows, bounds
<1>4. ASSUME NEW r \in RunId, CancelRun(h, r) PROVE TypeInv'
  BY <1>1, <1>2, <1>4, CancelMoves, JobOnlyTypes DEF CancelRun, rows
<1>5. ASSUME NEW a \in Agent, StopAgent(h, a) PROVE TypeInv'
  <2>1. agentStatus' \in [Agent -> AgentStatus] /\ commands' \in 0..MaxCommands
    BY <1>1, <1>2, <1>5 DEF StopAgent, AgentStatus
  <2> QED
    BY <1>1, <1>5, <2>1, StopMoves, JobOnlyTypes DEF StopAgent
<1>6. ASSUME NEW stale \in SUBSET RunId, ReapTick(h, stale) PROVE TypeInv'
  BY <1>1, <1>6, ReapMoves, JobOnlyTypes DEF ReapTick, rows, bounds
<1> QED
  BY <1>1, <1>3, <1>4, <1>5, <1>6, RestartTypes DEF Arrive

(* The fields of a start lock, likewise.                                     *)
LEMMA PickedType ==
  ASSUME NEW l \in StartLock, NEW v \in SUBSET RunId PROVE [l EXCEPT !.picked = v] \in StartLock
BY DEF StartLock

LEMMA ClaimedType ==
  ASSUME NEW l \in StartLock, NEW v \in RunId \union {0}
  PROVE  [l EXCEPT !.claimed = v] \in StartLock
BY MaxRunsType DEF StartLock, RunId

LEMMA StartedType ==
  ASSUME NEW l \in StartLock, NEW v \in SUBSET RunId PROVE [l EXCEPT !.started = v] \in StartLock
BY DEF StartLock

(* The rows of runs that are claimed keep their agents.                      *)
LEMMA ClaimTypes == ASSUME TypeInv, NEW a \in Agent, Claim(a) PROVE TypeInv'
<1>1. PICK r \in start[a].picked :
        /\ run' = [run EXCEPT ![r].status = IF @ = "queued" THEN "running" ELSE @]
        /\ start' = [start EXCEPT ![a].picked = @ \ {r},
                                  ![a].claimed = IF run[r].status = "queued" THEN r ELSE 0]
  BY DEF Claim
<1>2. /\ r \in RunId /\ run[r].agent = a /\ run[r] \in Row /\ start[a].picked \subseteq RunId
      /\ start \in [Agent -> StartLock]
  BY DEF TypeInv, TypeOK, StartFits, StartLock
<1>3. r <= created /\ run[r].status \in Active \union Terminal
  BY <1>2, SentinelAssumption DEF TypeInv, RowsFilled, NoRun, Row
<1>4. UNCHANGED <<agentStatus, created, lock, deferred, job, proc, bounds>>
  BY DEF Claim
<1>5. RowsKept
  <2> DEFINE value == IF run[r].status = "queued" THEN "running" ELSE run[r].status
  <2>1. value \in Active \union Terminal
    BY <1>3 DEF Active
  <2>2. run' = [run EXCEPT ![r].status = value]
    BY <1>1
  <2> HIDE DEF value
  <2> QED
    BY <1>2, <1>3, <1>4, <2>1, <2>2, StatusUpdated
<1>6. /\ start' \in [Agent -> StartLock]
      /\ StartFits'
  <2>1. created \in 0..MaxRuns
    BY DEF TypeInv, TypeOK
  <2>2. start' \in [Agent -> StartLock]
    <3> DEFINE picked == start[a].picked \ {r}
               claimed == IF run[r].status = "queued" THEN r ELSE 0
    <3>1. start[a] \in StartLock /\ picked \in SUBSET RunId /\ claimed \in RunId \union {0}
      BY <1>2
    <3>2. start' = [start EXCEPT ![a] = [start[a] EXCEPT !.picked = picked, !.claimed = claimed]]
      BY <1>1
    <3> HIDE DEF picked, claimed
    <3>3. [start[a] EXCEPT !.picked = picked, !.claimed = claimed] \in StartLock
      BY <3>1, PickedType, ClaimedType
    <3> QED
      BY <1>2, <3>2, <3>3
  <2>3. ASSUME NEW b \in Agent
        PROVE  /\ start'[b].claimed <= created'
               /\ \A q \in start'[b].started : q <= created'
               /\ \A q \in start'[b].picked : run'[q].agent = b
               /\ start'[b].by = NoJob => start'[b].picked = {}
    <3>1. /\ start'[b].by = start[b].by /\ start'[b].started = start[b].started
          /\ start'[b].picked \subseteq start[b].picked
          /\ start'[b].claimed \in {start[b].claimed, r, 0}
      BY <1>1, <1>2
    <3>2. /\ start[b].claimed <= created /\ \A q \in start[b].started : q <= created
          /\ start[b].picked \subseteq RunId /\ \A q \in start[b].picked : run[q].agent = b
          /\ start[b].by = NoJob => start[b].picked = {}
      BY DEF TypeInv, TypeOK, StartFits, StartLock
    <3> QED
      BY <1>3, <1>4, <1>5, <2>1, <3>1, <3>2 DEF RowsKept
  <2> QED
    BY <2>2, <2>3 DEF StartFits
<1>7. JobsFit' /\ TypeOK'
  BY <1>4, <1>5, <1>6 DEF TypeInv, TypeOK, JobsFit, bounds, RowsKept
<1> QED
  BY <1>5, <1>6, <1>7 DEF TypeInv, RowsKept

LEMMA MarkClaimedTypes == ASSUME TypeInv, NEW a \in Agent, MarkClaimed(a) PROVE TypeInv'
<1> DEFINE r == start[a].claimed
<1>1. /\ r \in RunId /\ r <= created /\ created \in 0..MaxRuns
      /\ start \in [Agent -> StartLock]
  BY MaxRunsType DEF MarkClaimed, TypeInv, TypeOK, StartFits, RunId, StartLock
<1>2. UNCHANGED <<agentStatus, created, lock, deferred, job, proc, bounds>>
  BY DEF MarkClaimed
<1>3. start' = [start EXCEPT ![a].claimed = 0, ![a].started = @ \union {r}]
  BY DEF MarkClaimed
<1> HIDE DEF r
<1>4. RowsKept
  BY <1>1, <1>2, WakeUpdated DEF MarkClaimed, r
<1>5. /\ start' \in [Agent -> StartLock]
      /\ StartFits'
  <2>1. start' \in [Agent -> StartLock]
    <3> DEFINE started == start[a].started \union {r}
    <3>1. start[a] \in StartLock /\ started \in SUBSET RunId
      BY <1>1 DEF StartLock
    <3>2. start' = [start EXCEPT ![a] = [start[a] EXCEPT !.claimed = 0, !.started = started]]
      BY <1>3
    <3> HIDE DEF started
    <3>3. [start[a] EXCEPT !.claimed = 0, !.started = started] \in StartLock
      BY <3>1, ClaimedType, StartedType
    <3> QED
      BY <1>1, <3>2, <3>3
  <2>2. ASSUME NEW b \in Agent
        PROVE  /\ start'[b].claimed <= created'
               /\ \A q \in start'[b].started : q <= created'
               /\ \A q \in start'[b].picked : run'[q].agent = b
               /\ start'[b].by = NoJob => start'[b].picked = {}
    <3>1. /\ start'[b].by = start[b].by /\ start'[b].picked = start[b].picked
          /\ start'[b].started \subseteq start[b].started \union {r}
          /\ start'[b].claimed \in {start[b].claimed, 0}
      BY <1>1, <1>3
    <3>2. /\ start[b].claimed <= created /\ \A q \in start[b].started : q <= created
          /\ start[b].picked \subseteq RunId /\ \A q \in start[b].picked : run[q].agent = b
          /\ start[b].by = NoJob => start[b].picked = {}
      BY DEF TypeInv, TypeOK, StartFits, StartLock
    <3> QED
      BY <1>1, <1>2, <1>4, <3>1, <3>2 DEF RowsKept
  <2> QED
    BY <2>1, <2>2 DEF StartFits
<1>6. JobsFit' /\ TypeOK'
  BY <1>2, <1>4, <1>5 DEF TypeInv, TypeOK, JobsFit, bounds, RowsKept
<1> QED
  BY <1>4, <1>5, <1>6 DEF TypeInv, RowsKept

LEMMA LaunchTypes == ASSUME TypeInv, NEW a \in Agent, Launch(a) PROVE TypeInv'
<1>1. /\ start[a] \in StartLock /\ start[a].started \subseteq RunId
      /\ \A r \in start[a].started : r <= created
      /\ created \in 0..MaxRuns /\ start \in [Agent -> StartLock]
  BY DEF TypeInv, TypeOK, StartFits, StartLock
<1>2. UNCHANGED <<rows, proc, bounds>> /\ created' = created /\ run' = run
  BY DEF Launch, rows
<1>3. ASSUME NEW r \in start[a].started
      PROVE  LET state == [IdleJob EXCEPT !.op = "exec", !.pc = "load", !.run = r]
             IN  state \in Job /\ JobFits(state, created)
  <2>1. r \in RunId /\ r \in 1..MaxRuns /\ r <= created
    BY <1>1 DEF RunId
  <2> DEFINE state == [IdleJob EXCEPT !.op = "exec", !.pc = "load", !.run = r]
  <2>2. state \in Job
    BY <2>1, IdleType, OpType, PcType, RunType DEF RunPc
  <2>3. r # 0
    BY <2>1, MaxRunsType
  <2>4. JobFits(state, created)
    BY <1>1, <2>1, <2>3 DEF IdleJob, JobFits, RunPc
  <2> QED
    BY <2>2, <2>4
<1>4. \A j \in JobId : Returned(j) \in Job /\ JobFits(Returned(j), created)
  BY <1>1, JobHas, ReturnedFits DEF Returned
<1>5. ASSUME NEW j \in JobId PROVE job'[j] \in Job /\ JobFits(job'[j], created)
  <2>1. job'[j] = IF j \in start[a].started
                  THEN [IdleJob EXCEPT !.op = "exec", !.pc = "load", !.run = j]
                  ELSE IF j = start[a].by THEN Returned(j) ELSE job[j]
    BY DEF Launch
  <2> QED
    BY <1>3, <1>4, <2>1, JobHas
<1>6. job' \in [JobId -> Job]
  <2>1. job' = [j \in JobId |-> job'[j]]
    BY DEF Launch
  <2> QED
    BY <1>5, <2>1
<1>7. JobsFit'
  BY <1>2, <1>5 DEF JobsFit
<1>8. Free \in StartLock
  BY MaxRunsType DEF Free, StartLock
<1>9. start' = [start EXCEPT ![a] = Free]
  BY DEF Launch
<1>10. start' \in [Agent -> StartLock]
  BY <1>1, <1>8, <1>9
<1>11. StartFits'
  <2>1. ASSUME NEW b \in Agent
        PROVE  /\ start'[b].claimed <= created
               /\ \A r \in start'[b].started : r <= created
               /\ \A r \in start'[b].picked : run[r].agent = b
               /\ start'[b].by = NoJob => start'[b].picked = {}
    <3>1. CASE b = a
      BY <1>1, <1>9, <3>1, MaxRunsType DEF Free
    <3>2. CASE b # a
      BY <1>1, <1>9, <3>2 DEF TypeInv, StartFits
    <3> QED
      BY <3>1, <3>2
  <2> QED
    BY <1>2, <2>1 DEF StartFits
<1>12. RowsFilled'
  BY <1>2 DEF TypeInv, RowsFilled
<1>13. TypeOK'
  BY <1>2, <1>6, <1>10 DEF TypeInv, TypeOK, rows, bounds
<1> QED
  BY <1>7, <1>11, <1>12, <1>13 DEF TypeInv

LEMMA PickedQueued ==
  ASSUME NEW a \in Agent PROVE Picked(a) \subseteq Queued(a)
BY DEF Picked, Oldest

LEMMA AcquireTypes == ASSUME TypeInv, NEW j \in JobId, Acquire(j) PROVE TypeInv'
<1> DEFINE a == job[j].agent
           held == [Free EXCEPT !.by = j, !.picked = Picked(a)]
<1>1. a \in Agent /\ created \in 0..MaxRuns /\ start \in [Agent -> StartLock]
  BY JobHas DEF Acquire, At, JobFits, TypeInv, TypeOK
<1>2. UNCHANGED <<rows, proc, bounds>> /\ created' = created /\ run' = run
  BY DEF Acquire, rows
<1>3. job' \in [JobId -> Job] /\ JobsFit'
  BY <1>1, <1>2, AcquireMoves, JobMoves
<1>4. start' = start \/ start' = [start EXCEPT ![a] = held]
  BY DEF Acquire
<1>5. Picked(a) \subseteq RunId /\ \A r \in Picked(a) : run[r].agent = a
  BY <1>1, PickedQueued DEF Queued
<1>6. held \in StartLock
  <2> DEFINE mine == [Free EXCEPT !.by = j]
  <2>1. mine = [by |-> j, picked |-> {}, claimed |-> 0, started |-> {}]
    BY DEF Free
  <2>2. mine \in StartLock
    BY <2>1, MaxRunsType DEF StartLock
  <2>3. held = [mine EXCEPT !.picked = Picked(a)]
    BY DEF Free
  <2> HIDE DEF mine
  <2> QED
    BY <1>5, <2>2, <2>3, PickedType
<1>7. /\ held.claimed = 0 /\ held.started = {} /\ held.picked = Picked(a)
      /\ held.by = j
  BY DEF Free
<1> HIDE DEF held
<1>8. start' \in [Agent -> StartLock]
  BY <1>1, <1>4, <1>6
<1>9. StartFits'
  <2>1. ASSUME NEW b \in Agent
        PROVE  /\ start'[b].claimed <= created
               /\ \A r \in start'[b].started : r <= created
               /\ \A r \in start'[b].picked : run[r].agent = b
               /\ start'[b].by = NoJob => start'[b].picked = {}
    <3>1. CASE start'[b] = held /\ b = a
      BY <1>1, <1>5, <1>7, <3>1, SentinelAssumption, MaxRunsType
    <3>2. CASE start'[b] = start[b]
      BY <3>2 DEF TypeInv, StartFits
    <3> QED
      BY <1>1, <1>4, <3>1, <3>2
  <2> QED
    BY <1>2, <2>1 DEF StartFits
<1>10. RowsFilled'
  BY <1>2 DEF TypeInv, RowsFilled
<1>11. TypeOK'
  BY <1>2, <1>3, <1>8 DEF TypeInv, TypeOK, rows, bounds
<1> QED
  BY <1>3, <1>9, <1>10, <1>11 DEF TypeInv

LEMMA ResumeTypes == ASSUME TypeInv, NEW a \in Agent, ResumeAgent(a) PROVE TypeInv'
<1>1. agentStatus' \in [Agent -> AgentStatus] /\ commands' \in 0..MaxCommands
  BY BoundsAssumption DEF ResumeAgent, Command, TypeInv, TypeOK, AgentStatus
<1>2. UNCHANGED <<run, created, lock, deferred, job, start, proc, crashes>>
  BY DEF ResumeAgent
<1> QED
  BY <1>1, <1>2 DEF TypeInv, TypeOK, RowsFilled, JobsFit, StartFits

LEMMA InitTypes == Init => TypeInv
<1> SUFFICES ASSUME Init PROVE TypeInv
  OBVIOUS
<1>1. 0 \in 0..MaxRuns /\ 0 \in 0..MaxCommands /\ 0 \in 0..MaxCrashes
  BY BoundsAssumption
<1>2. Free \in StartLock /\ NoRun \in Row
  BY <1>1 DEF Free, StartLock, NoRun, Row
<1>3. TypeOK
  BY <1>1, <1>2, IdleType DEF Init, TypeOK, Unlocked, AgentStatus
<1>4. RowsFilled
  BY MaxRunsType DEF Init, RowsFilled, RunId
<1>5. JobsFit
  BY <1>1, IdleFits DEF Init, JobsFit
<1>6. StartFits
  BY DEF Init, StartFits, Free
<1> QED
  BY <1>3, <1>4, <1>5, <1>6 DEF TypeInv

LEMMA NextTypes == TypeInv /\ [Next]_vars => TypeInv'
<1> SUFFICES ASSUME TypeInv, [Next]_vars PROVE TypeInv'
  OBVIOUS
<1>1. ASSUME NEW j \in JobId, Step(j) PROVE TypeInv'
  BY <1>1, ExecuteTypes, SettleRunTypes, ServeTypes DEF Step
<1>2. ASSUME NEW a \in Agent, StartLoop(a) PROVE TypeInv'
  BY <1>2, ClaimTypes, MarkClaimedTypes, LaunchTypes DEF StartLoop
<1>3. CASE UNCHANGED vars
  BY <1>3 DEF vars, TypeInv, TypeOK, RowsFilled, JobsFit, StartFits
<1> QED
  BY <1>1, <1>2, <1>3, AcquireTypes, ResumeTypes, ArriveTypes DEF Next

(* Every row, call and start lock stays well formed, and no statement ever   *)
(* uses a local it was not given: a call about a run names an inserted one,  *)
(* a call that writes a status has one to write.                             *)
THEOREM TypeCorrect == Spec => []TypeOK
<1>1. TypeInv => TypeOK
  BY DEF TypeInv
<1> QED
  BY <1>1, InitTypes, NextTypes, PTL DEF Spec

-----------------------------------------------------------------------------
(* The limit on running runs.                                                *)

LEMMA RunIdsFinite == IsFiniteSet(RunId) /\ RunId \subseteq Nat
BY MaxRunsType, FS_Interval DEF RunId

LEMMA SubsetCardinality ==
  ASSUME NEW S \in SUBSET RunId, NEW T \in SUBSET S
  PROVE  /\ IsFiniteSet(S) /\ Cardinality(S) \in Nat
         /\ IsFiniteSet(T) /\ Cardinality(T) \in Nat
         /\ Cardinality(T) <= Cardinality(S)
         /\ Cardinality(T) = Cardinality(S) => T = S
<1>1. IsFiniteSet(S)
  BY RunIdsFinite, FS_Subset
<1>2. /\ IsFiniteSet(T) /\ Cardinality(T) <= Cardinality(S)
      /\ Cardinality(S) = Cardinality(T) => S = T
  BY <1>1, FS_Subset
<1> QED
  BY <1>1, <1>2, FS_CardinalityType

(* The n oldest runs of a set are at most n: no two of them have the same    *)
(* number of runs of the set before them, and that number is less than n.    *)
LEMMA OldestBound ==
  ASSUME NEW S \in SUBSET RunId, NEW n \in Nat
  PROVE  Cardinality(Oldest(n, S)) <= n
<1> DEFINE before(r) == {q \in S : q < r}
           O == Oldest(n, S)
           f == [r \in O |-> Cardinality(before(r))]
<1>1. O \in SUBSET S /\ \A r \in O : Cardinality(before(r)) < n
  BY DEF Oldest
<1>2. IsFiniteSet(O) /\ Cardinality(O) \in Nat
  BY <1>1, SubsetCardinality
<1>3. \A r \in S : Cardinality(before(r)) \in Nat
  BY SubsetCardinality
<1>4. f \in [O -> 0..n-1]
  BY <1>1, <1>3
<1>5. ASSUME NEW r \in O, NEW q \in O, r < q PROVE f[r] # f[q]
  <2>1. r \in Nat /\ q \in Nat /\ r \in S /\ q \in S
    BY <1>1, RunIdsFinite
  <2>2. before(r) \subseteq before(q)
    <3>1. ASSUME NEW p \in S, p < r PROVE p < q
      <4>1. p \in Nat
        BY RunIdsFinite
      <4> QED
        BY <1>5, <2>1, <3>1, <4>1
    <3> QED
      BY <3>1
  <2>3. r \in before(q) /\ r \notin before(r)
    BY <1>5, <2>1
  <2>4. before(q) \in SUBSET RunId
    OBVIOUS
  <2>5. Cardinality(before(r)) # Cardinality(before(q))
    BY <2>2, <2>3, <2>4, SubsetCardinality
  <2> QED
    BY <2>5
<1> HIDE DEF O, f
<1>6. IsFiniteSet(0..n-1) /\ Cardinality(0..n-1) = n
  BY FS_Interval
<1>7. \A r, q \in O : r # q => f[r] # f[q]
  <2> SUFFICES ASSUME NEW r \in O, NEW q \in O, r # q PROVE f[r] # f[q]
    OBVIOUS
  <2>1. r < q \/ q < r
    BY <1>1, RunIdsFinite
  <2> QED
    BY <1>5, <2>1
<1>8. ~(n < Cardinality(O))
  BY <1>2, <1>4, <1>6, <1>7, FS_PigeonHole
<1> QED
  BY <1>2, <1>8 DEF O

(* What a start lock picks fits beside the running runs.                     *)
LEMMA PickedFits ==
  ASSUME TypeInv, SlotsReserved, NEW a \in Agent
  PROVE  Picked(a) = {} \/ Cardinality(Running(a) \union Picked(a)) <= MaxConcurrent[a]
<1> DEFINE busy == Cardinality(Running(a))
           free == MaxConcurrent[a] - busy
<1>1. Running(a) \in SUBSET RunId /\ Queued(a) \in SUBSET RunId
  BY DEF Running, Queued
<1>2. IsFiniteSet(Running(a)) /\ busy \in Nat /\ MaxConcurrent[a] \in Nat
  BY <1>1, SubsetCardinality, ConcurrencyAssumption
<1>3. CASE busy < MaxConcurrent[a]
  <2>1. free \in Nat /\ Picked(a) = Oldest(free, Queued(a))
    BY <1>2, <1>3 DEF Picked
  <2>2. Cardinality(Picked(a)) <= free
    BY <1>1, <2>1, OldestBound
  <2>3. Picked(a) \in SUBSET RunId
    BY <1>1, PickedQueued
  <2>4. IsFiniteSet(Picked(a)) /\ Cardinality(Picked(a)) \in Nat
    BY <2>3, SubsetCardinality
  <2>5. Running(a) \intersect Picked(a) \in SUBSET RunId
    BY <1>1
  <2>6. Cardinality(Running(a) \intersect Picked(a)) \in Nat
    BY <2>5, SubsetCardinality
  <2>7. Cardinality(Running(a) \union Picked(a))
          = busy + Cardinality(Picked(a)) - Cardinality(Running(a) \intersect Picked(a))
    BY <1>2, <2>4, FS_Union
  <2> QED
    BY <1>2, <2>1, <2>2, <2>4, <2>6, <2>7
<1>4. CASE ~(busy < MaxConcurrent[a])
  BY <1>4 DEF Picked
<1> QED
  BY <1>3, <1>4

(* Steps after which an agent holds no slot it did not hold before.          *)
LEMMA SlotsShrink ==
  ASSUME SlotsReserved, TypeInv,
         \A a \in Agent : Running(a)' \union start'[a].picked
                            \subseteq Running(a) \union start[a].picked
  PROVE  SlotsReserved'
<1> SUFFICES ASSUME NEW a \in Agent
             PROVE  Cardinality(Running(a)' \union start'[a].picked) <= MaxConcurrent[a]
  BY DEF SlotsReserved
<1> DEFINE now == Running(a) \union start[a].picked
           then == Running(a)' \union start'[a].picked
<1>1. now \in SUBSET RunId /\ then \in SUBSET now
  BY DEF Running, TypeInv, TypeOK, StartLock
<1>2. Cardinality(now) <= MaxConcurrent[a]
  BY DEF SlotsReserved
<1> HIDE DEF now, then
<1>3. Cardinality(then) \in Nat /\ Cardinality(now) \in Nat /\ Cardinality(then) <= Cardinality(now)
  BY <1>1, SubsetCardinality
<1>4. MaxConcurrent[a] \in Nat
  BY ConcurrencyAssumption
<1> QED
  BY <1>2, <1>3, <1>4 DEF then

(* No run has begun to run.                                                  *)
NoneStarts == \A a \in Agent : Running(a)' \subseteq Running(a)

LEMMA InsertStartsNone ==
  ASSUME TypeInv, NEW b \in Agent, NEW s \in Issue \union {NoIssue}, Insert(b, s)
  PROVE  NoneStarts
<1> SUFFICES ASSUME NEW r \in RunId, run'[r].status = "running"
             PROVE  run'[r] = run[r]
  BY DEF NoneStarts, Running
<1> QED
  BY DEF Insert, TypeInv, TypeOK

LEMMA SameRunsStartNone == UNCHANGED run => NoneStarts
BY DEF NoneStarts, Running

LEMMA UpdateStartsNone ==
  ASSUME TypeInv, NEW q \in RunId, NEW value,
         \/ value \in Terminal /\ run' = [run EXCEPT ![q].status = value]
         \/ run' = [run EXCEPT ![q].wake = value]
         \/ run' = [run EXCEPT ![q].answers = value]
  PROVE  NoneStarts
<1> SUFFICES ASSUME NEW r \in RunId, run'[r].status = "running"
             PROVE  run'[r].agent = run[r].agent /\ run[r].status = "running"
  BY DEF NoneStarts, Running
<1>1. run[r] \in Row /\ run[q] \in Row
  BY DEF TypeInv, TypeOK
<1>2. CASE r # q
  BY <1>2 DEF TypeInv, TypeOK
<1>3. CASE r = q
  <2>1. \/ value \in Terminal /\ run'[r] = [run[r] EXCEPT !.status = value]
        \/ run'[r] = [run[r] EXCEPT !.wake = value]
        \/ run'[r] = [run[r] EXCEPT !.answers = value]
    BY <1>3 DEF TypeInv, TypeOK
  <2> QED
    BY <1>1, <2>1 DEF Row, Terminal
<1> QED
  BY <1>2, <1>3

LEMMA CoalesceStartsNone ==
  ASSUME TypeInv, NEW r, NEW a, Coalesce(r, a) PROVE NoneStarts
<1>1. CASE r \in RunId
  BY <1>1, UpdateStartsNone DEF Coalesce
<1>2. CASE r \notin RunId
  <2>1. run' = run
    BY <1>2 DEF Coalesce, TypeInv, TypeOK
  <2> QED
    BY <2>1, SameRunsStartNone
<1> QED
  BY <1>1, <1>2

(* Steps that leave the start locks alone and start no run.                  *)
LEMMA LocksKept ==
  ASSUME SlotsReserved, TypeInv, NoneStarts, start' = start PROVE SlotsReserved'
<1>1. \A a \in Agent : Running(a)' \union start'[a].picked
                         \subseteq Running(a) \union start[a].picked
  BY DEF NoneStarts
<1> QED
  BY <1>1, SlotsShrink

LEMMA StepSlots ==
  ASSUME SlotsReserved, TypeInv, NEW j \in JobId, Step(j) PROVE SlotsReserved'
<1>1. ASSUME Execute(j) PROVE run' = run /\ start' = start
  BY <1>1 DEF Execute, Load, PreparationThrows, MarkAgentRunning, Spawn, AdapterReturns,
              AdapterThrows, RecordCost, rows
<1>2. ASSUME SettleRun(j) PROVE NoneStarts /\ start' = start
  <2>1. ASSUME SetRunStatus(j) \/ SetWakeupStatus(j) PROVE NoneStarts
    <3>1. job[j].run \in RunId /\ job[j].value \in Terminal /\ run[job[j].run].agent \in Agent
      BY <2>1, JobHas, RunHasAgent DEF SetRunStatus, SetWakeupStatus, At, JobFits, RunPc
    <3> QED
      BY <2>1, <3>1, UpdateStartsNone DEF SetRunStatus, SetWakeupStatus
  <2>2. ASSUME Release(j) PROVE NoneStarts
    <3>1. ASSUME NEW s \in Issue, NEW i \in Invokable(s), Promote(j, s, i) PROVE NoneStarts
      <4>1. deferred[s][i] \in Agent
        BY DEF Invokable, TypeInv, TypeOK
      <4> QED
        BY <3>1, <4>1, InsertStartsNone DEF Promote
    <3> QED
      BY <2>2, <3>1, SameRunsStartNone DEF Release, FreeIssue
  <2>3. ASSUME ReadAgent(j) \/ WriteAgent(j) PROVE NoneStarts
    BY <2>3, SameRunsStartNone DEF ReadAgent, WriteAgent, rows
  <2>4. start' = start
    BY <1>2 DEF SettleRun, SetRunStatus, SetWakeupStatus, Release, ReadAgent, WriteAgent
  <2> QED
    BY <1>2, <2>1, <2>2, <2>3, <2>4 DEF SettleRun
<1>3. ASSUME Serve(j) PROVE NoneStarts /\ start' = start
  <2>1. ASSUME EnqueueOnIssue(j) PROVE NoneStarts
    <3>1. job[j].agent \in Agent /\ job[j].issue \in Issue
      BY <2>1, JobHas DEF EnqueueOnIssue, At, JobFits
    <3> DEFINE s == job[j].issue
               owner == IF LockRun(s) # 0 THEN LockRun(s) ELSE LegacyRun(s)
    <3>2. CASE Coalesce(owner, job[j].agent) /\ owner # 0
      BY <3>2, CoalesceStartsNone
    <3>3. CASE run' = run
      BY <3>3, SameRunsStartNone
    <3>4. CASE Insert(job[j].agent, s)
      BY <3>1, <3>4, InsertStartsNone
    <3> QED
      BY <2>1, <3>2, <3>3, <3>4 DEF EnqueueOnIssue
  <2>2. ASSUME Scan(j) PROVE NoneStarts
    BY <2>2, CoalesceStartsNone, SameRunsStartNone DEF Scan
  <2>3. ASSUME InsertRun(j) PROVE NoneStarts
    <3>1. job[j].agent \in Agent /\ job[j].issue \in Issue \union {NoIssue}
      BY <2>3, JobHas DEF InsertRun, At, JobFits, Job
    <3> QED
      BY <2>3, <3>1, InsertStartsNone DEF InsertRun
  <2>4. ASSUME Snapshot(j) \/ NextOfSnapshot(j) PROVE NoneStarts
    BY <2>4, SameRunsStartNone DEF Snapshot, NextOfSnapshot, rows
  <2>5. start' = start
    BY <1>3 DEF Serve, EnqueueOnIssue, Scan, InsertRun, Snapshot, NextOfSnapshot
  <2> QED
    BY <1>3, <2>1, <2>2, <2>3, <2>4, <2>5 DEF Serve
<1> QED
  BY <1>1, <1>2, <1>3, SameRunsStartNone, LocksKept DEF Step

(* Acquire reserves the slots; Claim turns a reserved slot into a used one.  *)
LEMMA AcquireSlots ==
  ASSUME SlotsReserved, TypeInv, NEW j \in JobId, Acquire(j) PROVE SlotsReserved'
<1> DEFINE a == job[j].agent
           held == [Free EXCEPT !.by = j, !.picked = Picked(a)]
<1>1. a \in Agent /\ start \in [Agent -> StartLock] /\ run' = run
  BY JobHas DEF Acquire, At, JobFits, TypeInv, TypeOK, rows
<1>2. CASE start' = start
  BY <1>1, <1>2, SameRunsStartNone, LocksKept
<1>3. CASE Picked(a) # {} /\ start' = [start EXCEPT ![a] = held]
  <2>1. held.picked = Picked(a)
    BY DEF Free
  <2> HIDE DEF held
  <2>2. ASSUME NEW b \in Agent
        PROVE  Cardinality(Running(b)' \union start'[b].picked) <= MaxConcurrent[b]
    <3>1. Running(b)' = Running(b)
      BY <1>1 DEF Running
    <3>2. CASE b = a
      <4>1. start'[b].picked = Picked(a)
        BY <1>1, <1>3, <2>1, <3>2
      <4> QED
        BY <1>3, <3>1, <3>2, <4>1, PickedFits
    <3>3. CASE b # a
      <4>1. start'[b].picked = start[b].picked
        BY <1>1, <1>3, <3>3
      <4> QED
        BY <3>1, <4>1 DEF SlotsReserved
    <3> QED
      BY <3>2, <3>3
  <2> QED
    BY <2>2 DEF SlotsReserved
<1> QED
  BY <1>2, <1>3 DEF Acquire

LEMMA ClaimSlots ==
  ASSUME SlotsReserved, TypeInv, NEW a \in Agent, Claim(a) PROVE SlotsReserved'
<1>1. PICK r \in start[a].picked :
        /\ run' = [run EXCEPT ![r].status = IF @ = "queued" THEN "running" ELSE @]
        /\ start' = [start EXCEPT ![a].picked = @ \ {r},
                                  ![a].claimed = IF run[r].status = "queued" THEN r ELSE 0]
  BY DEF Claim
<1>2. /\ r \in RunId /\ run[r].agent = a /\ run \in [RunId -> Row]
      /\ start \in [Agent -> StartLock]
  BY DEF TypeInv, TypeOK, StartFits, StartLock
<1>3. ASSUME NEW b \in Agent
      PROVE  Running(b)' \union start'[b].picked \subseteq Running(b) \union start[b].picked
  <2>1. start'[b].picked \subseteq start[b].picked
    BY <1>1, <1>2
  <2>2. ASSUME NEW q \in Running(b)' PROVE q \in Running(b) \/ (b = a /\ q = r)
    <3>1. q \in RunId /\ run'[q].agent = b /\ run'[q].status = "running"
      BY DEF Running
    <3>2. CASE q = r
      <4>1. run'[q].agent = run[r].agent
        BY <1>1, <1>2, <3>2
      <4> QED
        BY <1>2, <3>1, <3>2, <4>1
    <3>3. CASE q # r
      <4>1. run'[q] = run[q]
        BY <1>1, <1>2, <3>1, <3>3
      <4> QED
        BY <3>1, <4>1 DEF Running
    <3> QED
      BY <3>2, <3>3
  <2> QED
    BY <1>1, <2>1, <2>2
<1> QED
  BY <1>3, SlotsShrink

LEMMA LoopSlots ==
  ASSUME SlotsReserved, TypeInv, NEW a \in Agent, StartLoop(a) PROVE SlotsReserved'
<1>1. start \in [Agent -> StartLock]
  BY DEF TypeInv, TypeOK
<1>2. ASSUME MarkClaimed(a) PROVE SlotsReserved'
  <2>1. start[a].claimed \in RunId
    BY <1>2, MaxRunsType DEF MarkClaimed, TypeInv, TypeOK, StartLock, RunId
  <2>2. NoneStarts
    BY <1>2, <2>1, UpdateStartsNone DEF MarkClaimed
  <2>3. \A b \in Agent : start'[b].picked = start[b].picked
    BY <1>1, <1>2 DEF MarkClaimed
  <2> QED
    BY <2>2, <2>3, SlotsShrink DEF NoneStarts
<1>3. ASSUME Launch(a) PROVE SlotsReserved'
  <2>1. NoneStarts
    BY <1>3, SameRunsStartNone DEF Launch, rows
  <2>2. \A b \in Agent : start'[b].picked \subseteq start[b].picked
    BY <1>1, <1>3 DEF Launch, Free
  <2> QED
    BY <2>1, <2>2, SlotsShrink DEF NoneStarts
<1> QED
  BY <1>2, <1>3, ClaimSlots DEF StartLoop

LEMMA ArriveSlots ==
  ASSUME SlotsReserved, TypeInv, NEW h \in Handler, Arrive(h) PROVE SlotsReserved'
<1>1. run' = run
  BY DEF Arrive, ReceiveWake, CancelRun, StopAgent, ReapTick, Restart, rows
<1>2. NoneStarts
  BY <1>1, SameRunsStartNone
<1>3. start' = start \/ start' = [a \in Agent |-> Free]
  BY DEF Arrive, ReceiveWake, CancelRun, StopAgent, ReapTick, Restart
<1>4. \A a \in Agent : start'[a].picked \subseteq start[a].picked
  BY <1>3 DEF Free
<1> QED
  BY <1>2, <1>4, SlotsShrink DEF NoneStarts

LEMMA InitSlots == Init => SlotsReserved
<1> SUFFICES ASSUME Init, NEW a \in Agent
             PROVE  Cardinality(Running(a) \union start[a].picked) <= MaxConcurrent[a]
  BY DEF SlotsReserved
<1>1. Running(a) \union start[a].picked = {}
  <2>1. start[a].picked = {}
    BY DEF Init, Free
  <2>2. Running(a) = {}
    BY DEF Init, Running, NoRun
  <2> QED
    BY <2>1, <2>2
<1>2. Cardinality(Running(a) \union start[a].picked) = 0
  BY <1>1, FS_EmptySet, Zenon
<1>3. MaxConcurrent[a] \in Nat
  BY ConcurrencyAssumption
<1> QED
  BY <1>2, <1>3

LEMMA NextSlots == TypeInv /\ SlotsReserved /\ [Next]_vars => SlotsReserved'
<1> SUFFICES ASSUME TypeInv, SlotsReserved, [Next]_vars PROVE SlotsReserved'
  OBVIOUS
<1>1. ASSUME NEW a \in Agent, ResumeAgent(a) PROVE SlotsReserved'
  BY <1>1, SameRunsStartNone, LocksKept DEF ResumeAgent
<1>2. CASE UNCHANGED vars
  BY <1>2, SameRunsStartNone, LocksKept DEF vars
<1> QED
  BY <1>1, <1>2, StepSlots, AcquireSlots, LoopSlots, ArriveSlots DEF Next

(* An agent never has more running runs than heartbeat.maxConcurrentRuns,    *)
(* whatever calls are in progress and wherever the server is restarted.      *)
THEOREM SlotsBounded == Spec => []RunningBounded
<1>1. TypeInv /\ SlotsReserved => RunningBounded
  <2> SUFFICES ASSUME TypeInv, SlotsReserved, NEW a \in Agent
               PROVE  Cardinality(Running(a)) <= MaxConcurrent[a]
    BY DEF RunningBounded
  <2> DEFINE taken == Running(a) \union start[a].picked
  <2>1. taken \in SUBSET RunId /\ Running(a) \in SUBSET taken
    BY DEF Running, TypeInv, TypeOK, StartLock
  <2>2. Cardinality(taken) <= MaxConcurrent[a] /\ MaxConcurrent[a] \in Nat
    BY ConcurrencyAssumption DEF SlotsReserved
  <2> HIDE DEF taken
  <2>3. /\ Cardinality(taken) \in Nat /\ Cardinality(Running(a)) \in Nat
        /\ Cardinality(Running(a)) <= Cardinality(taken)
    BY <2>1, SubsetCardinality
  <2> QED
    BY <2>2, <2>3
<1> QED
  BY <1>1, InitTypes, NextTypes, InitSlots, NextSlots, PTL DEF Spec
=============================================================================
