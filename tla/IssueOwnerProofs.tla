-------------------------- MODULE IssueOwnerProofs --------------------------
(* Theorems about HeartbeatRuns: its issue execution lock, which implements  *)
(* IssueGate, the wakes that run, wait and merge through it, the executions  *)
(* and their wakeup requests, and the composition with IssueCheckout.  Those *)
(* that an issue has one run are for companies where nobody is mentioned: a  *)
(* mention is the one wake that bypasses the lock.                           *)
EXTENDS HeartbeatRunsProofs, IssueRuns

(* The statements after the terminal status has been written.                *)
SettledPc == {"wakeup", "release"}

(* The execution lock of an issue points to the issue's only active run.     *)
LockOwns ==
  \A r \in RunId, s \in Issue : IsActive(r) /\ run[r].issue = s => lock[s].run = r

(* A run that is being released is over, and stays so.                       *)
SettledIsOver ==
  \A j \in JobId : job[j].pc \in SettledPc => ~IsActive(job[j].run)

(* Without mentions only wakes without an issue go past the lock.            *)
ScansNoIssue == \A j \in JobId : job[j].pc \in {"scan", "insert"} => job[j].issue = NoIssue

OwnerInv == LockOwns /\ SettledIsOver /\ ScansNoIssue

-----------------------------------------------------------------------------
(* Runs: which steps make a run active, and the release of a lock.           *)

(* No run becomes active, or changes its issue.                              *)
NoneEnters ==
  \A r \in RunId : run'[r].status \in Active => IsActive(r) /\ run'[r].issue = run[r].issue

(* No inserted run becomes active.                                           *)
OverStays == \A r \in RunId : r <= created /\ run'[r].status \in Active => IsActive(r)

LEMMA UpdateEntersNone ==
  ASSUME TypeInv, NEW q, NEW value,
         \/ value \in Terminal /\ run' = [run EXCEPT ![q].status = value]
         \/ run' = [run EXCEPT ![q].wake = value]
         \/ run' = [run EXCEPT ![q].answers = value]
  PROVE  NoneEnters
<1> SUFFICES ASSUME NEW r \in RunId, run'[r].status \in Active
             PROVE  run'[r].issue = run[r].issue /\ run[r].status \in Active
  BY DEF NoneEnters, IsActive
<1>1. run[r] \in Row /\ run \in [RunId -> Row]
  BY DEF TypeInv, TypeOK
<1>2. CASE r # q
  BY <1>1, <1>2
<1>3. CASE r = q
  <2>1. \/ value \in Terminal /\ run'[r] = [run[r] EXCEPT !.status = value]
        \/ run'[r] = [run[r] EXCEPT !.wake = value]
        \/ run'[r] = [run[r] EXCEPT !.answers = value]
    BY <1>1, <1>3
  <2> QED
    BY <1>1, <2>1 DEF Row, Terminal, Active
<1> QED
  BY <1>2, <1>3

LEMMA SameRunsEnterNone == UNCHANGED run => NoneEnters
BY DEF NoneEnters, IsActive

LEMMA ClaimEntersNone ==
  ASSUME TypeInv, NEW a \in Agent, Claim(a) PROVE NoneEnters
<1>1. PICK q \in start[a].picked :
        run' = [run EXCEPT ![q].status = IF @ = "queued" THEN "running" ELSE @]
  BY DEF Claim
<1> SUFFICES ASSUME NEW r \in RunId, run'[r].status \in Active
             PROVE  run'[r].issue = run[r].issue /\ run[r].status \in Active
  BY DEF NoneEnters, IsActive
<1>2. run[r] \in Row /\ run \in [RunId -> Row]
  BY DEF TypeInv, TypeOK
<1>3. CASE r # q
  BY <1>1, <1>2, <1>3
<1>4. CASE r = q
  <2> DEFINE value == IF run[r].status = "queued" THEN "running" ELSE run[r].status
  <2>1. run'[r] = [run[r] EXCEPT !.status = value]
    BY <1>1, <1>2, <1>4
  <2>2. run'[r].status = value /\ run'[r].issue = run[r].issue
    BY <1>2, <2>1 DEF Row
  <2> QED
    BY <2>2 DEF Active
<1> QED
  BY <1>3, <1>4

(* A new run takes the lock of an issue that has no active run.              *)
LEMMA EnterOwns ==
  ASSUME TypeInv, LockOwns, NEW a \in Agent, NEW s \in Issue, Insert(a, s),
         \A r \in RunId : IsActive(r) => run[r].issue # s,
         lock' = [lock EXCEPT ![s] = [run |-> created + 1, name |-> a]]
  PROVE  LockOwns' /\ OverStays
<1>1. created + 1 \in RunId /\ created \in Nat
  BY InsertTypes, MaxRunsType DEF TypeInv, TypeOK
<1>2. /\ run \in [RunId -> Row]
      /\ lock \in [Issue -> [run : 0..MaxRuns, name : Agent \union {NoAgent}]]
  BY DEF TypeInv, TypeOK
<1>3. \A r \in RunId : r # created + 1 => run'[r] = run[r]
  BY <1>2 DEF Insert
<1>4. run'[created + 1].issue = s
  BY <1>1, <1>2 DEF Insert
<1>5. ASSUME NEW r \in RunId, NEW z \in Issue, run'[r].status \in Active, run'[r].issue = z
      PROVE  lock'[z].run = r
  <2>1. CASE r = created + 1
    BY <1>2, <1>4, <1>5, <2>1
  <2>2. CASE r # created + 1
    <3>1. IsActive(r) /\ run[r].issue = z /\ lock[z].run = r
      BY <1>3, <1>5, <2>2 DEF IsActive, LockOwns
    <3>2. z # s
      BY <3>1
    <3> QED
      BY <1>2, <3>1, <3>2
  <2> QED
    BY <2>1, <2>2
<1>6. ASSUME NEW r \in RunId, r <= created, run'[r].status \in Active PROVE IsActive(r)
  <2>1. r # created + 1
    BY <1>1, <1>6, RunIdsFinite
  <2> QED
    BY <1>3, <1>6, <2>1 DEF IsActive
<1> QED
  BY <1>5, <1>6 DEF LockOwns, OverStays, IsActive

LEMMA KeptOwns ==
  ASSUME LockOwns, NoneEnters, lock' = lock PROVE LockOwns' /\ OverStays
BY DEF LockOwns, NoneEnters, OverStays, IsActive

(* The issue of a lock whose run is over has no active run.                  *)
LEMMA OverFrees ==
  ASSUME LockOwns, NEW s \in Issue, ~IsActive(lock[s].run)
  PROVE  \A r \in RunId : IsActive(r) => run[r].issue # s
BY DEF LockOwns

-----------------------------------------------------------------------------
(* Calls: who comes to the statements the invariant speaks of.               *)

CarefulPc == SettledPc \union {"scan", "insert"}

NoneComes == \A j \in JobId : job'[j].pc \in CarefulPc => job'[j] = job[j]

LEMMA OneComesNot ==
  ASSUME TypeInv, NEW j \in JobId, NEW state \in Job, state.pc \notin CarefulPc,
         job' = [job EXCEPT ![j] = state]
  PROVE  NoneComes
BY DEF NoneComes, TypeInv, TypeOK

LEMMA KeptCalls ==
  ASSUME TypeInv, SettledIsOver, ScansNoIssue, NoneComes, OverStays
  PROVE  SettledIsOver' /\ ScansNoIssue'
<1>1. ASSUME NEW j \in JobId, job'[j].pc \in SettledPc PROVE run'[job'[j].run].status \notin Active
  <2>1. job'[j] = job[j] /\ ~IsActive(job[j].run)
    BY <1>1 DEF NoneComes, CarefulPc, SettledIsOver
  <2>2. job[j].run \in RunId /\ job[j].run <= created
    BY <1>1, <2>1, JobHas, RunHasAgent DEF SettledPc, RunPc, JobFits
  <2> QED
    BY <2>1, <2>2 DEF OverStays
<1>2. ASSUME NEW j \in JobId, job'[j].pc \in {"scan", "insert"} PROVE job'[j].issue = NoIssue
  BY <1>2 DEF NoneComes, CarefulPc, ScansNoIssue
<1> QED
  BY <1>1, <1>2 DEF SettledIsOver, ScansNoIssue, IsActive

(* Steps that change neither the rows of runs nor the locks.                 *)
LEMMA QuietStep ==
  ASSUME TypeInv, OwnerInv, NoneEnters, NoneComes, lock' = lock PROVE OwnerInv'
BY KeptOwns, KeptCalls DEF OwnerInv

-----------------------------------------------------------------------------
(* Every step preserves OwnerInv.                                            *)

LEMMA ExecuteComesNot == ASSUME TypeInv, NEW j \in JobId, Execute(j) PROVE NoneComes
<1>1. job \in [JobId -> Job]
  BY DEF TypeInv, TypeOK
<1>2. \/ job' = [job EXCEPT ![j] = IdleJob]
      \/ \E pc \in {"mark", "spawn", "adapter", "agent"} : job' = [job EXCEPT ![j].pc = pc]
      \/ \E value : job' = [job EXCEPT ![j].pc = "settle", ![j].value = value]
  BY DEF Execute, Load, PreparationThrows, MarkAgentRunning, Spawn, AdapterReturns,
         AdapterThrows, RecordCost, Goto, Become, Settle
<1>3. job'[j].pc \in {"idle", "mark", "spawn", "adapter", "agent", "settle"}
  BY <1>1, <1>2 DEF Job, IdleJob
<1>4. \A k \in JobId : k # j => job'[k] = job[k]
  BY <1>1, <1>2
<1> QED
  BY <1>3, <1>4 DEF NoneComes, CarefulPc, SettledPc

LEMMA ExecuteOwner == ASSUME TypeInv, OwnerInv, NEW j \in JobId, Execute(j) PROVE OwnerInv'
<1>1. UNCHANGED <<run, lock>>
  BY DEF Execute, Load, PreparationThrows, MarkAgentRunning, Spawn, AdapterReturns,
         AdapterThrows, RecordCost, rows
<1> QED
  BY <1>1, ExecuteComesNot, SameRunsEnterNone, QuietStep

(* The terminal status is written: now the run is over.                      *)
LEMMA SetRunStatusOwner ==
  ASSUME TypeInv, OwnerInv, NEW j \in JobId, SetRunStatus(j) PROVE OwnerInv'
<1>1. job[j].run \in RunId /\ job[j].value \in Terminal /\ job[j].pc = "settle"
  BY JobHas, RunHasAgent DEF SetRunStatus, At, JobFits, RunPc
<1>2. run' = [run EXCEPT ![job[j].run].status = job[j].value] /\ lock' = lock
  BY DEF SetRunStatus
<1>3. NoneEnters
  BY <1>1, <1>2, UpdateEntersNone
<1>4. LockOwns' /\ OverStays
  BY <1>2, <1>3, KeptOwns DEF OwnerInv
<1>5. job \in [JobId -> Job] /\ job' = [job EXCEPT ![j].pc = "wakeup"] /\ run \in [RunId -> Row]
  BY DEF TypeInv, TypeOK, SetRunStatus, Goto
<1>6. ASSUME NEW k \in JobId, job'[k].pc \in SettledPc PROVE run'[job'[k].run].status \notin Active
  <2>1. CASE k = j
    <3>1. job'[k].run = job[j].run
      BY <1>5, <2>1 DEF Job
    <3>2. run'[job[j].run].status = job[j].value
      BY <1>1, <1>2, <1>5 DEF Row
    <3> QED
      BY <1>1, <3>1, <3>2 DEF Terminal, Active
  <2>2. CASE k # j
    <3>1. job'[k] = job[k] /\ ~IsActive(job[k].run)
      BY <1>5, <1>6, <2>2 DEF OwnerInv, SettledIsOver
    <3>2. job[k].run \in RunId /\ job[k].run <= created
      BY <1>6, <3>1, JobHas, RunHasAgent DEF SettledPc, RunPc, JobFits
    <3> QED
      BY <1>4, <3>1, <3>2 DEF OverStays
  <2> QED
    BY <2>1, <2>2
<1>7. ScansNoIssue'
  <2>1. job'[j].pc = "wakeup" /\ \A k \in JobId : k # j => job'[k] = job[k]
    BY <1>5 DEF Job
  <2> QED
    BY <2>1 DEF OwnerInv, ScansNoIssue
<1>8. SettledIsOver'
  BY <1>6 DEF SettledIsOver, IsActive
<1> QED
  BY <1>4, <1>7, <1>8 DEF OwnerInv

LEMMA SetWakeupStatusOwner ==
  ASSUME TypeInv, OwnerInv, NEW j \in JobId, SetWakeupStatus(j) PROVE OwnerInv'
<1>1. job[j].pc = "wakeup" /\ lock' = lock
  BY DEF SetWakeupStatus, At
<1>2. NoneEnters
  BY UpdateEntersNone DEF SetWakeupStatus
<1>3. LockOwns' /\ OverStays
  BY <1>1, <1>2, KeptOwns DEF OwnerInv
<1>4. job \in [JobId -> Job] /\ job' = [job EXCEPT ![j].pc = "release"]
  BY DEF TypeInv, TypeOK, SetWakeupStatus, Goto
<1>5. \A k \in JobId : /\ job'[k].run = job[k].run /\ job'[k].issue = job[k].issue
                       /\ k # j => job'[k] = job[k]
  BY <1>4 DEF Job
<1>6. job'[j].pc = "release"
  BY <1>4 DEF Job
<1>7. ASSUME NEW k \in JobId, job'[k].pc \in SettledPc PROVE run'[job'[k].run].status \notin Active
  <2>1. job[k].pc \in SettledPc
    BY <1>1, <1>5, <1>7 DEF SettledPc
  <2>2. ~IsActive(job[k].run)
    BY <2>1 DEF OwnerInv, SettledIsOver
  <2>3. job[k].run \in RunId /\ job[k].run <= created
    BY <2>1, JobHas, RunHasAgent DEF SettledPc, RunPc, JobFits
  <2> QED
    BY <1>3, <1>5, <2>2, <2>3 DEF OverStays
<1>8. ScansNoIssue'
  BY <1>5, <1>6 DEF OwnerInv, ScansNoIssue
<1>9. SettledIsOver'
  BY <1>7 DEF SettledIsOver, IsActive
<1> QED
  BY <1>3, <1>8, <1>9 DEF OwnerInv

LEMMA ReleaseComesNot == ASSUME TypeInv, NEW j \in JobId, Release(j) PROVE NoneComes
<1>1. job \in [JobId -> Job]
  BY DEF TypeInv, TypeOK
<1>2. \/ job' = [job EXCEPT ![j].pc = AfterRelease(j)]
      \/ \E a, pc : job' = [job EXCEPT ![j].pc = "start", ![j].agent = a, ![j].then = pc]
  BY DEF Release, FreeIssue, Promote, Goto, CallStart
<1>3. job'[j].pc \in {"cost", "agent", "next", "start"}
  <2>1. AfterRelease(j) \in {"cost", "agent", "next"} /\ job[j] \in Job
    BY <1>1 DEF AfterRelease
  <2>2. CASE job' = [job EXCEPT ![j].pc = AfterRelease(j)]
    BY <1>1, <2>1, <2>2 DEF Job
  <2>3. ASSUME NEW a, NEW pc,
               job' = [job EXCEPT ![j].pc = "start", ![j].agent = a, ![j].then = pc]
        PROVE  job'[j].pc = "start"
    BY <1>1, <2>1, <2>3 DEF Job
  <2> QED
    BY <1>2, <2>1, <2>2, <2>3
<1>4. \A k \in JobId : k # j => job'[k] = job[k]
  BY <1>1, <1>2
<1> QED
  BY <1>3, <1>4 DEF NoneComes, CarefulPc, SettledPc

(* The lock that is given away belonged to a run that is over.               *)
LEMMA ReleaseOwner == ASSUME TypeInv, OwnerInv, NEW j \in JobId, Release(j) PROVE OwnerInv'
<1>1. NoneComes
  BY ReleaseComesNot
<1>2. ~IsActive(job[j].run)
  BY DEF Release, At, OwnerInv, SettledIsOver, SettledPc
<1>3. CASE UNCHANGED <<run, created, lock, deferred>>
  BY <1>1, <1>3, SameRunsEnterNone, QuietStep
<1>4. ASSUME NEW s \in Issue, lock[s].run = job[j].run, FreeIssue(j, s) PROVE OwnerInv'
  <2>1. \A r \in RunId : IsActive(r) => run[r].issue # s
    BY <1>2, <1>4, OverFrees DEF OwnerInv
  <2>2. run' = run /\ lock' = [lock EXCEPT ![s] = Unlocked]
    BY <1>4 DEF FreeIssue
  <2>3. LockOwns'
    <3>1. \A z \in Issue : z # s => lock'[z] = lock[z]
      BY <2>2 DEF TypeInv, TypeOK
    <3> QED
      BY <2>1, <2>2, <3>1 DEF OwnerInv, LockOwns, IsActive
  <2>4. OverStays
    BY <2>2 DEF OverStays, IsActive
  <2> QED
    BY <1>1, <2>3, <2>4, KeptCalls DEF OwnerInv
<1>5. ASSUME NEW s \in Issue, lock[s].run = job[j].run, NEW i \in Invokable(s), Promote(j, s, i)
      PROVE  OwnerInv'
  <2>1. \A r \in RunId : IsActive(r) => run[r].issue # s
    BY <1>2, <1>5, OverFrees DEF OwnerInv
  <2>2. deferred[s][i] \in Agent
    BY DEF Invokable, TypeInv, TypeOK
  <2>3. LockOwns' /\ OverStays
    BY <1>5, <2>1, <2>2, EnterOwns DEF OwnerInv, Promote
  <2> QED
    BY <1>1, <2>3, KeptCalls DEF OwnerInv
<1> QED
  BY <1>3, <1>4, <1>5 DEF Release

LEMMA FinalizeComesNot ==
  ASSUME TypeInv, NEW j \in JobId, ReadAgent(j) \/ WriteAgent(j) PROVE NoneComes
<1>1. job \in [JobId -> Job] /\ job[j] \in Job
  BY DEF TypeInv, TypeOK
<1>2. \/ \E a : job' = [job EXCEPT ![j] = Settled(j, a)]
      \/ \E value : job' = [job EXCEPT ![j].pc = "agentWrite", ![j].value = value]
  BY DEF ReadAgent, WriteAgent
<1>3. job'[j].pc \in {"start", "agentWrite"}
  <2>1. ASSUME NEW a PROVE Settled(j, a).pc = "start"
    BY <1>1 DEF Settled, Job
  <2>2. ASSUME NEW value, job' = [job EXCEPT ![j].pc = "agentWrite", ![j].value = value]
        PROVE  job'[j].pc = "agentWrite"
    BY <1>1, <2>2 DEF Job
  <2>3. ASSUME NEW a, job' = [job EXCEPT ![j] = Settled(j, a)] PROVE job'[j].pc = "start"
    BY <1>1, <2>1, <2>3
  <2> QED
    BY <1>2, <2>2, <2>3
<1>4. \A k \in JobId : k # j => job'[k] = job[k]
  BY <1>1, <1>2
<1> QED
  BY <1>3, <1>4 DEF NoneComes, CarefulPc, SettledPc

LEMMA SettleRunOwner == ASSUME TypeInv, OwnerInv, NEW j \in JobId, SettleRun(j) PROVE OwnerInv'
<1>1. ASSUME ReadAgent(j) \/ WriteAgent(j) PROVE OwnerInv'
  <2>1. UNCHANGED <<run, lock>>
    BY <1>1 DEF ReadAgent, WriteAgent, rows
  <2> QED
    BY <1>1, <2>1, FinalizeComesNot, SameRunsEnterNone, QuietStep
<1> QED
  BY <1>1, SetRunStatusOwner, SetWakeupStatusOwner, ReleaseOwner DEF SettleRun

LEMMA WakeComesNot ==
  ASSUME TypeInv, NEW j \in JobId, NEW a,
         Become(j, [IdleJob EXCEPT !.op = "wake", !.pc = "start", !.agent = a])
  PROVE  NoneComes
<1> DEFINE next == [IdleJob EXCEPT !.op = "wake", !.pc = "start", !.agent = a]
<1>1. next.pc = "start"
  BY DEF IdleJob
<1>2. job' = [job EXCEPT ![j] = next]
  BY DEF Become
<1> HIDE DEF next
<1>3. job \in [JobId -> Job]
  BY DEF TypeInv, TypeOK
<1>4. \A k \in JobId : job'[k] = IF k = j THEN next ELSE job[k]
  BY <1>2, <1>3
<1> QED
  BY <1>1, <1>4 DEF NoneComes, CarefulPc, SettledPc

LEMMA IdleComesNot ==
  ASSUME TypeInv, NEW j \in JobId, Become(j, IdleJob) PROVE NoneComes
BY IdleType, OneComesNot DEF Become, IdleJob, CarefulPc, SettledPc

(* A wake for an issue finds the lock's run active, or no active run at all. *)
LEMMA EnqueueEither ==
  ASSUME TypeInv, OwnerInv, NEW h \in JobId, EnqueueOnIssue(h)
  PROVE  LET s == job[h].issue
             a == job[h].agent
         IN  /\ s \in Issue /\ a \in Agent
             /\ \/ /\ lock[s].run \in RunId /\ IsActive(lock[s].run)
                   /\ UNCHANGED <<lock, created>> /\ Become(h, IdleJob)
                   /\ \/ /\ OwnerName(s, lock[s].run) = a
                         /\ Coalesce(lock[s].run, a) /\ deferred' = deferred
                      \/ /\ deferred' = IF Waiting(s, a) THEN deferred
                                        ELSE [deferred EXCEPT ![s] = Append(@, a)]
                         /\ run' = run
                \/ /\ \A r \in RunId : IsActive(r) => run[r].issue # s
                   /\ lock[s].run # 0 => ~IsActive(lock[s].run)
                   /\ Insert(a, s)
                   /\ lock' = [lock EXCEPT ![s] = [run |-> created + 1, name |-> a]]
                   /\ Become(h, [IdleJob EXCEPT !.op = "wake", !.pc = "start", !.agent = a])
                   /\ deferred' = deferred
<1> DEFINE s == job[h].issue
           a == job[h].agent
           owner == IF LockRun(s) # 0 THEN LockRun(s) ELSE LegacyRun(s)
<1>1. a \in Agent /\ s \in Issue
  BY JobHas DEF EnqueueOnIssue, At, JobFits
<1>2. LockRun(s) = 0 => \A r \in RunId : IsActive(r) => run[r].issue # s
  <2>1. ASSUME NEW r \in RunId, IsActive(r), run[r].issue = s PROVE LockRun(s) # 0
    BY <1>1, <2>1, RunIdsFinite, MaxRunsType DEF LockRun, OwnerInv, LockOwns, RunId
  <2> QED
    BY <2>1
<1>3. LockRun(s) = 0 => LegacyRun(s) = 0
  <2>1. ASSUME LockRun(s) = 0 PROVE {r \in ActiveRuns : run[r].issue = s} = {}
    BY <1>2, <2>1 DEF ActiveRuns
  <2> QED
    BY <2>1 DEF LegacyRun
<1>4. LockRun(s) = 0 /\ lock[s].run # 0 => ~IsActive(lock[s].run)
  BY DEF LockRun
<1>5. LockRun(s) # 0 => LockRun(s) = lock[s].run /\ lock[s].run \in RunId /\ IsActive(lock[s].run)
  BY <1>1, MaxRunsType DEF LockRun, RunId, TypeInv, TypeOK
<1>6. CASE /\ owner # 0 /\ Become(h, IdleJob) /\ created' = created
           /\ lock' = IF LockRun(s) # 0 THEN lock
                      ELSE [lock EXCEPT ![s] = [run |-> owner, name |-> run[owner].agent]]
           /\ \/ /\ OwnerName(s, owner) = a /\ Coalesce(owner, a) /\ deferred' = deferred
              \/ /\ deferred' = IF Waiting(s, a) THEN deferred
                                ELSE [deferred EXCEPT ![s] = Append(@, a)]
                 /\ run' = run
  <2>1. LockRun(s) # 0 /\ owner = lock[s].run
    BY <1>3, <1>5, <1>6
  <2> HIDE DEF owner
  <2> QED
    BY <1>1, <1>5, <1>6, <2>1
<1>7. CASE /\ owner = 0 /\ Insert(a, s)
           /\ lock' = [lock EXCEPT ![s] = [run |-> created + 1, name |-> a]]
           /\ Become(h, [IdleJob EXCEPT !.op = "wake", !.pc = "start", !.agent = a])
           /\ deferred' = deferred
  <2>1. LockRun(s) = 0
    BY <1>7
  <2> HIDE DEF owner
  <2> QED
    BY <1>1, <1>2, <1>4, <1>7, <2>1
<1> QED
  BY <1>6, <1>7 DEF EnqueueOnIssue

LEMMA EnqueueOwner ==
  ASSUME TypeInv, OwnerInv, NEW h \in JobId, EnqueueOnIssue(h) PROVE OwnerInv'
<1> DEFINE s == job[h].issue
           a == job[h].agent
<1>1. CASE /\ Become(h, IdleJob) /\ UNCHANGED <<lock, created>>
           /\ Coalesce(lock[s].run, a) \/ run' = run
  <2>1. NoneEnters
    BY <1>1, UpdateEntersNone, SameRunsEnterNone DEF Coalesce
  <2> QED
    BY <1>1, <2>1, IdleComesNot, QuietStep
<1>2. CASE /\ s \in Issue /\ a \in Agent /\ Insert(a, s)
           /\ \A r \in RunId : IsActive(r) => run[r].issue # s
           /\ lock' = [lock EXCEPT ![s] = [run |-> created + 1, name |-> a]]
           /\ Become(h, [IdleJob EXCEPT !.op = "wake", !.pc = "start", !.agent = a])
  <2>1. LockOwns' /\ OverStays
    BY <1>2, EnterOwns DEF OwnerInv
  <2> QED
    BY <1>2, <2>1, WakeComesNot, KeptCalls DEF OwnerInv
<1> QED
  BY <1>1, <1>2, EnqueueEither

LEMMA ScanOwner == ASSUME TypeInv, OwnerInv, NEW h \in JobId, Scan(h) PROVE OwnerInv'
<1>1. NoneEnters /\ lock' = lock
  BY UpdateEntersNone, SameRunsEnterNone DEF Scan, Coalesce
<1>2. CASE Become(h, IdleJob)
  BY <1>1, <1>2, IdleComesNot, QuietStep
<1>3. CASE Goto(h, "insert")
  <2>1. LockOwns' /\ OverStays
    BY <1>1, KeptOwns DEF OwnerInv
  <2>2. job \in [JobId -> Job] /\ job[h].pc = "scan"
    BY DEF TypeInv, TypeOK, Scan, At
  <2>3. /\ job'[h].pc = "insert" /\ job'[h].issue = job[h].issue
        /\ \A k \in JobId : k # h => job'[k] = job[k]
    BY <1>3, <2>2 DEF Goto, Job
  <2>4. ScansNoIssue'
    BY <2>2, <2>3 DEF OwnerInv, ScansNoIssue
  <2>5. ASSUME NEW k \in JobId, job'[k].pc \in SettledPc
        PROVE  run'[job'[k].run].status \notin Active
    <3>1. job'[k] = job[k] /\ ~IsActive(job[k].run)
      BY <2>3, <2>5 DEF SettledPc, OwnerInv, SettledIsOver
    <3>2. job[k].run \in RunId /\ job[k].run <= created
      BY <2>5, <3>1, JobHas, RunHasAgent DEF SettledPc, RunPc, JobFits
    <3> QED
      BY <2>1, <3>1, <3>2 DEF OverStays
  <2> QED
    BY <2>1, <2>4, <2>5 DEF OwnerInv, SettledIsOver, IsActive
<1> QED
  BY <1>2, <1>3 DEF Scan

(* A run inserted past the lock is on no issue.                              *)
LEMMA InsertRunOwner ==
  ASSUME TypeInv, OwnerInv, NEW h \in JobId, InsertRun(h) PROVE OwnerInv'
<1>1. job[h].agent \in Agent /\ job[h].issue = NoIssue
  BY JobHas DEF InsertRun, At, JobFits, OwnerInv, ScansNoIssue
<1>2. Insert(job[h].agent, NoIssue) /\ lock' = lock
  BY <1>1 DEF InsertRun
<1>3. created + 1 \in RunId /\ created \in Nat /\ run \in [RunId -> Row]
  BY <1>1, <1>2, InsertTypes, MaxRunsType DEF TypeInv, TypeOK
<1>4. \A r \in RunId : r # created + 1 => run'[r] = run[r]
  BY <1>2, <1>3 DEF Insert
<1>5. run'[created + 1].issue = NoIssue
  BY <1>2, <1>3 DEF Insert
<1>6. LockOwns'
  BY <1>2, <1>4, <1>5, SentinelAssumption DEF OwnerInv, LockOwns, IsActive
<1>7. OverStays
  <2>1. \A r \in RunId : r <= created => r # created + 1
    BY <1>3, RunIdsFinite
  <2> QED
    BY <1>4, <2>1 DEF OverStays, IsActive
<1>8. NoneComes
  BY WakeComesNot DEF InsertRun
<1> QED
  BY <1>6, <1>7, <1>8, KeptCalls DEF OwnerInv

LEMMA SnapshotComesNot ==
  ASSUME TypeInv, NEW h \in JobId, Snapshot(h) \/ NextOfSnapshot(h) PROVE NoneComes
<1>1. job \in [JobId -> Job] /\ job[h] \in Job
  BY DEF TypeInv, TypeOK
<1>2. ASSUME Snapshot(h) PROVE job'[h].pc = "next" /\ \A k \in JobId : k # h => job'[k] = job[k]
  BY <1>1, <1>2 DEF Snapshot, Job
<1>3. ASSUME NEW r \in job[h].rest,
             job' = [job EXCEPT ![h].rest = @ \ {r},
                                ![h].run = IF PassOver(h, r) THEN 0 ELSE r,
                                ![h].pc = IF PassOver(h, r) THEN "next" ELSE "settle"]
      PROVE  job'[h].pc \in {"next", "settle"} /\ \A k \in JobId : k # h => job'[k] = job[k]
  BY <1>1, <1>3 DEF Job
<1>4. CASE Become(h, IdleJob)
  BY <1>4, IdleComesNot
<1>5. CASE /\ job'[h].pc \in {"next", "settle"}
           /\ \A k \in JobId : k # h => job'[k] = job[k]
  BY <1>5 DEF NoneComes, CarefulPc, SettledPc
<1> QED
  BY <1>2, <1>3, <1>4, <1>5 DEF NextOfSnapshot

LEMMA ServeOwner == ASSUME TypeInv, OwnerInv, NEW h \in JobId, Serve(h) PROVE OwnerInv'
<1>1. ASSUME Snapshot(h) \/ NextOfSnapshot(h) PROVE OwnerInv'
  <2>1. UNCHANGED <<run, lock>>
    BY <1>1 DEF Snapshot, NextOfSnapshot, rows
  <2> QED
    BY <1>1, <2>1, SnapshotComesNot, SameRunsEnterNone, QuietStep
<1> QED
  BY <1>1, EnqueueOwner, ScanOwner, InsertRunOwner DEF Serve

LEMMA ReturnedComesNot ==
  ASSUME TypeInv, NEW j \in JobId PROVE Returned(j).pc \notin CarefulPc
BY JobHas DEF Returned, Job, IdleJob, CarefulPc, SettledPc

LEMMA AcquireComesNot == ASSUME TypeInv, NEW j \in JobId, Acquire(j) PROVE NoneComes
<1>1. job \in [JobId -> Job]
  BY DEF TypeInv, TypeOK
<1>2. CASE Become(j, Returned(j))
  <2>1. \A k \in JobId : job'[k] = IF k = j THEN Returned(j) ELSE job[k]
    BY <1>1, <1>2 DEF Become
  <2> QED
    BY <2>1, ReturnedComesNot DEF NoneComes
<1>3. CASE Goto(j, "starting")
  <2>1. job'[j].pc = "starting" /\ \A k \in JobId : k # j => job'[k] = job[k]
    BY <1>1, <1>3 DEF Goto, Job
  <2> QED
    BY <2>1 DEF NoneComes, CarefulPc, SettledPc
<1> QED
  BY <1>2, <1>3 DEF Acquire

LEMMA AcquireOwner == ASSUME TypeInv, OwnerInv, NEW j \in JobId, Acquire(j) PROVE OwnerInv'
<1>1. UNCHANGED <<run, lock>>
  BY DEF Acquire, rows
<1> QED
  BY <1>1, AcquireComesNot, SameRunsEnterNone, QuietStep

LEMMA LoopComesNot == ASSUME TypeInv, NEW a \in Agent, StartLoop(a) PROVE NoneComes
<1>1. CASE Claim(a) \/ MarkClaimed(a)
  BY <1>1 DEF Claim, MarkClaimed, NoneComes
<1>2. CASE Launch(a)
  <2> SUFFICES ASSUME NEW j \in JobId PROVE job'[j].pc \in CarefulPc => job'[j] = job[j]
    BY DEF NoneComes
  <2>1. job'[j] = IF j \in start[a].started
                  THEN [IdleJob EXCEPT !.op = "exec", !.pc = "load", !.run = j]
                  ELSE IF j = start[a].by THEN Returned(j) ELSE job[j]
    BY <1>2 DEF Launch
  <2>2. [IdleJob EXCEPT !.op = "exec", !.pc = "load", !.run = j].pc = "load"
    BY DEF IdleJob
  <2> QED
    BY <2>1, <2>2, ReturnedComesNot DEF CarefulPc, SettledPc
<1> QED
  BY <1>1, <1>2 DEF StartLoop

LEMMA LoopOwner == ASSUME TypeInv, OwnerInv, NEW a \in Agent, StartLoop(a) PROVE OwnerInv'
<1>1. lock' = lock
  BY DEF StartLoop, Claim, MarkClaimed, Launch, rows
<1>2. NoneEnters
  BY ClaimEntersNone, UpdateEntersNone, SameRunsEnterNone DEF StartLoop, MarkClaimed, Launch, rows
<1> QED
  BY <1>1, <1>2, LoopComesNot, QuietStep

(* Commands, ticks and restarts.                                             *)
LEMMA CommandComesNot ==
  ASSUME TypeInv, NEW h \in Handler,
         \/ \E r \in RunId : CancelRun(h, r)
         \/ \E a \in Agent : StopAgent(h, a)
         \/ \E stale \in SUBSET RunId : ReapTick(h, stale)
         \/ Restart(h)
  PROVE  NoneComes
<1>1. h \in JobId /\ job \in [JobId -> Job]
  BY DEF JobId, TypeInv, TypeOK
<1>2. ASSUME NEW r \in RunId, CancelRun(h, r) PROVE NoneComes
  <2> DEFINE next == [IdleJob EXCEPT !.op = "cancel", !.pc = "settle", !.run = r,
                                     !.value = "cancelled"]
  <2>1. next.pc = "settle" /\ job' = [job EXCEPT ![h] = next]
    BY <1>2 DEF IdleJob, CancelRun, Become
  <2> HIDE DEF next
  <2>2. \A j \in JobId : job'[j] = IF j = h THEN next ELSE job[j]
    BY <1>1, <2>1
  <2> QED
    BY <2>1, <2>2 DEF NoneComes, CarefulPc, SettledPc
<1>3. ASSUME NEW a \in Agent, StopAgent(h, a) PROVE NoneComes
  <2> DEFINE next == [IdleJob EXCEPT !.op = "stop", !.pc = "snapshot", !.agent = a,
                                     !.value = "cancelled"]
  <2>1. next.pc = "snapshot" /\ job' = [job EXCEPT ![h] = next]
    BY <1>3 DEF IdleJob, StopAgent, Become
  <2> HIDE DEF next
  <2>2. \A j \in JobId : job'[j] = IF j = h THEN next ELSE job[j]
    BY <1>1, <2>1
  <2> QED
    BY <2>1, <2>2 DEF NoneComes, CarefulPc, SettledPc
<1>4. ASSUME NEW stale \in SUBSET RunId, ReapTick(h, stale) PROVE NoneComes
  <2> DEFINE next == [IdleJob EXCEPT !.op = "reap", !.pc = "next", !.rest = stale,
                                     !.value = "failed"]
  <2>1. next.pc = "next" /\ job' = [job EXCEPT ![h] = next]
    BY <1>4 DEF IdleJob, ReapTick, Become
  <2> HIDE DEF next
  <2>2. \A j \in JobId : job'[j] = IF j = h THEN next ELSE job[j]
    BY <1>1, <2>1
  <2> QED
    BY <2>1, <2>2 DEF NoneComes, CarefulPc, SettledPc
<1>5. ASSUME Restart(h) PROVE NoneComes
  <2> DEFINE next == [IdleJob EXCEPT !.op = "reap", !.pc = "snapshot", !.value = "failed"]
  <2>1. next.pc = "snapshot" /\ IdleJob.pc = "idle"
    BY DEF IdleJob
  <2>2. \A j \in JobId : job'[j] = IF j # h THEN IdleJob ELSE next
    BY <1>5 DEF Restart
  <2> HIDE DEF next
  <2> QED
    BY <2>1, <2>2 DEF NoneComes, CarefulPc, SettledPc
<1> QED
  BY <1>2, <1>3, <1>4, <1>5

LEMMA ArriveOwner ==
  ASSUME "mention" \notin Kinds, TypeInv, OwnerInv, NEW h \in Handler, Arrive(h)
  PROVE  OwnerInv'
<1>1. h \in JobId /\ UNCHANGED <<run, lock>> /\ job \in [JobId -> Job]
  BY DEF JobId, Arrive, ReceiveWake, CancelRun, StopAgent, ReapTick, Restart, rows, TypeInv, TypeOK
<1>2. LockOwns' /\ OverStays
  BY <1>1, SameRunsEnterNone, KeptOwns DEF OwnerInv
<1>3. CASE NoneComes
  BY <1>1, <1>3, SameRunsEnterNone, QuietStep
<1>4. ASSUME NEW a \in Agent, NEW s \in Issue \union {NoIssue}, NEW k \in Kinds,
             ReceiveWake(h, a, s, k)
      PROVE  OwnerInv'
  <2> DEFINE pc == IF s = NoIssue \/ k = "mention" THEN "scan" ELSE "enqueue"
             next == [IdleJob EXCEPT !.op = "wake", !.agent = a, !.issue = s, !.kind = k, !.pc = pc]
  <2>1. job' = [job EXCEPT ![h] = next]
    BY <1>4 DEF ReceiveWake, Become
  <2>2. next.issue = s /\ next.pc = pc
    BY DEF IdleJob
  <2>3. pc \in {"scan", "enqueue"} /\ (pc = "scan" => s = NoIssue)
    OBVIOUS
  <2> HIDE DEF next, pc
  <2>4. \A j \in JobId : job'[j] = IF j = h THEN next ELSE job[j]
    BY <1>1, <2>1
  <2>5. ScansNoIssue'
    BY <2>2, <2>3, <2>4 DEF OwnerInv, ScansNoIssue
  <2>6. SettledIsOver'
    BY <1>1, <2>2, <2>3, <2>4 DEF OwnerInv, SettledIsOver, SettledPc, IsActive
  <2> QED
    BY <1>2, <2>5, <2>6 DEF OwnerInv
<1> QED
  BY <1>3, <1>4, CommandComesNot DEF Arrive

LEMMA InitOwner == Init => OwnerInv
BY DEF Init, OwnerInv, LockOwns, SettledIsOver, ScansNoIssue, IsActive, Active, NoRun, IdleJob,
       SettledPc

LEMMA NextOwner ==
  ASSUME "mention" \notin Kinds PROVE TypeInv /\ OwnerInv /\ [Next]_vars => OwnerInv'
<1> SUFFICES ASSUME TypeInv, OwnerInv, [Next]_vars PROVE OwnerInv'
  OBVIOUS
<1>1. ASSUME UNCHANGED <<run, lock, job>> PROVE OwnerInv'
  BY <1>1, SameRunsEnterNone, QuietStep DEF NoneComes
<1>2. ASSUME NEW a \in Agent, ResumeAgent(a) PROVE OwnerInv'
  BY <1>1, <1>2 DEF ResumeAgent
<1>3. CASE UNCHANGED vars
  BY <1>1, <1>3 DEF vars
<1>4. ASSUME NEW j \in JobId, Step(j) PROVE OwnerInv'
  BY <1>4, ExecuteOwner, SettleRunOwner, ServeOwner DEF Step
<1> QED
  BY <1>2, <1>3, <1>4, AcquireOwner, LoopOwner, ArriveOwner DEF Next

(* Where nobody is mentioned, an issue never has two queued or running runs, *)
(* whatever is cancelled, paused, reaped or restarted in between.            *)
THEOREM IssueHasOneOwner ==
  ASSUME "mention" \notin Kinds PROVE Spec => []OneOwnerPerIssue
<1>1. TypeInv /\ OwnerInv => OneOwnerPerIssue
  <2> SUFFICES ASSUME TypeInv, OwnerInv, NEW r \in ActiveRuns, NEW q \in ActiveRuns,
                      run[r].issue = run[q].issue, run[r].issue # NoIssue
               PROVE  r = q
    BY DEF OneOwnerPerIssue
  <2>1. r \in RunId /\ q \in RunId /\ IsActive(r) /\ IsActive(q) /\ run[r].issue \in Issue
    BY DEF ActiveRuns, TypeInv, TypeOK, Row
  <2> QED
    BY <2>1 DEF OwnerInv, LockOwns
<1> QED
  BY <1>1, InitTypes, NextTypes, InitOwner, NextOwner, PTL DEF Spec

-----------------------------------------------------------------------------
(* Names: the lock carries the name of the agent whose run it points to, and *)
(* points to a run on its own issue.                                         *)

LockNamed ==
  \A s \in Issue : IF lock[s].run = 0 THEN lock[s].name = NoAgent
                   ELSE /\ lock[s].run <= created
                        /\ run[lock[s].run].issue = s
                        /\ run[lock[s].run].agent = lock[s].name

NamesInv == LockNamed /\ WakesStayWithAgent

SameNames ==
  \A r \in RunId : run'[r].agent = run[r].agent /\ run'[r].issue = run[r].issue

SameAnswers == \A r \in RunId : run'[r].answers = run[r].answers

LEMMA QuietNames ==
  ASSUME TypeInv, NamesInv, SameNames, SameAnswers, UNCHANGED <<lock, created>>
  PROVE  NamesInv'
<1>1. ASSUME NEW s \in Issue, lock[s].run # 0 PROVE lock[s].run \in RunId
  BY <1>1, MaxRunsType DEF TypeInv, TypeOK, RunId
<1>2. LockNamed'
  BY <1>1 DEF NamesInv, LockNamed, SameNames
<1>3. WakesStayWithAgent'
  BY DEF NamesInv, WakesStayWithAgent, SameNames, SameAnswers
<1> QED
  BY <1>2, <1>3 DEF NamesInv

LEMMA RowUpdateNames ==
  ASSUME TypeInv, NamesInv, UNCHANGED <<lock, created>>, NEW q, NEW value,
         \/ run' = [run EXCEPT ![q].status = value]
         \/ run' = [run EXCEPT ![q].wake = value]
  PROVE  NamesInv'
<1>1. \A r \in RunId : /\ run'[r].agent = run[r].agent /\ run'[r].issue = run[r].issue
                       /\ run'[r].answers = run[r].answers
  <2> SUFFICES ASSUME NEW r \in RunId
               PROVE  /\ run'[r].agent = run[r].agent /\ run'[r].issue = run[r].issue
                      /\ run'[r].answers = run[r].answers
    OBVIOUS
  <2>1. run[r] \in Row /\ run \in [RunId -> Row]
    BY DEF TypeInv, TypeOK
  <2>2. CASE r # q
    BY <2>1, <2>2
  <2>3. CASE r = q
    <3>1. \/ run'[r] = [run[r] EXCEPT !.status = value]
          \/ run'[r] = [run[r] EXCEPT !.wake = value]
      BY <2>1, <2>3
    <3> QED
      BY <2>1, <3>1 DEF Row
  <2> QED
    BY <2>2, <2>3
<1> QED
  BY <1>1, QuietNames DEF SameNames, SameAnswers

LEMMA SameRunsNames ==
  ASSUME TypeInv, NamesInv, UNCHANGED <<run, lock, created>> PROVE NamesInv'
BY QuietNames DEF SameNames, SameAnswers

(* A wake joins a run of its own agent.                                      *)
LEMMA CoalesceNames ==
  ASSUME TypeInv, NamesInv, NEW q \in RunId, Coalesce(q, run[q].agent),
         UNCHANGED <<lock, created>>
  PROVE  NamesInv'
<1>1. run \in [RunId -> Row] /\ run[q] \in Row
  BY DEF TypeInv, TypeOK
<1>2. run'[q] = [run[q] EXCEPT !.answers = @ \union {run[q].agent}]
  BY <1>1 DEF Coalesce
<1>3. /\ run'[q].answers = run[q].answers \union {run[q].agent}
      /\ run'[q].agent = run[q].agent /\ run'[q].issue = run[q].issue
      /\ \A r \in RunId : r # q => run'[r] = run[r]
  BY <1>1, <1>2 DEF Coalesce, Row
<1>4. WakesStayWithAgent'
  BY <1>3 DEF NamesInv, WakesStayWithAgent
<1>5. ASSUME NEW s \in Issue, lock[s].run # 0 PROVE lock[s].run \in RunId
  BY <1>5, MaxRunsType DEF TypeInv, TypeOK, RunId
<1>6. LockNamed'
  BY <1>3, <1>5 DEF NamesInv, LockNamed
<1> QED
  BY <1>4, <1>6 DEF NamesInv

LEMMA InsertNames ==
  ASSUME TypeInv, NamesInv, NEW a \in Agent, NEW s \in Issue \union {NoIssue}, Insert(a, s)
  PROVE  /\ WakesStayWithAgent'
         /\ created + 1 \in RunId /\ created \in Nat
         /\ run'[created + 1].agent = a /\ run'[created + 1].issue = s
         /\ run'[created + 1].status = "queued"
         /\ \A r \in RunId : r # created + 1 => run'[r] = run[r]
         /\ \A z \in Issue : lock[z].run # 0 =>
              lock[z].run \in RunId /\ lock[z].run # created + 1 /\ lock[z].run <= created'
<1>1. /\ created + 1 \in RunId /\ created \in Nat /\ created' = created + 1
      /\ run \in [RunId -> Row]
  BY InsertTypes, MaxRunsType DEF TypeInv, TypeOK
<1> DEFINE row == [agent |-> a, issue |-> s, status |-> "queued", wake |-> "queued",
                   answers |-> {a}]
<1>2. run' = [run EXCEPT ![created + 1] = row]
  BY DEF Insert
<1>3. run'[created + 1] = row /\ \A r \in RunId : r # created + 1 => run'[r] = run[r]
  BY <1>1, <1>2
<1>4. WakesStayWithAgent'
  BY <1>3 DEF NamesInv, WakesStayWithAgent
<1>5. ASSUME NEW z \in Issue, lock[z].run # 0
      PROVE  lock[z].run \in RunId /\ lock[z].run # created + 1 /\ lock[z].run <= created'
  <2>1. lock[z].run \in 0..MaxRuns /\ lock[z].run <= created
    BY <1>5 DEF NamesInv, LockNamed, TypeInv, TypeOK
  <2> QED
    BY <1>1, <1>5, <2>1, MaxRunsType DEF RunId
<1> QED
  BY <1>1, <1>3, <1>4, <1>5

LEMMA EnterNames ==
  ASSUME TypeInv, NamesInv, NEW a \in Agent, NEW s \in Issue, Insert(a, s),
         lock' = [lock EXCEPT ![s] = [run |-> created + 1, name |-> a]]
  PROVE  NamesInv'
<1>1. lock \in [Issue -> [run : 0..MaxRuns, name : Agent \union {NoAgent}]]
  BY DEF TypeInv, TypeOK
<1>2. ASSUME NEW z \in Issue, lock'[z].run # 0
      PROVE  /\ lock'[z].run <= created'
             /\ run'[lock'[z].run].issue = z
             /\ run'[lock'[z].run].agent = lock'[z].name
  <2>1. CASE z = s
    <3>1. lock'[z].run = created + 1 /\ lock'[z].name = a
      BY <1>1, <2>1
    <3>2. created + 1 <= created'
      BY InsertTypes, InsertNames DEF Insert
    <3> QED
      BY <2>1, <3>1, <3>2, InsertNames
  <2>2. CASE z # s
    <3>1. lock'[z] = lock[z]
      BY <1>1, <2>2
    <3> QED
      BY <1>2, <3>1, InsertNames DEF NamesInv, LockNamed
  <2> QED
    BY <2>1, <2>2
<1>3. ASSUME NEW z \in Issue, lock'[z].run = 0 PROVE lock'[z].name = NoAgent
  <2>1. z # s
    BY <1>1, <1>3, InsertNames
  <2> QED
    BY <1>1, <1>3, <2>1 DEF NamesInv, LockNamed
<1> QED
  BY <1>2, <1>3, InsertNames DEF NamesInv, LockNamed

LEMMA ReleaseNames == ASSUME TypeInv, NamesInv, NEW j \in JobId, Release(j) PROVE NamesInv'
<1>1. CASE UNCHANGED <<run, created, lock, deferred>>
  BY <1>1, SameRunsNames
<1>2. ASSUME NEW s \in Issue, FreeIssue(j, s) PROVE NamesInv'
  <2>1. lock' = [lock EXCEPT ![s] = Unlocked] /\ UNCHANGED <<run, created>>
    BY <1>2 DEF FreeIssue
  <2>2. ASSUME NEW z \in Issue PROVE lock'[z] = Unlocked \/ lock'[z] = lock[z]
    BY <2>1 DEF TypeInv, TypeOK
  <2> QED
    BY <2>1, <2>2 DEF NamesInv, LockNamed, WakesStayWithAgent, Unlocked
<1>3. ASSUME NEW s \in Issue, NEW i \in Invokable(s), Promote(j, s, i) PROVE NamesInv'
  <2>1. deferred[s][i] \in Agent
    BY DEF Invokable, TypeInv, TypeOK
  <2> QED
    BY <1>3, <2>1, EnterNames DEF Promote
<1> QED
  BY <1>1, <1>2, <1>3 DEF Release

LEMMA EnqueueNames ==
  ASSUME TypeInv, OwnerInv, NamesInv, NEW h \in JobId, EnqueueOnIssue(h) PROVE NamesInv'
<1> DEFINE s == job[h].issue
           a == job[h].agent
<1>1. CASE /\ s \in Issue /\ a \in Agent /\ lock[s].run \in RunId
           /\ OwnerName(s, lock[s].run) = a /\ Coalesce(lock[s].run, a)
           /\ UNCHANGED <<lock, created>>
  <2>1. run[lock[s].run].agent = a
    BY <1>1, MaxRunsType DEF NamesInv, LockNamed, OwnerName, RunId
  <2> QED
    BY <1>1, <2>1, CoalesceNames
<1>2. CASE UNCHANGED <<run, lock, created>>
  BY <1>2, SameRunsNames
<1>3. CASE /\ s \in Issue /\ a \in Agent /\ Insert(a, s)
           /\ lock' = [lock EXCEPT ![s] = [run |-> created + 1, name |-> a]]
  BY <1>3, EnterNames
<1> QED
  BY <1>1, <1>2, <1>3, EnqueueEither

LEMMA ScanNames == ASSUME TypeInv, NamesInv, NEW h \in JobId, Scan(h) PROVE NamesInv'
<1>1. UNCHANGED <<lock, created>>
  BY DEF Scan
<1>2. CASE run' = run
  BY <1>1, <1>2, SameRunsNames
<1>3. ASSUME NEW r \in RunId, run[r].agent = job[h].agent, Coalesce(r, job[h].agent)
      PROVE  NamesInv'
  BY <1>1, <1>3, CoalesceNames
<1> QED
  BY <1>2, <1>3 DEF Scan, ActiveRuns

LEMMA InsertRunNames ==
  ASSUME TypeInv, NamesInv, NEW h \in JobId, InsertRun(h) PROVE NamesInv'
<1>1. job[h].agent \in Agent /\ job[h].issue \in Issue \union {NoIssue}
  BY JobHas DEF InsertRun, At, JobFits, Job
<1>2. Insert(job[h].agent, job[h].issue) /\ lock' = lock
  BY DEF InsertRun
<1> QED
  BY <1>1, <1>2, InsertNames DEF NamesInv, LockNamed

LEMMA StepNames ==
  ASSUME TypeInv, OwnerInv, NamesInv, NEW j \in JobId, Step(j) PROVE NamesInv'
<1>1. CASE Execute(j) \/ ReadAgent(j) \/ WriteAgent(j) \/ Snapshot(j) \/ NextOfSnapshot(j)
  BY <1>1, SameRunsNames
  DEF Execute, Load, PreparationThrows, MarkAgentRunning, Spawn, AdapterReturns, AdapterThrows,
      RecordCost, ReadAgent, WriteAgent, Snapshot, NextOfSnapshot, rows
<1>2. CASE SetRunStatus(j) \/ SetWakeupStatus(j)
  <2>1. \E q, value : \/ run' = [run EXCEPT ![q].status = value]
                      \/ run' = [run EXCEPT ![q].wake = value]
    BY <1>2 DEF SetRunStatus, SetWakeupStatus
  <2>2. UNCHANGED <<lock, created>>
    BY <1>2 DEF SetRunStatus, SetWakeupStatus
  <2> QED
    BY <2>1, <2>2, RowUpdateNames
<1> QED
  BY <1>1, <1>2, ReleaseNames, EnqueueNames, ScanNames, InsertRunNames
  DEF Step, SettleRun, Serve

LEMMA LoopNames == ASSUME TypeInv, NamesInv, NEW a \in Agent, StartLoop(a) PROVE NamesInv'
<1>1. CASE Launch(a)
  BY <1>1, SameRunsNames DEF Launch, rows
<1>2. CASE Claim(a)
  <2>1. PICK q \in start[a].picked :
          run' = [run EXCEPT ![q].status = IF @ = "queued" THEN "running" ELSE @]
    BY <1>2 DEF Claim
  <2> DEFINE value == IF run[q].status = "queued" THEN "running" ELSE run[q].status
  <2>2. run' = [run EXCEPT ![q].status = value]
    BY <2>1
  <2> HIDE DEF value
  <2> QED
    BY <1>2, <2>2, RowUpdateNames DEF Claim
<1>3. CASE MarkClaimed(a)
  BY <1>3, RowUpdateNames DEF MarkClaimed
<1> QED
  BY <1>1, <1>2, <1>3 DEF StartLoop

LEMMA InitNames == Init => NamesInv
BY DEF Init, NamesInv, LockNamed, WakesStayWithAgent, Unlocked, NoRun

LEMMA NextNames == TypeInv /\ OwnerInv /\ NamesInv /\ [Next]_vars => NamesInv'
<1> SUFFICES ASSUME TypeInv, OwnerInv, NamesInv, [Next]_vars PROVE NamesInv'
  OBVIOUS
<1>1. ASSUME UNCHANGED <<run, lock, created>> PROVE NamesInv'
  BY <1>1, SameRunsNames
<1>2. ASSUME NEW j \in JobId, Acquire(j) PROVE NamesInv'
  BY <1>1, <1>2 DEF Acquire, rows
<1>3. ASSUME NEW a \in Agent, ResumeAgent(a) PROVE NamesInv'
  BY <1>1, <1>3 DEF ResumeAgent
<1>4. ASSUME NEW h \in Handler, Arrive(h) PROVE NamesInv'
  BY <1>1, <1>4 DEF Arrive, ReceiveWake, CancelRun, StopAgent, ReapTick, Restart, rows
<1>5. CASE UNCHANGED vars
  BY <1>1, <1>5 DEF vars
<1> QED
  BY <1>2, <1>3, <1>4, <1>5, StepNames, LoopNames DEF Next

(* Where nobody is mentioned, a run answers the wakes of its own agent only: *)
(* a wake joins the run the lock points to only if the lock's name, which is *)
(* the name of that run's agent, is its own.                                 *)
THEOREM WakesJoinTheirAgent ==
  ASSUME "mention" \notin Kinds PROVE Spec => []WakesStayWithAgent
<1>1. NamesInv => WakesStayWithAgent
  BY DEF NamesInv
<1> QED
  BY <1>1, InitTypes, NextTypes, InitOwner, NextOwner, InitNames, NextNames, PTL DEF Spec

-----------------------------------------------------------------------------
(* The refinement: locks, rows and deferred wakes implement IssueGate.       *)

Phase(s) == IF lock[s].run = 0 THEN "free"
            ELSE IF IsActive(lock[s].run) THEN "held" ELSE "ending"

Phases == [s \in Issue |-> Phase(s)]
Holders == [s \in Issue |-> lock[s].name]

SameActivity == \A r \in RunId : r <= created => (run'[r].status \in Active <=> IsActive(r))

(* One issue's change of phase or holder is one change of the gate.          *)
LEMMA OnePhase ==
  ASSUME NEW s \in Issue, NEW v, Phase(s)' = v,
         \A z \in Issue : z # s => Phase(z)' = Phase(z)
  PROVE  Phases' = [Phases EXCEPT ![s] = v]
BY DEF Phases

LEMMA OneHolder ==
  ASSUME NEW s \in Issue, NEW v, lock'[s].name = v,
         \A z \in Issue : z # s => lock'[z] = lock[z]
  PROVE  Holders' = [Holders EXCEPT ![s] = v]
BY DEF Holders

LEMMA LockedRun ==
  ASSUME TypeInv, NamesInv, NEW s \in Issue, lock[s].run # 0
  PROVE  lock[s].run \in RunId /\ lock[s].run <= created /\ run[lock[s].run].issue = s
BY MaxRunsType DEF NamesInv, LockNamed, TypeInv, TypeOK, RunId

LEMMA PhaseKept ==
  ASSUME TypeInv, NamesInv, NEW s \in Issue, lock'[s] = lock[s], SameActivity
  PROVE  Phase(s)' = Phase(s)
BY LockedRun DEF Phase, SameActivity, IsActive

LEMMA GateStutters ==
  ASSUME TypeInv, NamesInv, SameActivity, UNCHANGED <<lock, deferred>>
  PROVE  UNCHANGED Gate!gate
<1>1. Phases' = Phases
  BY PhaseKept DEF Phases
<1> QED
  BY <1>1 DEF Phases, Phase, Gate!gate

LEMMA SameRunsStutter ==
  ASSUME TypeInv, NamesInv, UNCHANGED <<run, lock, deferred>> PROVE UNCHANGED Gate!gate
BY GateStutters DEF SameActivity, IsActive

(* A row whose status is not written, or stays active or over.               *)
LEMMA UpdateActivity ==
  ASSUME TypeInv, NEW q, NEW value,
         \/ run' = [run EXCEPT ![q].wake = value]
         \/ run' = [run EXCEPT ![q].answers = value]
         \/ /\ run' = [run EXCEPT ![q].status = value]
            /\ value \in Active <=> IsActive(q)
  PROVE  SameActivity
<1>1. ASSUME NEW r \in RunId PROVE run'[r].status \in Active <=> IsActive(r)
  <2>1. run[r] \in Row /\ run \in [RunId -> Row]
    BY DEF TypeInv, TypeOK
  <2>2. CASE r # q
    BY <2>1, <2>2 DEF IsActive
  <2>3. CASE r = q
    <3>1. \/ run'[r] = [run[r] EXCEPT !.wake = value]
          \/ run'[r] = [run[r] EXCEPT !.answers = value]
          \/ /\ run'[r] = [run[r] EXCEPT !.status = value]
             /\ value \in Active <=> IsActive(r)
      BY <2>1, <2>3
    <3> QED
      BY <2>1, <3>1 DEF Row, IsActive
  <2> QED
    BY <2>2, <2>3
<1> QED
  BY <1>1 DEF SameActivity

LEMMA ClaimActivity ==
  ASSUME TypeInv, NEW a \in Agent, Claim(a) \/ MarkClaimed(a) PROVE SameActivity
<1>1. CASE Claim(a)
  <2>1. PICK q \in start[a].picked :
          run' = [run EXCEPT ![q].status = IF @ = "queued" THEN "running" ELSE @]
    BY <1>1 DEF Claim
  <2> DEFINE value == IF run[q].status = "queued" THEN "running" ELSE run[q].status
  <2>2. run' = [run EXCEPT ![q].status = value] /\ (value \in Active <=> IsActive(q))
    BY <2>1 DEF IsActive, Active
  <2> HIDE DEF value
  <2> QED
    BY <2>2, UpdateActivity
<1>2. CASE MarkClaimed(a)
  BY <1>2, UpdateActivity DEF MarkClaimed
<1> QED
  BY <1>1, <1>2

(* The row of a new run concerns no lock.                                    *)
LEMMA InsertActivity ==
  ASSUME TypeInv, NamesInv, NEW a \in Agent, NEW s \in Issue \union {NoIssue}, Insert(a, s)
  PROVE  SameActivity
<1>1. \A r \in RunId : r <= created => r # created + 1
  BY InsertNames, RunIdsFinite
<1> QED
  BY <1>1, InsertNames DEF SameActivity, IsActive

(* A new run enters, or takes over, the gate of its issue.                   *)
LEMMA EnterGate ==
  ASSUME TypeInv, NamesInv, NEW a \in Agent, NEW s \in Issue, Insert(a, s),
         lock' = [lock EXCEPT ![s] = [run |-> created + 1, name |-> a]]
  PROVE  /\ Phases' = [Phases EXCEPT ![s] = "held"]
         /\ Holders' = [Holders EXCEPT ![s] = a]
<1>1. lock'[s] = [run |-> created + 1, name |-> a] /\ \A z \in Issue : z # s => lock'[z] = lock[z]
  BY DEF TypeInv, TypeOK
<1>2. created + 1 # 0 /\ run'[created + 1].status \in Active
  BY InsertNames DEF Active
<1>3. Phase(s)' = "held"
  BY <1>1, <1>2 DEF Phase, IsActive
<1>4. \A z \in Issue : z # s => Phase(z)' = Phase(z)
  BY <1>1, InsertActivity, PhaseKept
<1> QED
  BY <1>1, <1>3, <1>4, OnePhase, OneHolder

LEMMA FinishImplements ==
  ASSUME TypeInv, NamesInv, NEW j \in JobId, SetRunStatus(j) PROVE [Gate!Next]_Gate!gate
<1> DEFINE q == job[j].run
           value == job[j].value
<1>1. q \in RunId /\ value \in Terminal
  BY JobHas, RunHasAgent DEF SetRunStatus, At, JobFits, RunPc
<1>2. run' = [run EXCEPT ![q].status = value] /\ UNCHANGED <<lock, deferred>>
  BY DEF SetRunStatus
<1>3. value \notin Active
  BY <1>1 DEF Terminal, Active
<1> HIDE DEF q, value
<1>4. CASE ~IsActive(q)
  BY <1>2, <1>3, <1>4, UpdateActivity, GateStutters
<1>5. run \in [RunId -> Row]
  BY DEF TypeInv, TypeOK
<1>6. run'[q].status = value /\ \A r \in RunId : r # q => run'[r] = run[r]
  BY <1>1, <1>2, <1>5 DEF Row
<1>7. ASSUME NEW z \in Issue, lock[z].run # q PROVE Phase(z)' = Phase(z)
  BY <1>2, <1>6, <1>7, LockedRun DEF Phase, IsActive
<1>8. CASE \A s \in Issue : lock[s].run # q
  <2>1. Phases' = Phases
    BY <1>7, <1>8 DEF Phases
  <2> QED
    BY <1>2, <2>1 DEF Phases, Phase, Gate!gate
<1>9. ASSUME NEW s \in Issue, lock[s].run = q, IsActive(q) PROVE Gate!Finish(s)
  <2>1. q # 0
    BY <1>1, RunIdsFinite, MaxRunsType DEF RunId
  <2>2. Phase(s) = "held" /\ Phase(s)' = "ending"
    BY <1>2, <1>3, <1>6, <1>9, <2>1 DEF Phase, IsActive
  <2>3. \A z \in Issue : z # s => Phase(z)' = Phase(z)
    BY <1>7, <1>9, <2>1, LockedRun
  <2>4. Phases' = [Phases EXCEPT ![s] = "ending"] /\ Phases[s] = "held"
    BY <2>2, <2>3, OnePhase DEF Phases
  <2> QED
    BY <1>2, <2>4 DEF Gate!Finish, Phases, Phase
<1> QED
  BY <1>4, <1>8, <1>9 DEF Gate!Next

LEMMA ReleaseImplements ==
  ASSUME TypeInv, OwnerInv, NamesInv, NEW j \in JobId, Release(j)
  PROVE  [Gate!Next]_Gate!gate
<1>1. job[j].run \in RunId /\ ~IsActive(job[j].run)
  BY RunHasAgent DEF Release, At, RunPc, OwnerInv, SettledIsOver, SettledPc
<1>2. job[j].run # 0
  BY <1>1, MaxRunsType DEF RunId
<1>3. ASSUME NEW s \in Issue, lock[s].run = job[j].run PROVE Phases[s] = "ending"
  BY <1>1, <1>2, <1>3 DEF Phases, Phase
<1>4. CASE UNCHANGED <<run, created, lock, deferred>>
  BY <1>4, SameRunsStutter
<1>5. ASSUME NEW s \in Issue, lock[s].run = job[j].run, FreeIssue(j, s) PROVE Gate!HandOver(s)
  <2>1. /\ lock' = [lock EXCEPT ![s] = Unlocked] /\ run' = run
        /\ deferred' = [deferred EXCEPT ![s] = <<>>]
    BY <1>5 DEF FreeIssue
  <2>2. lock'[s] = Unlocked /\ \A z \in Issue : z # s => lock'[z] = lock[z]
    BY <2>1 DEF TypeInv, TypeOK
  <2>3. Phase(s)' = "free" /\ \A z \in Issue : z # s => Phase(z)' = Phase(z)
    BY <2>1, <2>2 DEF Phase, IsActive, Unlocked
  <2>4. Phases' = [Phases EXCEPT ![s] = "free"] /\ Holders' = [Holders EXCEPT ![s] = NoAgent]
    BY <2>2, <2>3, OnePhase, OneHolder DEF Unlocked
  <2> QED
    BY <1>3, <1>5, <2>1, <2>4 DEF Gate!HandOver, Phases, Phase, Holders
<1>6. ASSUME NEW s \in Issue, lock[s].run = job[j].run, NEW i \in Invokable(s), Promote(j, s, i)
      PROVE  Gate!HandOver(s)
  <2>1. i \in 1..Len(deferred[s]) /\ deferred[s][i] \in Agent
    BY DEF Invokable, TypeInv, TypeOK
  <2>2. deferred' = [deferred EXCEPT ![s] = SubSeq(@, i + 1, Len(@))]
    BY <1>6 DEF Promote
  <2>3. /\ Phases' = [Phases EXCEPT ![s] = "held"]
        /\ Holders' = [Holders EXCEPT ![s] = deferred[s][i]]
    BY <1>6, <2>1, EnterGate DEF Promote
  <2> QED
    BY <1>3, <1>6, <2>1, <2>2, <2>3 DEF Gate!HandOver, Phases, Phase, Holders
<1> QED
  BY <1>4, <1>5, <1>6 DEF Release, Gate!Next

LEMMA EnqueueImplements ==
  ASSUME TypeInv, OwnerInv, NamesInv, NEW h \in JobId, EnqueueOnIssue(h)
  PROVE  [Gate!Next]_Gate!gate
<1> DEFINE s == job[h].issue
           a == job[h].agent
<1>1. s \in Issue /\ a \in Agent
  BY EnqueueEither
<1>2. CASE Coalesce(lock[s].run, a) /\ UNCHANGED <<lock, deferred>>
  BY <1>2, UpdateActivity, GateStutters DEF Coalesce
<1>3. CASE /\ lock[s].run \in RunId /\ IsActive(lock[s].run) /\ UNCHANGED <<run, lock>>
           /\ deferred' = IF Waiting(s, a) THEN deferred
                          ELSE [deferred EXCEPT ![s] = Append(@, a)]
  <2>1. CASE Waiting(s, a)
    BY <1>3, <2>1, SameRunsStutter
  <2>2. CASE ~Waiting(s, a)
    <3>1. Phases[s] = "held"
      BY <1>1, <1>3, MaxRunsType DEF Phases, Phase, RunId
    <3>2. UNCHANGED <<Phases, Holders>>
      BY <1>3 DEF Phases, Phase, Holders, IsActive
    <3>3. Gate!Wait(s, a)
      BY <1>1, <1>3, <2>2, <3>1, <3>2 DEF Gate!Wait, Waiting, Phases, Phase, Holders
    <3> QED
      BY <1>1, <3>3 DEF Gate!Next
  <2> QED
    BY <2>1, <2>2
<1>4. ASSUME NEW x \in Issue, NEW b \in Agent, Insert(b, x), deferred' = deferred,
             lock[x].run # 0 => ~IsActive(lock[x].run),
             lock' = [lock EXCEPT ![x] = [run |-> created + 1, name |-> b]]
      PROVE  Gate!Next
  <2>1. Phases[x] # "held"
    BY <1>4 DEF Phases, Phase
  <2>2. Phases' = [Phases EXCEPT ![x] = "held"] /\ Holders' = [Holders EXCEPT ![x] = b]
    BY <1>4, EnterGate
  <2>3. Gate!Enter(x, b)
    BY <1>4, <2>1, <2>2 DEF Gate!Enter, Phases, Phase, Holders
  <2> QED
    BY <2>3 DEF Gate!Next
<1>5. CASE /\ lock[s].run # 0 => ~IsActive(lock[s].run)
           /\ Insert(a, s) /\ deferred' = deferred
           /\ lock' = [lock EXCEPT ![s] = [run |-> created + 1, name |-> a]]
  BY <1>1, <1>4, <1>5
<1> QED
  BY <1>2, <1>3, <1>5, EnqueueEither

LEMMA StepImplements ==
  ASSUME TypeInv, OwnerInv, NamesInv, NEW j \in JobId, Step(j) PROVE [Gate!Next]_Gate!gate
<1>1. CASE Execute(j) \/ ReadAgent(j) \/ WriteAgent(j) \/ Snapshot(j) \/ NextOfSnapshot(j)
  BY <1>1, SameRunsStutter
  DEF Execute, Load, PreparationThrows, MarkAgentRunning, Spawn, AdapterReturns, AdapterThrows,
      RecordCost, ReadAgent, WriteAgent, Snapshot, NextOfSnapshot, rows
<1>2. CASE SetWakeupStatus(j)
  BY <1>2, UpdateActivity, GateStutters DEF SetWakeupStatus
<1>3. CASE Scan(j)
  <2>1. UNCHANGED <<lock, deferred>> /\ (run' = run \/ \E r : Coalesce(r, job[j].agent))
    BY <1>3 DEF Scan
  <2> QED
    BY <2>1, SameRunsStutter, UpdateActivity, GateStutters DEF Coalesce
<1>4. CASE InsertRun(j)
  <2>1. job[j].agent \in Agent /\ job[j].issue \in Issue \union {NoIssue}
    BY <1>4, JobHas DEF InsertRun, At, JobFits, Job
  <2> QED
    BY <1>4, <2>1, InsertActivity, GateStutters DEF InsertRun
<1> QED
  BY <1>1, <1>2, <1>3, <1>4, FinishImplements, ReleaseImplements, EnqueueImplements
  DEF Step, SettleRun, Serve

LEMMA LoopImplements ==
  ASSUME TypeInv, NamesInv, NEW a \in Agent, StartLoop(a) PROVE [Gate!Next]_Gate!gate
<1>1. CASE Launch(a)
  BY <1>1, SameRunsStutter DEF Launch, rows
<1>2. CASE Claim(a) \/ MarkClaimed(a)
  BY <1>2, ClaimActivity, GateStutters DEF Claim, MarkClaimed
<1> QED
  BY <1>1, <1>2 DEF StartLoop

LEMMA InitImplements == Init => Gate!Init
BY DEF Init, Gate!Init, Unlocked

LEMMA NextImplements ==
  TypeInv /\ OwnerInv /\ NamesInv /\ [Next]_vars => [Gate!Next]_Gate!gate
<1> SUFFICES ASSUME TypeInv, OwnerInv, NamesInv, [Next]_vars PROVE [Gate!Next]_Gate!gate
  OBVIOUS
<1>1. ASSUME UNCHANGED <<run, lock, deferred>> PROVE [Gate!Next]_Gate!gate
  BY <1>1, SameRunsStutter
<1>2. ASSUME NEW j \in JobId, Acquire(j) PROVE [Gate!Next]_Gate!gate
  BY <1>1, <1>2 DEF Acquire, rows
<1>3. ASSUME NEW a \in Agent, ResumeAgent(a) PROVE [Gate!Next]_Gate!gate
  BY <1>1, <1>3 DEF ResumeAgent
<1>4. ASSUME NEW h \in Handler, Arrive(h) PROVE [Gate!Next]_Gate!gate
  BY <1>1, <1>4 DEF Arrive, ReceiveWake, CancelRun, StopAgent, ReapTick, Restart, rows
<1>5. CASE UNCHANGED vars
  BY <1>1, <1>5 DEF vars
<1> QED
  BY <1>2, <1>3, <1>4, <1>5, StepImplements, LoopImplements DEF Next

(* Where nobody is mentioned, the rows of runs, issues and wakes implement   *)
(* the issue gate: one holder at a time, the others wait in order and the    *)
(* leaving holder hands over, whatever is cancelled, paused or restarted.    *)
THEOREM RunsImplementGate ==
  ASSUME "mention" \notin Kinds PROVE Spec => ImplementsGate
BY InitTypes, NextTypes, InitOwner, NextOwner, InitNames, NextNames, InitImplements,
   NextImplements, PTL DEF Spec, ImplementsGate, Gate!Spec

-----------------------------------------------------------------------------
(* Calls and start locks, whatever the constants: the holder of a start lock *)
(* waits in it, and a run is not executed before the lock's loop is over.    *)

Handled(a) == start[a].started \union ({start[a].claimed} \ {0})

HolderWaits ==
  \A a \in Agent : start[a].by # NoJob =>
    job[start[a].by].pc = "starting" /\ job[start[a].by].agent = a

HandledIsIdle ==
  \A a \in Agent : \A r \in Handled(a) :
    run[r].agent = a /\ run[r].status \notin {"absent", "queued"} /\ job[r] = IdleJob

QueuedIsIdle == \A r \in RunId : run[r].status \in {"absent", "queued"} => job[r] = IdleJob

CallInv == HolderWaits /\ HandledIsIdle /\ QueuedIsIdle

OneCall(j) == \A k \in JobId : k # j => job'[k] = job[k]

(* The call moves on by a statement of its own, or begins.                   *)
Takes(j) ==
  /\ OneCall(j)
  /\ job[j].pc \notin {"idle", "starting"} \/ (j \in Handler /\ job[j] = IdleJob)

(* Rows are not queued again, and keep their agent.                          *)
RunsAdvance ==
  \A r \in RunId :
    /\ run'[r].status \in {"absent", "queued"} => run[r].status \in {"absent", "queued"}
    /\ run[r].status # "absent" => run'[r].agent = run[r].agent

LEMMA HandledRuns ==
  ASSUME TypeInv, NEW a \in Agent
  PROVE  Handled(a) \subseteq RunId /\ start[a].by \in JobId \union {NoJob}
<1>1. start[a] \in StartLock
  BY DEF TypeInv, TypeOK
<1> QED
  BY <1>1, MaxRunsType DEF Handled, StartLock, RunId

LEMMA HandlersAreNoRuns == ASSUME NEW h \in Handler PROVE h \in JobId /\ h \notin RunId
BY HandlerAssumption DEF JobId

LEMMA TakesKeepsCalls ==
  ASSUME TypeInv, CallInv, RunsAdvance, UNCHANGED start, NEW j \in JobId, Takes(j)
  PROVE  CallInv'
<1>1. j \in RunId => job[j] # IdleJob
  BY HandlersAreNoRuns DEF Takes, IdleJob
<1>2. ASSUME NEW r \in RunId, job[r] = IdleJob PROVE job'[r] = IdleJob
  BY <1>1, <1>2 DEF Takes, OneCall, JobId
<1>3. HolderWaits'
  <2>1. ASSUME NEW a \in Agent, start[a].by # NoJob PROVE start[a].by \in JobId /\ start[a].by # j
    <3>1. job[start[a].by].pc = "starting"
      BY <2>1 DEF CallInv, HolderWaits
    <3> QED
      BY <2>1, <3>1, HandledRuns DEF Takes, IdleJob
  <2> QED
    BY <2>1 DEF CallInv, HolderWaits, Takes, OneCall
<1>4. HandledIsIdle'
  BY <1>2, HandledRuns DEF CallInv, HandledIsIdle, Handled, RunsAdvance
<1>5. QueuedIsIdle'
  BY <1>2 DEF CallInv, QueuedIsIdle, RunsAdvance
<1> QED
  BY <1>3, <1>4, <1>5 DEF CallInv

LEMMA UpdateAdvances ==
  ASSUME TypeInv, NEW q, NEW value,
         \/ value \in Terminal /\ run' = [run EXCEPT ![q].status = value]
         \/ run' = [run EXCEPT ![q].wake = value]
         \/ run' = [run EXCEPT ![q].answers = value]
  PROVE  RunsAdvance
<1>1. ASSUME NEW r \in RunId
      PROVE  /\ run'[r].status \in {"absent", "queued"} => run[r].status \in {"absent", "queued"}
             /\ run'[r].agent = run[r].agent
  <2>1. run[r] \in Row /\ run \in [RunId -> Row]
    BY DEF TypeInv, TypeOK
  <2>2. CASE r # q
    BY <2>1, <2>2
  <2>3. CASE r = q
    <3>1. \/ value \in Terminal /\ run'[r] = [run[r] EXCEPT !.status = value]
          \/ run'[r] = [run[r] EXCEPT !.wake = value]
          \/ run'[r] = [run[r] EXCEPT !.answers = value]
      BY <2>1, <2>3
    <3> QED
      BY <2>1, <3>1 DEF Row, Terminal
  <2> QED
    BY <2>2, <2>3
<1> QED
  BY <1>1 DEF RunsAdvance

LEMMA SameRunsAdvance == UNCHANGED run => RunsAdvance
BY DEF RunsAdvance

LEMMA InsertAdvances ==
  ASSUME TypeInv, NEW a \in Agent, NEW s \in Issue \union {NoIssue}, Insert(a, s)
  PROVE  RunsAdvance
<1>1. created + 1 \in RunId /\ created \in Nat /\ run \in [RunId -> Row] /\ RowsFilled
  BY InsertTypes, MaxRunsType DEF TypeInv, TypeOK
<1>2. run[created + 1] = NoRun
  BY <1>1 DEF RowsFilled
<1>3. \A r \in RunId : r # created + 1 => run'[r] = run[r]
  BY <1>1 DEF Insert
<1> QED
  BY <1>2, <1>3 DEF RunsAdvance, NoRun

LEMMA ReleaseAdvances == ASSUME TypeInv, NEW j \in JobId, Release(j) PROVE RunsAdvance
<1>1. ASSUME NEW s \in Issue, NEW i \in Invokable(s), Promote(j, s, i) PROVE RunsAdvance
  <2>1. deferred[s][i] \in Agent
    BY DEF Invokable, TypeInv, TypeOK
  <2> QED
    BY <1>1, <2>1, InsertAdvances DEF Promote
<1> QED
  BY <1>1, SameRunsAdvance DEF Release, FreeIssue

LEMMA ServeAdvances == ASSUME TypeInv, NEW h \in JobId, Serve(h) PROVE RunsAdvance
<1>1. CASE EnqueueOnIssue(h)
  <2>1. job[h].agent \in Agent /\ job[h].issue \in Issue
    BY <1>1, JobHas DEF EnqueueOnIssue, At, JobFits
  <2>2. \/ run' = run \/ Insert(job[h].agent, job[h].issue)
        \/ \E r : Coalesce(r, job[h].agent)
    BY <1>1 DEF EnqueueOnIssue
  <2> QED
    BY <2>1, <2>2, SameRunsAdvance, InsertAdvances, UpdateAdvances DEF Coalesce
<1>2. CASE Scan(h)
  <2>1. run' = run \/ \E r : Coalesce(r, job[h].agent)
    BY <1>2 DEF Scan
  <2> QED
    BY <2>1, SameRunsAdvance, UpdateAdvances DEF Coalesce
<1>3. CASE InsertRun(h)
  <2>1. job[h].agent \in Agent /\ job[h].issue \in Issue \union {NoIssue}
    BY <1>3, JobHas DEF InsertRun, At, JobFits, Job
  <2> QED
    BY <1>3, <2>1, InsertAdvances DEF InsertRun
<1> QED
  BY <1>1, <1>2, <1>3, SameRunsAdvance DEF Serve, Snapshot, NextOfSnapshot, rows

LEMMA StepAdvances == ASSUME TypeInv, NEW j \in JobId, Step(j) PROVE RunsAdvance
<1>1. CASE Execute(j) \/ ReadAgent(j) \/ WriteAgent(j)
  BY <1>1, SameRunsAdvance
  DEF Execute, Load, PreparationThrows, MarkAgentRunning, Spawn, AdapterReturns, AdapterThrows,
      RecordCost, ReadAgent, WriteAgent, rows
<1>2. CASE SetRunStatus(j)
  <2>1. job[j].value \in Terminal
    BY <1>2, JobHas DEF SetRunStatus, At, JobFits
  <2> QED
    BY <1>2, <2>1, UpdateAdvances DEF SetRunStatus
<1>3. CASE SetWakeupStatus(j)
  BY <1>3, UpdateAdvances DEF SetWakeupStatus
<1> QED
  BY <1>1, <1>2, <1>3, ReleaseAdvances, ServeAdvances DEF Step, SettleRun

LEMMA StepTakes == ASSUME TypeInv, NEW j \in JobId, Step(j) PROVE Takes(j) /\ UNCHANGED start
<1>1. job \in [JobId -> Job]
  BY DEF TypeInv, TypeOK
<1>2. CASE Execute(j)
  BY <1>1, <1>2 DEF Execute, Load, PreparationThrows, MarkAgentRunning, Spawn, AdapterReturns,
     AdapterThrows, RecordCost, Goto, Become, Settle, At, rows, Takes, OneCall
<1>3. CASE Release(j)
  <2>1. \E state : job' = [job EXCEPT ![j] = state]
    <3>1. ASSUME NEW pc, Goto(j, pc) PROVE \E state : job' = [job EXCEPT ![j] = state]
      BY <3>1 DEF Goto
    <3>2. ASSUME NEW a, NEW pc, CallStart(j, a, pc)
          PROVE  \E state : job' = [job EXCEPT ![j] = state]
      <4> DEFINE state == [job[j] EXCEPT !.pc = "start", !.agent = a, !.then = pc]
      <4>1. job' = [job EXCEPT ![j] = state]
        BY <3>2 DEF CallStart
      <4> QED
        BY <4>1
    <3> QED
      BY <1>3, <3>1, <3>2 DEF Release, FreeIssue, Promote
  <2> QED
    BY <1>1, <1>3, <2>1 DEF Release, At, Takes, OneCall
<1>4. CASE SetRunStatus(j) \/ SetWakeupStatus(j) \/ ReadAgent(j) \/ WriteAgent(j)
  BY <1>1, <1>4 DEF SetRunStatus, SetWakeupStatus, ReadAgent, WriteAgent, Goto, At, rows, Takes,
     OneCall
<1>5. CASE Serve(j)
  BY <1>1, <1>5 DEF Serve, EnqueueOnIssue, Scan, InsertRun, Snapshot, NextOfSnapshot, Goto,
     Become, At, rows, Takes, OneCall
<1> QED
  BY <1>2, <1>3, <1>4, <1>5 DEF Step, SettleRun

LEMMA AcquireTakes ==
  ASSUME TypeInv, NEW j \in JobId, Acquire(j)
  PROVE  /\ Takes(j) /\ run' = run
         /\ \/ start' = start
            \/ /\ Goto(j, "starting")
               /\ start' = [start EXCEPT ![job[j].agent] =
                              [Free EXCEPT !.by = j, !.picked = Picked(job[j].agent)]]
<1>1. job \in [JobId -> Job] /\ job[j].pc = "start"
  BY DEF TypeInv, TypeOK, Acquire, At
<1>2. OneCall(j)
  BY <1>1 DEF Acquire, Become, Goto, OneCall
<1> QED
  BY <1>1, <1>2 DEF Acquire, Takes, rows

LEMMA AcquireCalls == ASSUME TypeInv, CallInv, NEW j \in JobId, Acquire(j) PROVE CallInv'
<1> DEFINE a == job[j].agent
<1>1. CASE start' = start
  BY <1>1, AcquireTakes, SameRunsAdvance, TakesKeepsCalls
<1>2. CASE /\ Goto(j, "starting")
           /\ start' = [start EXCEPT ![a] = [Free EXCEPT !.by = j, !.picked = Picked(a)]]
  <2>1. /\ a \in Agent /\ job[j].pc = "start" /\ job \in [JobId -> Job] /\ run' = run
        /\ start \in [Agent -> StartLock]
    BY JobHas DEF Acquire, At, JobFits, rows, TypeInv, TypeOK
  <2>2. /\ job'[j].pc = "starting" /\ job'[j].agent = a
        /\ \A k \in JobId : k # j => job'[k] = job[k]
    BY <1>2, <2>1 DEF Goto, Job
  <2>3. /\ start'[a].by = j /\ start'[a].started = {} /\ start'[a].claimed = 0
        /\ \A b \in Agent : b # a => start'[b] = start[b]
    BY <1>2, <2>1 DEF Free
  <2>4. ASSUME NEW b \in Agent, start'[b].by # NoJob
        PROVE  job'[start'[b].by].pc = "starting" /\ job'[start'[b].by].agent = b
    BY <2>1, <2>2, <2>3, <2>4, HandledRuns DEF CallInv, HolderWaits
  <2>5. ASSUME NEW r \in RunId, job[r] = IdleJob PROVE job'[r] = IdleJob
    BY <2>1, <2>2, <2>5 DEF IdleJob, JobId
  <2>6. ASSUME NEW b \in Agent, NEW r \in Handled(b)'
        PROVE  run'[r].agent = b /\ run'[r].status \notin {"absent", "queued"} /\ job'[r] = IdleJob
    <3>1. b # a
      BY <2>3, <2>6 DEF Handled
    <3>2. r \in Handled(b)
      BY <2>3, <2>6, <3>1 DEF Handled
    <3> QED
      BY <2>1, <2>5, <3>2, HandledRuns DEF CallInv, HandledIsIdle
  <2>7. QueuedIsIdle'
    BY <2>1, <2>5 DEF CallInv, QueuedIsIdle
  <2> QED
    BY <2>4, <2>6, <2>7 DEF CallInv, HolderWaits, HandledIsIdle
<1> QED
  BY <1>1, <1>2, AcquireTakes

LEMMA ClaimAdvances ==
  ASSUME TypeInv, NEW a \in Agent, Claim(a) \/ MarkClaimed(a) PROVE RunsAdvance
<1>1. CASE MarkClaimed(a)
  BY <1>1, UpdateAdvances DEF MarkClaimed
<1>2. CASE Claim(a)
  <2>1. PICK q \in start[a].picked :
          run' = [run EXCEPT ![q].status = IF @ = "queued" THEN "running" ELSE @]
    BY <1>2 DEF Claim
  <2> DEFINE value == IF run[q].status = "queued" THEN "running" ELSE run[q].status
  <2>2. ASSUME NEW r \in RunId
        PROVE  /\ run'[r].status \in {"absent", "queued"}
                    => run[r].status \in {"absent", "queued"}
               /\ run'[r].agent = run[r].agent
    <3>1. run[r] \in Row /\ run \in [RunId -> Row]
      BY DEF TypeInv, TypeOK
    <3>2. CASE r # q
      BY <2>1, <3>1, <3>2
    <3>3. CASE r = q
      <4>1. run'[r] = [run[r] EXCEPT !.status = value]
        BY <2>1, <3>1, <3>3
      <4>2. run'[r].status = value /\ run'[r].agent = run[r].agent
        BY <3>1, <4>1 DEF Row
      <4> QED
        BY <3>3, <4>2
    <3> QED
      BY <3>2, <3>3
  <2> QED
    BY <2>2 DEF RunsAdvance
<1> QED
  BY <1>1, <1>2

(* What the two statements of a claim do to the runs the loop handles.       *)
LEMMA ClaimHandles ==
  ASSUME TypeInv, NEW a \in Agent, Claim(a) \/ MarkClaimed(a)
  PROVE  /\ job' = job
         /\ \A b \in Agent : start'[b].by = start[b].by /\ (b # a => Handled(b)' = Handled(b))
         /\ \A r \in Handled(a)' :
              \/ r \in Handled(a)
              \/ /\ r \in RunId /\ run[r].agent = a /\ run[r].status = "queued"
                 /\ run'[r].agent = a /\ run'[r].status = "running"
<1>1. start \in [Agent -> StartLock] /\ start[a] \in StartLock /\ run \in [RunId -> Row]
  BY DEF TypeInv, TypeOK
<1>2. CASE MarkClaimed(a)
  <2>1. /\ start'[a].started = start[a].started \union {start[a].claimed}
        /\ start'[a].claimed = 0 /\ start'[a].by = start[a].by /\ start[a].claimed # 0
        /\ \A b \in Agent : b # a => start'[b] = start[b]
    BY <1>1, <1>2 DEF MarkClaimed, StartLock
  <2>2. \A b \in Agent : start'[b].by = start[b].by /\ (b # a => Handled(b)' = Handled(b))
    BY <2>1 DEF Handled
  <2>3. \A r \in Handled(a)' : r \in Handled(a)
    BY <2>1 DEF Handled
  <2>4. job' = job
    BY <1>2 DEF MarkClaimed
  <2> QED
    BY <2>2, <2>3, <2>4
<1>3. CASE Claim(a)
  <2>1. PICK q \in start[a].picked :
          /\ run' = [run EXCEPT ![q].status = IF @ = "queued" THEN "running" ELSE @]
          /\ start' = [start EXCEPT ![a].picked = @ \ {q},
                                    ![a].claimed = IF run[q].status = "queued" THEN q ELSE 0]
    BY <1>3 DEF Claim
  <2>2. q \in RunId /\ run[q].agent = a /\ run[q] \in Row
    BY <1>1 DEF StartLock, TypeInv, StartFits
  <2>3. /\ start'[a].started = start[a].started /\ start'[a].by = start[a].by
        /\ start'[a].claimed = IF run[q].status = "queued" THEN q ELSE 0
        /\ \A b \in Agent : b # a => start'[b] = start[b]
    BY <1>1, <2>1 DEF StartLock
  <2>4. run[q].status = "queued" => run'[q] = [run[q] EXCEPT !.status = "running"]
    BY <1>1, <2>1, <2>2
  <2>5. run[q].status = "queued" => run'[q].agent = a /\ run'[q].status = "running"
    BY <2>2, <2>4 DEF Row
  <2>6. \A b \in Agent : start'[b].by = start[b].by /\ (b # a => Handled(b)' = Handled(b))
    BY <2>3 DEF Handled
  <2>7. ASSUME NEW r \in Handled(a)'
        PROVE  r \in Handled(a) \/ (r = q /\ run[q].status = "queued")
    <3>1. r \in start'[a].started \/ (r = start'[a].claimed /\ r # 0)
      BY <2>7 DEF Handled
    <3> QED
      BY <2>3, <3>1 DEF Handled
  <2>8. job' = job
    BY <1>3 DEF Claim
  <2>9. \A r \in Handled(a)' :
          \/ r \in Handled(a)
          \/ /\ r \in RunId /\ run[r].agent = a /\ run[r].status = "queued"
             /\ run'[r].agent = a /\ run'[r].status = "running"
    BY <2>2, <2>5, <2>7
  <2> QED
    BY <2>6, <2>8, <2>9
<1> QED
  BY <1>2, <1>3

LEMMA ClaimCalls ==
  ASSUME TypeInv, CallInv, NEW a \in Agent, Claim(a) \/ MarkClaimed(a) PROVE CallInv'
<1>1. RunsAdvance
  BY ClaimAdvances
<1>2. HolderWaits'
  BY ClaimHandles DEF CallInv, HolderWaits
<1>3. QueuedIsIdle'
  BY <1>1, ClaimHandles DEF CallInv, QueuedIsIdle, RunsAdvance
<1>4. ASSUME NEW b \in Agent, NEW r \in Handled(b)'
      PROVE  run'[r].agent = b /\ run'[r].status \notin {"absent", "queued"} /\ job'[r] = IdleJob
  <2>1. CASE r \in Handled(b)
    BY <1>1, <2>1, HandledRuns, ClaimHandles DEF CallInv, HandledIsIdle, RunsAdvance
  <2>2. CASE r \notin Handled(b)
    BY <1>4, <2>2, ClaimHandles DEF CallInv, QueuedIsIdle
  <2> QED
    BY <2>1, <2>2
<1> QED
  BY <1>2, <1>3, <1>4 DEF CallInv, HandledIsIdle

(* The calls that Launch changes: runs handled so far, and the lock's holder. *)
LEMMA LaunchCalls == ASSUME TypeInv, CallInv, NEW a \in Agent, Launch(a) PROVE CallInv'
<1>1. start \in [Agent -> StartLock] /\ run' = run /\ start[a].by # NoJob
  BY DEF TypeInv, TypeOK, Launch, rows
<1>2. start'[a] = Free /\ \A b \in Agent : b # a => start'[b] = start[b]
  BY <1>1 DEF Launch
<1>3. ASSUME NEW k \in JobId, k \notin start[a].started, k # start[a].by PROVE job'[k] = job[k]
  BY <1>3 DEF Launch
<1>4. \A r \in start[a].started : r \in Handled(a) /\ job[r] = IdleJob /\ run[r].agent = a
  BY DEF CallInv, HandledIsIdle, Handled
<1>5. job[start[a].by].pc = "starting" /\ job[start[a].by].agent = a
  BY <1>1 DEF CallInv, HolderWaits
<1>6. ASSUME NEW b \in Agent, start'[b].by # NoJob
      PROVE  job'[start'[b].by].pc = "starting" /\ job'[start'[b].by].agent = b
  <2>1. b # a /\ start'[b] = start[b]
    BY <1>2, <1>6 DEF Free
  <2>2. /\ start[b].by \in JobId /\ job[start[b].by].pc = "starting"
        /\ job[start[b].by].agent = b
    BY <1>6, <2>1, HandledRuns DEF CallInv, HolderWaits
  <2>3. start[b].by \notin start[a].started /\ start[b].by # start[a].by
    BY <1>4, <1>5, <2>1, <2>2 DEF IdleJob
  <2> QED
    BY <1>3, <2>1, <2>2, <2>3
<1>7. ASSUME NEW r \in RunId, job[r] = IdleJob, r \notin start[a].started PROVE job'[r] = IdleJob
  <2>1. r # start[a].by /\ r \in JobId
    BY <1>5, <1>7 DEF IdleJob, JobId
  <2> QED
    BY <1>3, <1>7, <2>1
<1>8. ASSUME NEW b \in Agent, NEW r \in Handled(b)'
      PROVE  run'[r].agent = b /\ run'[r].status \notin {"absent", "queued"} /\ job'[r] = IdleJob
  <2>1. b # a /\ r \in Handled(b)
    BY <1>2, <1>8 DEF Handled, Free
  <2>2. /\ r \in RunId /\ run[r].agent = b /\ run[r].status \notin {"absent", "queued"}
        /\ job[r] = IdleJob
    BY <2>1, HandledRuns DEF CallInv, HandledIsIdle
  <2>3. r \notin start[a].started
    BY <1>4, <2>1, <2>2
  <2> QED
    BY <1>1, <1>7, <2>2, <2>3
<1>9. QueuedIsIdle'
  <2>1. ASSUME NEW r \in RunId, run[r].status \in {"absent", "queued"}
        PROVE  job[r] = IdleJob /\ r \notin start[a].started
    BY <2>1 DEF CallInv, QueuedIsIdle, HandledIsIdle, Handled
  <2> QED
    BY <1>1, <1>7, <2>1 DEF QueuedIsIdle
<1> QED
  BY <1>6, <1>8, <1>9 DEF CallInv, HolderWaits, HandledIsIdle

(* A handler that was idle takes a request or a tick.                        *)
Ticks(h) ==
  \/ \E a \in Agent, s \in Issue \union {NoIssue}, k \in Kinds : ReceiveWake(h, a, s, k)
  \/ \E r \in RunId : CancelRun(h, r)
  \/ \E a \in Agent : StopAgent(h, a)
  \/ \E stale \in SUBSET RunId : ReapTick(h, stale)

LEMMA TicksTake ==
  ASSUME TypeInv, NEW h \in Handler, Ticks(h)
  PROVE  Takes(h) /\ UNCHANGED <<run, created, lock, deferred, start>>
<1>1. job \in [JobId -> Job] /\ h \in JobId
  BY HandlersAreNoRuns DEF TypeInv, TypeOK
<1> QED
  BY <1>1 DEF Ticks, ReceiveWake, CancelRun, StopAgent, ReapTick, Become, rows, Takes, OneCall

LEMMA RestartCalls == ASSUME TypeInv, CallInv, NEW h \in Handler, Restart(h) PROVE CallInv'
<1>1. \A a \in Agent : start'[a] = Free
  BY DEF Restart
<1>2. \A r \in RunId : job'[r] = IdleJob
  BY HandlersAreNoRuns DEF Restart, JobId
<1> QED
  BY <1>1, <1>2 DEF CallInv, HolderWaits, HandledIsIdle, QueuedIsIdle, Handled, Free

LEMMA InitCalls == Init => CallInv
BY DEF Init, CallInv, HolderWaits, HandledIsIdle, QueuedIsIdle, Handled, Free, JobId

LEMMA NextCalls == TypeInv /\ CallInv /\ [Next]_vars => CallInv'
<1> SUFFICES ASSUME TypeInv, CallInv, [Next]_vars PROVE CallInv'
  OBVIOUS
<1>1. ASSUME UNCHANGED <<run, job, start>> PROVE CallInv'
  BY <1>1 DEF CallInv, HolderWaits, HandledIsIdle, QueuedIsIdle, Handled
<1>2. ASSUME NEW j \in JobId, Step(j) PROVE CallInv'
  BY <1>2, StepTakes, StepAdvances, TakesKeepsCalls
<1>3. ASSUME NEW a \in Agent, StartLoop(a) \/ ResumeAgent(a) PROVE CallInv'
  BY <1>1, <1>3, ClaimCalls, LaunchCalls DEF StartLoop, ResumeAgent
<1>4. ASSUME NEW h \in Handler, Arrive(h) PROVE CallInv'
  <2>1. h \in JobId
    BY HandlersAreNoRuns
  <2>2. CASE Ticks(h)
    BY <2>1, <2>2, TicksTake, SameRunsAdvance, TakesKeepsCalls
  <2> QED
    BY <1>4, <2>2, RestartCalls DEF Arrive, Ticks
<1>5. CASE UNCHANGED vars
  BY <1>1, <1>5 DEF vars
<1> QED
  BY <1>2, <1>3, <1>4, <1>5, AcquireCalls DEF Next

-----------------------------------------------------------------------------
(* Deferred wakes: their issue's run is active, or some call will release it *)
(* (a restart forgets that call).                                            *)

ReleasersStay ==
  \A k \in JobId : job[k].pc \in SettledPc => job'[k].pc \in SettledPc /\ job'[k].run = job[k].run

LEMMA TakesReleasersStay ==
  ASSUME NEW j \in JobId, Takes(j), job[j].pc \notin SettledPc PROVE ReleasersStay
BY DEF Takes, OneCall, ReleasersStay

LEMMA DeferredKept ==
  ASSUME TypeInv, NamesInv, DeferredHasOwner, SameActivity, ReleasersStay,
         UNCHANGED <<lock, deferred>>
  PROVE  DeferredHasOwner'
<1> SUFFICES ASSUME NEW s \in Issue, deferred[s] # <<>>
             PROVE  /\ lock[s].run # 0
                    /\ \/ run'[lock[s].run].status \in Active
                       \/ \E j \in JobId : job'[j].run = lock[s].run
                                           /\ job'[j].pc \in {"wakeup", "release"}
  BY DEF DeferredHasOwner, IsActive
<1>1. lock[s].run # 0
  BY DEF DeferredHasOwner
<1>2. CASE IsActive(lock[s].run)
  BY <1>1, <1>2, LockedRun DEF SameActivity
<1>3. CASE \E j \in JobId : job[j].run = lock[s].run /\ job[j].pc \in {"wakeup", "release"}
  BY <1>1, <1>3 DEF ReleasersStay, SettledPc
<1> QED
  BY <1>1, <1>2, <1>3 DEF DeferredHasOwner

(* The call that ends a run is the one that will release its lock.           *)
LEMMA EndDeferred ==
  ASSUME TypeInv, NamesInv, DeferredHasOwner, NEW j \in JobId, SetRunStatus(j)
  PROVE  DeferredHasOwner'
<1> DEFINE q == job[j].run
<1>1. job \in [JobId -> Job] /\ run \in [RunId -> Row] /\ q \in RunId /\ job[j].pc = "settle"
  BY RunHasAgent DEF TypeInv, TypeOK, SetRunStatus, At, RunPc
<1>2. job'[j].pc = "wakeup" /\ job'[j].run = q
  BY <1>1 DEF SetRunStatus, Goto, Job
<1>3. ReleasersStay
  BY <1>1, StepTakes, TakesReleasersStay DEF Step, SettleRun, SettledPc
<1>4. \A r \in RunId : r # q => run'[r] = run[r]
  BY <1>1 DEF SetRunStatus
<1>5. UNCHANGED <<lock, deferred>>
  BY DEF SetRunStatus
<1> HIDE DEF q
<1> SUFFICES ASSUME NEW s \in Issue, deferred[s] # <<>>
             PROVE  /\ lock[s].run # 0
                    /\ \/ run'[lock[s].run].status \in Active
                       \/ \E k \in JobId : job'[k].run = lock[s].run
                                           /\ job'[k].pc \in {"wakeup", "release"}
  BY <1>5 DEF DeferredHasOwner, IsActive
<1>6. lock[s].run # 0 /\ lock[s].run \in RunId
  BY LockedRun DEF DeferredHasOwner
<1>7. CASE lock[s].run = q
  BY <1>2, <1>6, <1>7
<1>8. CASE lock[s].run # q /\ IsActive(lock[s].run)
  BY <1>4, <1>6, <1>8 DEF IsActive
<1>9. CASE \E k \in JobId : job[k].run = lock[s].run /\ job[k].pc \in {"wakeup", "release"}
  BY <1>3, <1>6, <1>9 DEF ReleasersStay, SettledPc
<1> QED
  BY <1>6, <1>7, <1>8, <1>9 DEF DeferredHasOwner

(* The other issues of a step that gives a lock away.                        *)
LEMMA OthersDeferred ==
  ASSUME TypeInv, NamesInv, DeferredHasOwner, SameActivity, NEW j \in JobId, OneCall(j),
         NEW z \in Issue, deferred'[z] = deferred[z], lock'[z] = lock[z], deferred'[z] # <<>>,
         job[j].pc \in SettledPc => lock[z].run # job[j].run
  PROVE  /\ lock'[z].run # 0
         /\ \/ run'[lock'[z].run].status \in Active
            \/ \E k \in JobId : job'[k].run = lock'[z].run /\ job'[k].pc \in {"wakeup", "release"}
<1>1. lock[z].run # 0
  BY DEF DeferredHasOwner
<1>2. CASE IsActive(lock[z].run)
  BY <1>1, <1>2, LockedRun DEF SameActivity
<1>3. CASE \E k \in JobId : job[k].run = lock[z].run /\ job[k].pc \in {"wakeup", "release"}
  <2>1. PICK k \in JobId : job[k].run = lock[z].run /\ job[k].pc \in {"wakeup", "release"}
    BY <1>3
  <2>2. k # j
    BY <2>1 DEF SettledPc
  <2>3. job'[k] = job[k]
    BY <2>2 DEF OneCall
  <2> QED
    BY <1>1, <2>1, <2>3
<1> QED
  BY <1>1, <1>2, <1>3 DEF DeferredHasOwner

LEMMA ReleaseDeferred ==
  ASSUME TypeInv, NamesInv, DeferredHasOwner, NEW j \in JobId, Release(j)
  PROVE  DeferredHasOwner'
<1>1. job[j].run \in RunId /\ job[j].run # 0 /\ OneCall(j)
  BY StepTakes, RunHasAgent, MaxRunsType DEF Release, At, RunPc, Step, SettleRun, RunId, Takes
<1>2. lock \in [Issue -> [run : 0..MaxRuns, name : Agent \union {NoAgent}]]
      /\ deferred \in [Issue -> Seq(Agent)]
  BY DEF TypeInv, TypeOK
<1>3. CASE UNCHANGED <<run, created, lock, deferred>> /\ \A s \in Issue : lock[s].run # job[j].run
  <2>1. SameActivity
    BY <1>3 DEF SameActivity, IsActive
  <2> QED
    BY <1>1, <1>3, <2>1, OthersDeferred DEF DeferredHasOwner, IsActive
<1>4. ASSUME NEW s \in Issue, lock[s].run = job[j].run,
             \A z \in Issue : z # s => lock'[z] = lock[z] /\ deferred'[z] = deferred[z],
             SameActivity,
             \/ deferred'[s] = <<>>
             \/ lock'[s].run # 0 /\ run'[lock'[s].run].status \in Active
      PROVE  DeferredHasOwner'
  <2>1. ASSUME NEW z \in Issue, z # s PROVE lock[z].run # job[j].run
    BY <1>1, <1>4, <2>1, LockedRun
  <2>2. ASSUME NEW z \in Issue, deferred'[z] # <<>>
        PROVE  /\ lock'[z].run # 0
               /\ \/ run'[lock'[z].run].status \in Active
                  \/ \E k \in JobId : job'[k].run = lock'[z].run
                                      /\ job'[k].pc \in {"wakeup", "release"}
    <3>1. CASE z = s
      BY <1>4, <2>2, <3>1
    <3>2. CASE z # s
      BY <1>1, <1>4, <2>1, <2>2, <3>2, OthersDeferred
    <3> QED
      BY <3>1, <3>2
  <2> QED
    BY <2>2 DEF DeferredHasOwner, IsActive
<1>5. ASSUME NEW s \in Issue, lock[s].run = job[j].run, FreeIssue(j, s) PROVE DeferredHasOwner'
  <2>1. SameActivity
    BY <1>5 DEF FreeIssue, SameActivity, IsActive
  <2>2. /\ deferred'[s] = <<>>
        /\ \A z \in Issue : z # s => lock'[z] = lock[z] /\ deferred'[z] = deferred[z]
    BY <1>2, <1>5 DEF FreeIssue
  <2> QED
    BY <1>4, <1>5, <2>1, <2>2
<1>6. ASSUME NEW s \in Issue, lock[s].run = job[j].run, NEW i \in Invokable(s), Promote(j, s, i)
      PROVE  DeferredHasOwner'
  <2>1. deferred[s][i] \in Agent
    BY DEF Invokable, TypeInv, TypeOK
  <2>2. Insert(deferred[s][i], s)
    BY <1>6 DEF Promote
  <2>3. SameActivity
    BY <2>1, <2>2, InsertActivity
  <2>4. /\ lock'[s].run = created + 1
        /\ \A z \in Issue : z # s => lock'[z] = lock[z] /\ deferred'[z] = deferred[z]
    BY <1>2, <1>6 DEF Promote
  <2>5. created + 1 # 0 /\ run'[created + 1].status \in Active
    BY <2>1, <2>2, InsertNames DEF Active
  <2> QED
    BY <1>4, <1>6, <2>3, <2>4, <2>5
<1> QED
  BY <1>3, <1>5, <1>6 DEF Release

LEMMA EnqueueDeferred ==
  ASSUME TypeInv, OwnerInv, NamesInv, DeferredHasOwner, NEW h \in JobId, EnqueueOnIssue(h)
  PROVE  DeferredHasOwner'
<1> DEFINE s == job[h].issue
           a == job[h].agent
<1>1. OneCall(h) /\ job[h].pc = "enqueue" /\ ReleasersStay
  <2>1. job[h].pc = "enqueue" /\ UNCHANGED start
    BY DEF EnqueueOnIssue, At
  <2>2. job \in [JobId -> Job]
    BY DEF TypeInv, TypeOK
  <2>3. OneCall(h)
    BY <2>2 DEF EnqueueOnIssue, Become, OneCall
  <2> QED
    BY <2>1, <2>3 DEF OneCall, ReleasersStay, SettledPc
<1>2. lock \in [Issue -> [run : 0..MaxRuns, name : Agent \union {NoAgent}]]
      /\ deferred \in [Issue -> Seq(Agent)]
  BY DEF TypeInv, TypeOK
<1>3. CASE Coalesce(lock[s].run, a) /\ UNCHANGED <<lock, deferred>>
  BY <1>1, <1>3, UpdateActivity, DeferredKept DEF Coalesce
<1>4. ASSUME NEW x \in Issue, SameActivity,
             \A z \in Issue : z # x => lock'[z] = lock[z] /\ deferred'[z] = deferred[z],
             lock'[x].run # 0, run'[lock'[x].run].status \in Active
      PROVE  DeferredHasOwner'
  <2>1. ASSUME NEW z \in Issue, deferred'[z] # <<>>
        PROVE  /\ lock'[z].run # 0
               /\ \/ run'[lock'[z].run].status \in Active
                  \/ \E k \in JobId : job'[k].run = lock'[z].run
                                      /\ job'[k].pc \in {"wakeup", "release"}
    <3>1. CASE z = x
      BY <1>4, <3>1
    <3>2. CASE z # x
      BY <1>1, <1>4, <2>1, <3>2, OthersDeferred DEF SettledPc
    <3> QED
      BY <3>1, <3>2
  <2> QED
    BY <2>1 DEF DeferredHasOwner, IsActive
<1>5. ASSUME NEW x \in Issue, NEW b, lock[x].run \in RunId, IsActive(lock[x].run),
             UNCHANGED <<run, lock>>,
             deferred' = IF Waiting(x, b) THEN deferred ELSE [deferred EXCEPT ![x] = Append(@, b)]
      PROVE  DeferredHasOwner'
  <2>1. SameActivity
    BY <1>5 DEF SameActivity, IsActive
  <2>2. \A z \in Issue : z # x => deferred'[z] = deferred[z]
    BY <1>2, <1>5
  <2>3. lock'[x].run # 0 /\ run'[lock'[x].run].status \in Active
    BY <1>5, MaxRunsType DEF IsActive, RunId
  <2> QED
    BY <1>4, <1>5, <2>1, <2>2, <2>3
<1>6. ASSUME NEW x \in Issue, NEW b \in Agent, Insert(b, x), deferred' = deferred,
             lock' = [lock EXCEPT ![x] = [run |-> created + 1, name |-> b]]
      PROVE  DeferredHasOwner'
  <2>1. SameActivity
    BY <1>6, InsertActivity
  <2>2. lock'[x].run = created + 1 /\ \A z \in Issue : z # x => lock'[z] = lock[z]
    BY <1>2, <1>6
  <2>3. created + 1 # 0 /\ run'[created + 1].status \in Active
    BY <1>6, InsertNames DEF Active
  <2> QED
    BY <1>4, <1>6, <2>1, <2>2, <2>3
<1> QED
  BY <1>3, <1>5, <1>6, EnqueueEither

LEMMA StepDeferred ==
  ASSUME TypeInv, OwnerInv, NamesInv, DeferredHasOwner, NEW j \in JobId, Step(j)
  PROVE  DeferredHasOwner'
<1>1. CASE Execute(j) \/ ReadAgent(j) \/ WriteAgent(j) \/ Snapshot(j) \/ NextOfSnapshot(j)
  <2>1. UNCHANGED <<run, lock, deferred>> /\ job[j].pc \notin SettledPc
    BY <1>1 DEF Execute, Load, PreparationThrows, MarkAgentRunning, Spawn, AdapterReturns,
       AdapterThrows, RecordCost, ReadAgent, WriteAgent, Snapshot, NextOfSnapshot, rows, At,
       SettledPc
  <2> QED
    BY <2>1, StepTakes, TakesReleasersStay, DeferredKept DEF SameActivity, IsActive
<1>2. CASE SetWakeupStatus(j)
  <2>1. job \in [JobId -> Job] /\ job' = [job EXCEPT ![j].pc = "release"]
    BY <1>2 DEF TypeInv, TypeOK, SetWakeupStatus, Goto
  <2>2. ReleasersStay
    BY <2>1 DEF ReleasersStay, SettledPc, Job
  <2> QED
    BY <1>2, <2>2, UpdateActivity, DeferredKept DEF SetWakeupStatus
<1>3. CASE Scan(j) \/ InsertRun(j)
  <2>1. ReleasersStay /\ UNCHANGED <<lock, deferred>>
    BY <1>3, StepTakes, TakesReleasersStay DEF Scan, InsertRun, At, SettledPc
  <2>2. CASE Scan(j)
    <3>1. run' = run \/ \E r : Coalesce(r, job[j].agent)
      BY <2>2 DEF Scan
    <3>2. SameActivity
      BY <3>1, UpdateActivity DEF Coalesce, SameActivity, IsActive
    <3> QED
      BY <2>1, <3>2, DeferredKept
  <2>3. CASE InsertRun(j)
    <3>1. job[j].agent \in Agent /\ job[j].issue \in Issue \union {NoIssue}
      BY <2>3, JobHas DEF InsertRun, At, JobFits, Job
    <3> QED
      BY <2>1, <2>3, <3>1, InsertActivity, DeferredKept DEF InsertRun
  <2> QED
    BY <1>3, <2>2, <2>3
<1> QED
  BY <1>1, <1>2, <1>3, EndDeferred, ReleaseDeferred, EnqueueDeferred DEF Step, SettleRun, Serve

LEMMA LoopDeferred ==
  ASSUME TypeInv, NamesInv, CallInv, DeferredHasOwner, NEW a \in Agent, StartLoop(a)
  PROVE  DeferredHasOwner'
<1>1. CASE Claim(a) \/ MarkClaimed(a)
  <2>1. ReleasersStay /\ UNCHANGED <<lock, deferred>>
    BY <1>1 DEF Claim, MarkClaimed, ReleasersStay
  <2> QED
    BY <1>1, <2>1, ClaimActivity, DeferredKept
<1>2. CASE Launch(a)
  <2>1. ASSUME NEW k \in JobId, job[k].pc \in SettledPc PROVE job'[k] = job[k]
    <3>1. k # start[a].by
      BY <1>2, <2>1 DEF Launch, CallInv, HolderWaits, SettledPc
    <3>2. k \notin start[a].started
      BY <2>1 DEF CallInv, HandledIsIdle, Handled, IdleJob, SettledPc
    <3> QED
      BY <1>2, <3>1, <3>2 DEF Launch
  <2>2. ReleasersStay /\ SameActivity /\ UNCHANGED <<lock, deferred>>
    BY <1>2, <2>1 DEF Launch, ReleasersStay, SameActivity, IsActive, rows
  <2> QED
    BY <2>2, DeferredKept
<1> QED
  BY <1>1, <1>2 DEF StartLoop

LEMMA NextDeferred ==
  ASSUME MaxCrashes = 0
  PROVE  TypeInv /\ OwnerInv /\ NamesInv /\ CallInv /\ DeferredHasOwner /\ [Next]_vars
           => DeferredHasOwner'
<1> SUFFICES ASSUME TypeInv, OwnerInv, NamesInv, CallInv, DeferredHasOwner, [Next]_vars
             PROVE  DeferredHasOwner'
  OBVIOUS
<1>1. ASSUME NEW j \in JobId, Takes(j), job[j].pc \notin SettledPc,
             UNCHANGED <<run, lock, deferred>>
      PROVE  DeferredHasOwner'
  BY <1>1, TakesReleasersStay, DeferredKept DEF SameActivity, IsActive
<1>2. ASSUME NEW j \in JobId, Acquire(j) PROVE DeferredHasOwner'
  <2>1. UNCHANGED <<run, lock, deferred>> /\ job[j].pc \notin SettledPc
    BY <1>2 DEF Acquire, rows, At, SettledPc
  <2> QED
    BY <1>1, <1>2, <2>1, AcquireTakes
<1>3. ASSUME NEW h \in Handler, Arrive(h) PROVE DeferredHasOwner'
  <2>1. h \in JobId /\ ~Restart(h)
    BY HandlersAreNoRuns DEF Restart, TypeInv, TypeOK
  <2>2. Ticks(h)
    BY <1>3, <2>1 DEF Arrive, Ticks
  <2>3. job[h].pc \notin SettledPc
    <3>1. job[h] = IdleJob
      BY <2>2 DEF Ticks, ReceiveWake, CancelRun, StopAgent, ReapTick
    <3> QED
      BY <3>1 DEF IdleJob, SettledPc
  <2> QED
    BY <1>1, <2>1, <2>2, <2>3, TicksTake
<1>4. ASSUME UNCHANGED <<run, lock, deferred, job>> PROVE DeferredHasOwner'
  BY <1>4, DeferredKept DEF SameActivity, IsActive, ReleasersStay
<1>5. ASSUME NEW a \in Agent, ResumeAgent(a) PROVE DeferredHasOwner'
  BY <1>4, <1>5 DEF ResumeAgent
<1>6. CASE UNCHANGED vars
  BY <1>4, <1>6 DEF vars
<1> QED
  BY <1>2, <1>3, <1>5, <1>6, StepDeferred, LoopDeferred DEF Next

LEMMA InitDeferred == Init => DeferredHasOwner
BY DEF Init, DeferredHasOwner

(* Where nobody is mentioned and the server stays up, a deferred wake is     *)
(* never stranded: its issue's run is active, or a call will release it.     *)
THEOREM DeferredAreOwned ==
  ASSUME "mention" \notin Kinds, MaxCrashes = 0 PROVE Spec => []DeferredHasOwner
BY InitTypes, NextTypes, InitOwner, NextOwner, InitNames, NextNames, InitCalls, NextCalls,
   InitDeferred, NextDeferred, PTL DEF Spec

-----------------------------------------------------------------------------
(* Executions that nobody disturbs: no board command stops a run or an       *)
(* agent, the server stays up, and no live run leaves its row untouched.     *)

Undisturbed == Commands \subseteq {"resume"} /\ MaxCrashes = 0 /\ ~SlowRuns

ExecPc == {"load", "mark", "spawn", "adapter"}

(* A run that nobody executes and nobody will execute.                       *)
Dead(r) ==
  /\ run[r].status \notin {"absent", "queued"}
  /\ job[r] = IdleJob
  /\ \A a \in Agent : r \notin Handled(a)

(* Executions are about running rows of their own, the reaper about dead ones. *)
CallGoes(j) ==
  /\ job[j].op = "idle" => job[j] = IdleJob
  /\ job[j].op \notin {"cancel", "stop"} /\ job[j].pc # "snapshot"
  /\ job[j].pc \in ExecPc => job[j].op = "exec"
  /\ job[j].pc = "settle" => job[j].op \in {"exec", "reap"}
  /\ job[j].pc = "next" \/ job[j].then = "next" => job[j].op = "reap"
  /\ job[j].op = "exec" /\ job[j].pc \in ExecPc \union {"settle"}
       => j \in RunId /\ job[j].run = j /\ run[j].status = "running"
  /\ job[j].op = "reap" =>
       /\ job[j].pc = "settle" => Dead(job[j].run)
       /\ \A r \in job[j].rest : Dead(r)

HandledAreRunning == \A a \in Agent : \A r \in Handled(a) : run[r].status = "running"

ExecInv == HandledAreRunning /\ \A j \in JobId : CallGoes(j)

(* No row starts or ends, and no wakeup request is written.                  *)
Steady ==
  \A r \in RunId : IF run[r].status = "absent" THEN run'[r].status \in {"absent", "queued"}
                   ELSE run'[r].status = run[r].status /\ run'[r].wake = run[r].wake

LEMMA SameRunsSteady == UNCHANGED run => Steady
BY DEF Steady

LEMMA CoalesceSteady == ASSUME TypeInv, NEW q, NEW a, Coalesce(q, a) PROVE Steady
<1>1. ASSUME NEW r \in RunId
      PROVE  run'[r].status = run[r].status /\ run'[r].wake = run[r].wake
  <2>1. run[r] \in Row /\ run \in [RunId -> Row]
    BY DEF TypeInv, TypeOK
  <2>2. CASE r # q
    BY <2>1, <2>2 DEF Coalesce
  <2>3. CASE r = q
    <3>1. run'[r] = [run[r] EXCEPT !.answers = @ \union {a}]
      BY <2>1, <2>3 DEF Coalesce
    <3> QED
      BY <2>1, <3>1 DEF Row
  <2> QED
    BY <2>2, <2>3
<1> QED
  BY <1>1 DEF Steady

LEMMA InsertSteady ==
  ASSUME TypeInv, NEW a \in Agent, NEW s \in Issue \union {NoIssue}, Insert(a, s) PROVE Steady
<1>1. created + 1 \in RunId /\ created \in Nat /\ run \in [RunId -> Row] /\ RowsFilled
  BY InsertTypes, MaxRunsType DEF TypeInv, TypeOK
<1>2. run[created + 1].status = "absent"
  BY <1>1 DEF RowsFilled, NoRun
<1> DEFINE row == [agent |-> a, issue |-> s, status |-> "queued", wake |-> "queued",
                   answers |-> {a}]
<1>3. run' = [run EXCEPT ![created + 1] = row] /\ row.status = "queued"
  BY DEF Insert
<1> HIDE DEF row
<1>4. run'[created + 1].status = "queued" /\ \A r \in RunId : r # created + 1 => run'[r] = run[r]
  BY <1>1, <1>3
<1> QED
  BY <1>2, <1>4 DEF Steady

LEMMA ReleaseSteady == ASSUME TypeInv, NEW j \in JobId, Release(j) PROVE Steady
<1>1. ASSUME NEW s \in Issue, NEW i \in Invokable(s), Promote(j, s, i) PROVE Steady
  <2>1. deferred[s][i] \in Agent
    BY DEF Invokable, TypeInv, TypeOK
  <2> QED
    BY <1>1, <2>1, InsertSteady DEF Promote
<1> QED
  BY <1>1, SameRunsSteady DEF Release, FreeIssue

LEMMA ServeSteady == ASSUME TypeInv, NEW h \in JobId, Serve(h) PROVE Steady
<1>1. CASE EnqueueOnIssue(h)
  <2>1. job[h].agent \in Agent /\ job[h].issue \in Issue
    BY <1>1, JobHas DEF EnqueueOnIssue, At, JobFits
  <2>2. \/ run' = run \/ Insert(job[h].agent, job[h].issue)
        \/ \E r : Coalesce(r, job[h].agent)
    BY <1>1 DEF EnqueueOnIssue
  <2> QED
    BY <2>1, <2>2, SameRunsSteady, InsertSteady, CoalesceSteady
<1>2. CASE Scan(h)
  <2>1. run' = run \/ \E r : Coalesce(r, job[h].agent)
    BY <1>2 DEF Scan
  <2> QED
    BY <2>1, SameRunsSteady, CoalesceSteady
<1>3. CASE InsertRun(h)
  <2>1. job[h].agent \in Agent /\ job[h].issue \in Issue \union {NoIssue}
    BY <1>3, JobHas DEF InsertRun, At, JobFits, Job
  <2> QED
    BY <1>3, <2>1, InsertSteady DEF InsertRun
<1> QED
  BY <1>1, <1>2, <1>3, SameRunsSteady DEF Serve, Snapshot, NextOfSnapshot, rows

LEMMA StepSteady ==
  ASSUME TypeInv, NEW j \in JobId, Step(j), ~SetRunStatus(j), ~SetWakeupStatus(j) PROVE Steady
<1>1. CASE Execute(j) \/ ReadAgent(j) \/ WriteAgent(j)
  BY <1>1, SameRunsSteady
  DEF Execute, Load, PreparationThrows, MarkAgentRunning, Spawn, AdapterReturns, AdapterThrows,
      RecordCost, ReadAgent, WriteAgent, rows
<1> QED
  BY <1>1, ReleaseSteady, ServeSteady DEF Step, SettleRun

(* A status or a wakeup request is written in one row.                       *)
LEMMA StatusWritten ==
  ASSUME TypeInv, NEW j \in JobId, SetRunStatus(j)
  PROVE  /\ job[j].run \in RunId /\ job[j].value \in Terminal
         /\ run'[job[j].run].status = job[j].value
         /\ \A r \in RunId : r # job[j].run => run'[r] = run[r]
         /\ job'[j].pc = "wakeup" /\ job'[j].run = job[j].run /\ job'[j].op = job[j].op
         /\ job'[j].rest = job[j].rest /\ job'[j].then = job[j].then
<1>1. job[j].pc = "settle" /\ job[j] \in Job /\ job \in [JobId -> Job] /\ run \in [RunId -> Row]
  BY DEF TypeInv, TypeOK, SetRunStatus, At
<1>2. job[j].run \in RunId /\ job[j].value \in Terminal
  BY <1>1, JobHas, RunHasAgent DEF JobFits, RunPc
<1>3. run'[job[j].run] = [run[job[j].run] EXCEPT !.status = job[j].value]
  BY <1>1, <1>2 DEF SetRunStatus
<1>4. run'[job[j].run].status = job[j].value
  BY <1>1, <1>2, <1>3 DEF Row
<1>5. \A r \in RunId : r # job[j].run => run'[r] = run[r]
  BY <1>1 DEF SetRunStatus
<1>6. job'[j] = [job[j] EXCEPT !.pc = "wakeup"]
  BY <1>1 DEF SetRunStatus, Goto
<1> QED
  BY <1>1, <1>2, <1>4, <1>5, <1>6 DEF Job

LEMMA WakeupWritten ==
  ASSUME TypeInv, NEW j \in JobId, SetWakeupStatus(j)
  PROVE  /\ job[j].run \in RunId /\ job[j].value \in Terminal
         /\ run'[job[j].run].wake = job[j].value
         /\ \A r \in RunId : run'[r].status = run[r].status
         /\ \A r \in RunId : r # job[j].run => run'[r] = run[r]
         /\ job'[j].pc = "release" /\ job'[j].op = job[j].op
         /\ job'[j].rest = job[j].rest /\ job'[j].then = job[j].then
<1>1. job[j].pc = "wakeup" /\ job[j] \in Job /\ job \in [JobId -> Job] /\ run \in [RunId -> Row]
  BY DEF TypeInv, TypeOK, SetWakeupStatus, At
<1>2. job[j].run \in RunId /\ job[j].value \in Terminal
  BY <1>1, JobHas, RunHasAgent DEF JobFits, RunPc
<1>3. run'[job[j].run] = [run[job[j].run] EXCEPT !.wake = job[j].value]
  BY <1>1, <1>2 DEF SetWakeupStatus
<1>4. /\ run'[job[j].run].wake = job[j].value
      /\ run'[job[j].run].status = run[job[j].run].status
  BY <1>1, <1>2, <1>3 DEF Row
<1>5. \A r \in RunId : r # job[j].run => run'[r] = run[r]
  BY <1>1 DEF SetWakeupStatus
<1>6. job'[j] = [job[j] EXCEPT !.pc = "release"]
  BY <1>1 DEF SetWakeupStatus, Goto
<1>7. \A r \in RunId : run'[r].status = run[r].status
  BY <1>4, <1>5
<1> QED
  BY <1>1, <1>2, <1>4, <1>5, <1>6, <1>7 DEF Job

LEMMA DeadStays ==
  ASSUME TypeInv, RunsAdvance, UNCHANGED start, NEW j \in JobId, Takes(j), NEW r \in RunId, Dead(r)
  PROVE  Dead(r)' /\ r # j
<1>1. r # j
  BY HandlersAreNoRuns DEF Takes, Dead, IdleJob
<1>2. job'[r] = IdleJob
  BY <1>1 DEF Takes, OneCall, Dead, JobId
<1> QED
  BY <1>1, <1>2 DEF Dead, RunsAdvance, Handled

RunningStays == \A r \in RunId : run[r].status = "running" => run'[r].status = "running"

LEMMA SteadyRunning == Steady => RunningStays
BY DEF Steady, RunningStays

LEMMA OthersGo ==
  ASSUME TypeInv, ExecInv, RunsAdvance, UNCHANGED start, NEW j \in JobId, Takes(j),
         NEW k \in JobId, k # j,
         job[k].op = "exec" /\ job[k].pc \in ExecPc \union {"settle"} => run'[k].status = "running"
  PROVE  CallGoes(k)'
<1>1. job'[k] = job[k] /\ CallGoes(k) /\ job[k] \in Job
  BY JobHas DEF Takes, OneCall, ExecInv
<1>2. job[k].pc = "settle" => job[k].run \in RunId
  BY RunHasAgent DEF RunPc
<1>3. job[k].rest \subseteq RunId
  BY <1>1 DEF Job
<1>4. job[k].op = "reap" => /\ job[k].pc = "settle" => Dead(job[k].run)'
                            /\ \A r \in job[k].rest : Dead(r)'
  BY <1>1, <1>2, <1>3, DeadStays DEF CallGoes
<1>5. job[k].op = "exec" /\ job[k].pc \in ExecPc \union {"settle"}
        => k \in RunId /\ job[k].run = k /\ run'[k].status = "running"
  BY <1>1 DEF CallGoes
<1> HIDE DEF Dead
<1> QED
  BY <1>1, <1>4, <1>5 DEF CallGoes

LEMMA ExecKept ==
  ASSUME TypeInv, ExecInv, RunsAdvance, RunningStays, UNCHANGED start, NEW j \in JobId, Takes(j),
         CallGoes(j)'
  PROVE  ExecInv'
<1>1. ASSUME NEW k \in JobId, k # j PROVE CallGoes(k)'
  <2>1. job[k].op = "exec" /\ job[k].pc \in ExecPc \union {"settle"} => run'[k].status = "running"
    BY DEF ExecInv, CallGoes, RunningStays
  <2> QED
    BY <1>1, <2>1, OthersGo
<1>2. HandledAreRunning'
  BY HandledRuns DEF ExecInv, HandledAreRunning, RunningStays, Handled
<1> QED
  BY <1>1, <1>2 DEF ExecInv

(* A call that neither executes nor settles a run next.                      *)
LEMMA GoesQuietly ==
  ASSUME TypeInv, ExecInv, RunsAdvance, UNCHANGED start, NEW j \in JobId, Takes(j),
         \/ job'[j] = IdleJob \/ job'[j].op = "wake"
         \/ job[j].pc # "idle" /\ job'[j].op = job[j].op /\ job'[j].rest = job[j].rest,
         job'[j].pc \notin ExecPc \union {"settle", "snapshot"},
         job'[j].pc = "next" \/ job'[j].then = "next" => job'[j].op = "reap"
  PROVE  CallGoes(j)'
<1>1. CallGoes(j) /\ job[j] \in Job
  BY JobHas DEF ExecInv
<1>2. job[j].rest \subseteq RunId
  BY <1>1 DEF Job
<1>3. job[j].op = "reap" => \A r \in job[j].rest : Dead(r)'
  BY <1>1, <1>2, DeadStays DEF CallGoes
<1>4. job'[j].op = "reap" => job'[j].op = job[j].op /\ job'[j].rest = job[j].rest
  BY DEF IdleJob
<1>5. job'[j].op \notin {"cancel", "stop"} /\ (job'[j].op = "idle" => job'[j] = IdleJob)
  BY <1>1 DEF CallGoes, IdleJob
<1> QED
  BY <1>3, <1>4, <1>5 DEF CallGoes

LEMMA ExecuteGoes ==
  ASSUME TypeInv, ExecInv, NEW j \in JobId, Execute(j) PROVE CallGoes(j)'
<1>1. job \in [JobId -> Job] /\ job[j] \in Job /\ CallGoes(j) /\ UNCHANGED <<run, start>>
  BY DEF TypeInv, TypeOK, ExecInv, Execute, Load, PreparationThrows, MarkAgentRunning, Spawn,
     AdapterReturns, AdapterThrows, RecordCost, rows
<1>2. Takes(j) /\ RunsAdvance
  BY StepTakes, StepAdvances DEF Step
<1>3. job'[j] = IdleJob => CallGoes(j)'
  BY DEF CallGoes, IdleJob, ExecPc
<1>4. ASSUME NEW pc \in ExecPc, job[j].pc \in ExecPc, job' = [job EXCEPT ![j].pc = pc]
      PROVE  CallGoes(j)'
  <2>1. job'[j] = [job[j] EXCEPT !.pc = pc]
    BY <1>1, <1>4
  <2>2. /\ job'[j].pc = pc /\ job'[j].op = job[j].op /\ job'[j].run = job[j].run
        /\ job'[j].then = job[j].then
    BY <1>1, <2>1 DEF Job
  <2>3. job[j].op = "exec" /\ job[j].then = "idle"
    BY <1>1, <1>4, JobHas DEF CallGoes, JobFits, ExecPc
  <2> QED
    BY <1>1, <1>4, <2>2, <2>3 DEF CallGoes, ExecPc
<1>5. ASSUME NEW value, job[j].pc = "adapter",
             job' = [job EXCEPT ![j].pc = "settle", ![j].value = value]
      PROVE  CallGoes(j)'
  <2>1. job'[j] = [job[j] EXCEPT !.pc = "settle", !.value = value]
    BY <1>1, <1>5
  <2>2. /\ job'[j].pc = "settle" /\ job'[j].op = job[j].op /\ job'[j].run = job[j].run
        /\ job'[j].then = job[j].then
    BY <1>1, <2>1 DEF Job
  <2>3. job[j].op = "exec" /\ job[j].then = "idle"
    BY <1>1, <1>5, JobHas DEF CallGoes, JobFits, ExecPc
  <2> QED
    BY <1>1, <1>5, <2>2, <2>3 DEF CallGoes, ExecPc
<1>6. CASE job[j].pc = "cost" /\ job' = [job EXCEPT ![j].pc = "agent"]
  <2>1. job'[j] = [job[j] EXCEPT !.pc = "agent"]
    BY <1>1, <1>6
  <2>2. /\ job'[j].pc = "agent" /\ job'[j].op = job[j].op /\ job'[j].rest = job[j].rest
        /\ job'[j].then = job[j].then
    BY <1>1, <2>1 DEF Job
  <2>3. job[j].then = "idle"
    BY <1>6, JobHas DEF JobFits
  <2> QED
    BY <1>1, <1>2, <1>6, <2>2, <2>3, GoesQuietly DEF ExecPc
<1>7. Load(j) \/ PreparationThrows(j) => CallGoes(j)'
  <2>1. ASSUME Become(j, IdleJob) PROVE CallGoes(j)'
    BY <1>1, <1>3, <2>1 DEF Become
  <2> QED
    BY <1>4, <2>1 DEF Load, PreparationThrows, Goto, At, ExecPc
<1>8. MarkAgentRunning(j) \/ Spawn(j) => CallGoes(j)'
  BY <1>4 DEF MarkAgentRunning, Spawn, Goto, At, ExecPc
<1>9. AdapterReturns(j) \/ AdapterThrows(j) => CallGoes(j)'
  BY <1>5 DEF AdapterReturns, AdapterThrows, Settle, At
<1>10. RecordCost(j) => CallGoes(j)'
  BY <1>6 DEF RecordCost, Goto, At
<1> QED
  BY <1>7, <1>8, <1>9, <1>10 DEF Execute

LEMMA ReleaseGoes ==
  ASSUME TypeInv, ExecInv, NEW j \in JobId, Release(j) PROVE CallGoes(j)'
<1>1. /\ job \in [JobId -> Job] /\ job[j] \in Job /\ CallGoes(j) /\ start' = start
      /\ job[j].then = "idle" /\ job[j].pc # "idle"
  BY JobHas DEF TypeInv, TypeOK, ExecInv, Release, At, JobFits
<1>2. Takes(j) /\ RunsAdvance
  BY StepTakes, StepAdvances DEF Step, SettleRun
<1>3. AfterRelease(j) \in {"cost", "agent"}
  BY <1>1 DEF AfterRelease, CallGoes
<1>4. /\ job'[j].op = job[j].op /\ job'[j].rest = job[j].rest
      /\ job'[j].pc \in {"cost", "agent", "start"} /\ job'[j].then \in {"idle", "cost", "agent"}
  <2>1. CASE Goto(j, AfterRelease(j))
    <3>1. job'[j] = [job[j] EXCEPT !.pc = AfterRelease(j)]
      BY <1>1, <2>1 DEF Goto
    <3> QED
      BY <1>1, <1>3, <3>1 DEF Job
  <2>2. ASSUME NEW a, CallStart(j, a, AfterRelease(j))
        PROVE  /\ job'[j].op = job[j].op /\ job'[j].rest = job[j].rest
               /\ job'[j].pc = "start" /\ job'[j].then = AfterRelease(j)
    <3>1. job'[j] = [job[j] EXCEPT !.pc = "start", !.agent = a, !.then = AfterRelease(j)]
      BY <1>1, <2>2 DEF CallStart
    <3> QED
      BY <1>1, <3>1 DEF Job
  <2> QED
    BY <1>3, <2>1, <2>2 DEF Release, FreeIssue, Promote
<1> QED
  BY <1>1, <1>2, <1>4, GoesQuietly DEF ExecPc

LEMMA FinalizeGoes ==
  ASSUME TypeInv, ExecInv, NEW j \in JobId, ReadAgent(j) \/ WriteAgent(j) PROVE CallGoes(j)'
<1>1. /\ job \in [JobId -> Job] /\ job[j] \in Job /\ CallGoes(j) /\ UNCHANGED start
      /\ job[j].then = "idle" /\ job[j].pc # "idle"
  BY JobHas DEF TypeInv, TypeOK, ExecInv, ReadAgent, WriteAgent, At, JobFits
<1>2. Takes(j) /\ RunsAdvance
  BY StepTakes, StepAdvances DEF Step, SettleRun
<1>3. /\ job'[j].op = job[j].op /\ job'[j].rest = job[j].rest
      /\ job'[j].pc \in {"start", "agentWrite"}
      /\ job'[j].then = "idle" \/ job[j].op = "reap"
  <2>1. ASSUME NEW a, job' = [job EXCEPT ![j] = Settled(j, a)]
        PROVE  /\ job'[j].op = job[j].op /\ job'[j].rest = job[j].rest /\ job'[j].pc = "start"
               /\ job'[j].then = "idle" \/ job[j].op = "reap"
    <3>1. job'[j] = Settled(j, a)
      BY <1>1, <2>1
    <3> QED
      BY <1>1, <3>1 DEF Settled, Job
  <2>2. ASSUME NEW value, job' = [job EXCEPT ![j].pc = "agentWrite", ![j].value = value]
        PROVE  /\ job'[j].op = job[j].op /\ job'[j].rest = job[j].rest
               /\ job'[j].pc = "agentWrite" /\ job'[j].then = "idle"
    <3>1. job'[j] = [job[j] EXCEPT !.pc = "agentWrite", !.value = value]
      BY <1>1, <2>2
    <3> QED
      BY <1>1, <3>1 DEF Job
  <2> QED
    BY <2>1, <2>2 DEF ReadAgent, WriteAgent
<1> QED
  BY <1>1, <1>2, <1>3, GoesQuietly DEF ExecPc

LEMMA ServeGoes == ASSUME TypeInv, ExecInv, NEW h \in JobId, Serve(h) PROVE CallGoes(h)'
<1>1. job \in [JobId -> Job] /\ job[h] \in Job /\ CallGoes(h) /\ start' = start
  BY DEF TypeInv, TypeOK, ExecInv, Serve, EnqueueOnIssue, Scan, InsertRun, Snapshot,
     NextOfSnapshot
<1>2. Takes(h) /\ RunsAdvance
  <2>1. Takes(h)
    BY <1>1 DEF Serve, EnqueueOnIssue, Scan, InsertRun, Snapshot, NextOfSnapshot, Goto, Become,
       At, Takes, OneCall
  <2> QED
    BY <2>1, ServeAdvances
<1>3. ASSUME Become(h, IdleJob) PROVE CallGoes(h)'
  <2>1. job'[h] = IdleJob
    BY <1>1, <1>3 DEF Become
  <2> QED
    BY <2>1 DEF CallGoes, IdleJob, ExecPc
<1>4. ASSUME NEW a, Become(h, [IdleJob EXCEPT !.op = "wake", !.pc = "start", !.agent = a])
      PROVE  CallGoes(h)'
  <2>1. job'[h] = [IdleJob EXCEPT !.op = "wake", !.pc = "start", !.agent = a]
    BY <1>1, <1>4 DEF Become
  <2>2. job'[h].op = "wake" /\ job'[h].pc = "start" /\ job'[h].then = "idle"
    BY <2>1 DEF IdleJob
  <2> QED
    BY <2>2 DEF CallGoes, ExecPc
<1>5. CASE Scan(h) /\ Goto(h, "insert")
  <2>1. job'[h] = [job[h] EXCEPT !.pc = "insert"] /\ job[h].then = "idle" /\ job[h].pc # "idle"
    BY <1>1, <1>5, JobHas DEF Goto, Scan, At, JobFits
  <2>2. /\ job'[h].pc = "insert" /\ job'[h].op = job[h].op /\ job'[h].rest = job[h].rest
        /\ job'[h].then = "idle"
    BY <1>1, <2>1 DEF Job
  <2> QED
    BY <1>1, <1>2, <2>1, <2>2, GoesQuietly DEF ExecPc
<1>6. ASSUME NEW r \in job[h].rest, NextOfSnapshot(h),
             job' = [job EXCEPT ![h].rest = @ \ {r},
                                ![h].run = IF PassOver(h, r) THEN 0 ELSE r,
                                ![h].pc = IF PassOver(h, r) THEN "next" ELSE "settle"]
      PROVE  CallGoes(h)'
  <2>1. job[h].op = "reap" /\ job[h].then = "idle"
    BY <1>1, <1>6, JobHas DEF NextOfSnapshot, At, CallGoes, JobFits
  <2>2. job'[h] = [job[h] EXCEPT !.rest = @ \ {r},
                                 !.run = IF PassOver(h, r) THEN 0 ELSE r,
                                 !.pc = IF PassOver(h, r) THEN "next" ELSE "settle"]
    BY <1>1, <1>6
  <2>3. /\ job'[h].op = "reap" /\ job'[h].then = "idle" /\ job'[h].pc \in {"next", "settle"}
        /\ job'[h].pc = "settle" => job'[h].run = r
        /\ job'[h].rest \subseteq job[h].rest
    BY <1>1, <2>1, <2>2 DEF Job
  <2>4. \A q \in job[h].rest : Dead(q)'
    <3>1. job[h].rest \subseteq RunId
      BY <1>1 DEF Job
    <3> QED
      BY <1>1, <1>2, <2>1, <3>1, DeadStays DEF CallGoes
  <2>5. job'[h].pc = "settle" =>
          /\ run'[job'[h].run].status \notin {"absent", "queued"}
          /\ job'[job'[h].run] = IdleJob
          /\ \A a \in Agent : job'[h].run \notin Handled(a)'
    BY <2>3, <2>4 DEF Dead
  <2>6. \A q \in job'[h].rest : Dead(q)'
    BY <2>3, <2>4
  <2>7. (job[h].pc = "settle" => Dead(job[h].run))'
    BY <2>5 DEF Dead
  <2>8. CallGoes(h)' <=>
          /\ job'[h].op = "idle" => job'[h] = IdleJob
          /\ job'[h].op \notin {"cancel", "stop"} /\ job'[h].pc # "snapshot"
          /\ job'[h].pc \in ExecPc => job'[h].op = "exec"
          /\ job'[h].pc = "settle" => job'[h].op \in {"exec", "reap"}
          /\ job'[h].pc = "next" \/ job'[h].then = "next" => job'[h].op = "reap"
          /\ job'[h].op = "exec" /\ job'[h].pc \in ExecPc \union {"settle"}
               => h \in RunId /\ job'[h].run = h /\ run'[h].status = "running"
          /\ job'[h].op = "reap" => /\ (job[h].pc = "settle" => Dead(job[h].run))'
                                   /\ \A q \in job'[h].rest : Dead(q)'
    BY DEF CallGoes
  <2> QED
    BY <2>3, <2>6, <2>7, <2>8 DEF ExecPc
<1>7. ~Snapshot(h)
  BY <1>1 DEF Snapshot, At, CallGoes
<1>8. CASE EnqueueOnIssue(h)
  BY <1>3, <1>4, <1>8 DEF EnqueueOnIssue
<1>9. CASE Scan(h)
  BY <1>3, <1>5, <1>9 DEF Scan
<1>10. CASE InsertRun(h)
  BY <1>4, <1>10 DEF InsertRun
<1>11. CASE NextOfSnapshot(h)
  BY <1>3, <1>6, <1>11 DEF NextOfSnapshot
<1> QED
  BY <1>7, <1>8, <1>9, <1>10, <1>11 DEF Serve

(* The status is written: an execution ends its own run, the reaper a dead   *)
(* one, so no other call and no start lock is about it.                      *)
LEMMA EndExec ==
  ASSUME TypeInv, CallInv, ExecInv, NEW j \in JobId, SetRunStatus(j) PROVE ExecInv'
<1> DEFINE q == job[j].run
<1>1. /\ q \in RunId /\ run'[q].status = job[j].value
      /\ \A r \in RunId : r # q => run'[r] = run[r]
      /\ job'[j].pc = "wakeup" /\ job'[j].op = job[j].op
      /\ job'[j].rest = job[j].rest /\ job'[j].then = job[j].then
  BY StatusWritten
<1>2. Takes(j) /\ RunsAdvance /\ UNCHANGED start
  BY StepTakes, StepAdvances DEF Step, SettleRun
<1>3. job[j].pc = "settle" /\ CallGoes(j) /\ job[j].then = "idle"
  BY JobHas DEF SetRunStatus, At, ExecInv, JobFits
<1>4. \/ q = j /\ job[j].op = "exec"
      \/ Dead(q)
  BY <1>3 DEF CallGoes
<1>5. ASSUME NEW r \in RunId, job[r] = IdleJob, ~Dead(q) PROVE r # q
  BY <1>3, <1>4, <1>5 DEF IdleJob
<1>6. CallGoes(j)'
  BY <1>1, <1>2, <1>3, GoesQuietly DEF ExecPc
<1>7. ASSUME NEW k \in JobId, k # j PROVE CallGoes(k)'
  <2>1. ASSUME job[k].op = "exec", job[k].pc \in ExecPc \union {"settle"}
        PROVE  run'[k].status = "running"
    <3>1. k \in RunId /\ run[k].status = "running"
      BY <2>1 DEF ExecInv, CallGoes
    <3>2. k # q
      BY <1>4, <1>7, <2>1 DEF Dead, IdleJob
    <3> QED
      BY <1>1, <3>1, <3>2
  <2> QED
    BY <1>2, <1>7, <2>1, OthersGo
<1>8. ASSUME NEW a \in Agent, NEW r \in Handled(a) PROVE run'[r].status = "running"
  <2>1. r \in RunId /\ job[r] = IdleJob /\ run[r].status = "running"
    BY HandledRuns DEF CallInv, HandledIsIdle, ExecInv, HandledAreRunning
  <2>2. r # q
    BY <1>5, <2>1 DEF Dead
  <2> QED
    BY <1>1, <2>1, <2>2
<1> QED
  BY <1>2, <1>6, <1>7, <1>8 DEF ExecInv, HandledAreRunning, Handled

LEMMA WakeupExec ==
  ASSUME TypeInv, CallInv, ExecInv, NEW j \in JobId, SetWakeupStatus(j) PROVE ExecInv'
<1>1. Takes(j) /\ RunsAdvance /\ UNCHANGED start
  BY StepTakes, StepAdvances DEF Step, SettleRun
<1>2. RunningStays /\ job[j].then = "idle" /\ job[j].pc # "idle"
  BY WakeupWritten, JobHas DEF RunningStays, SetWakeupStatus, At, JobFits
<1>3. CallGoes(j)'
  BY <1>1, <1>2, WakeupWritten, GoesQuietly DEF ExecPc
<1> QED
  BY <1>1, <1>2, <1>3, ExecKept

LEMMA StepExec ==
  ASSUME TypeInv, CallInv, ExecInv, NEW j \in JobId, Step(j) PROVE ExecInv'
<1>1. CASE SetRunStatus(j) \/ SetWakeupStatus(j)
  BY <1>1, EndExec, WakeupExec
<1>2. CASE ~SetRunStatus(j) /\ ~SetWakeupStatus(j)
  <2>1. Takes(j) /\ RunsAdvance /\ UNCHANGED start /\ RunningStays
    BY <1>2, StepTakes, StepAdvances, StepSteady, SteadyRunning
  <2>2. CallGoes(j)'
    BY <1>2, ExecuteGoes, ReleaseGoes, FinalizeGoes, ServeGoes DEF Step, SettleRun
  <2> QED
    BY <2>1, <2>2, ExecKept
<1> QED
  BY <1>1, <1>2

LEMMA ReturnedGoes ==
  ASSUME TypeInv, ExecInv, NEW j \in JobId
  PROVE  \/ Returned(j) = IdleJob
         \/ /\ Returned(j).op = job[j].op /\ Returned(j).rest = job[j].rest
            /\ Returned(j).pc \in {"cost", "agent", "next"} /\ Returned(j).then = "idle"
            /\ Returned(j).pc = "next" => job[j].op = "reap"
BY JobHas DEF Returned, Job, ExecInv, CallGoes

LEMMA AcquireExec ==
  ASSUME TypeInv, CallInv, ExecInv, NEW j \in JobId, Acquire(j) PROVE ExecInv'
<1> DEFINE a == job[j].agent
<1>1. /\ Takes(j) /\ run' = run /\ job \in [JobId -> Job] /\ job[j] \in Job /\ a \in Agent
      /\ start \in [Agent -> StartLock] /\ job[j].pc = "start" /\ CallGoes(j)
  BY AcquireTakes, JobHas DEF TypeInv, TypeOK, Acquire, At, JobFits, ExecInv
<1>2. RunsAdvance /\ RunningStays
  BY <1>1, SameRunsAdvance DEF RunningStays
<1>3. CASE Become(j, Returned(j)) /\ start' = start
  <2>1. job'[j] = Returned(j)
    BY <1>1, <1>3 DEF Become
  <2>2. \/ job'[j] = IdleJob
        \/ job'[j].op = job[j].op /\ job'[j].rest = job[j].rest
    BY <2>1, ReturnedGoes DEF IdleJob
  <2>3. /\ job'[j].pc \notin ExecPc \union {"settle", "snapshot"}
        /\ job'[j].pc = "next" \/ job'[j].then = "next" => job'[j].op = "reap"
    BY <2>1, ReturnedGoes DEF IdleJob, ExecPc
  <2>4. CallGoes(j)'
    BY <1>1, <1>2, <1>3, <2>2, <2>3, GoesQuietly
  <2> QED
    BY <1>1, <1>2, <1>3, <2>4, ExecKept
<1>4. CASE /\ Goto(j, "starting")
           /\ start' = [start EXCEPT ![a] = [Free EXCEPT !.by = j, !.picked = Picked(a)]]
  <2>1. job'[j] = [job[j] EXCEPT !.pc = "starting"] /\ \A k \in JobId : k # j => job'[k] = job[k]
    BY <1>1, <1>4 DEF Goto
  <2>2. /\ job'[j].pc = "starting" /\ job'[j].op = job[j].op /\ job'[j].rest = job[j].rest
        /\ job'[j].then = job[j].then
    BY <1>1, <2>1 DEF Job
  <2>3. ASSUME NEW b \in Agent PROVE Handled(b)' \subseteq Handled(b)
    BY <1>1, <1>4 DEF Handled, Free
  <2>4. ASSUME NEW r \in RunId, Dead(r) PROVE Dead(r)'
    <3>1. r # j /\ r \in JobId
      BY <1>1, <2>4 DEF Dead, IdleJob, JobId
    <3> QED
      BY <1>1, <2>1, <2>3, <2>4, <3>1 DEF Dead
  <2>5. ASSUME NEW k \in JobId PROVE CallGoes(k)'
    <3>1. CallGoes(k) /\ job[k].rest \subseteq RunId
      BY JobHas DEF ExecInv, Job
    <3>2. job[k].op = "reap" => \A r \in job[k].rest : Dead(r)'
      BY <2>4, <3>1 DEF CallGoes
    <3>3. CASE k = j
      BY <1>1, <2>2, <3>1, <3>2, <3>3 DEF CallGoes, ExecPc, IdleJob
    <3>4. CASE k # j
      <4>1. job'[k] = job[k] /\ (job[k].pc = "settle" => job[k].run \in RunId)
        BY <2>1, <3>4, RunHasAgent DEF RunPc
      <4>2. job[k].op = "reap" /\ job[k].pc = "settle" => Dead(job[k].run)'
        BY <2>4, <3>1, <4>1 DEF CallGoes
      <4> HIDE DEF Dead
      <4> QED
        BY <1>1, <3>1, <3>2, <4>1, <4>2 DEF CallGoes
    <3> QED
      BY <3>3, <3>4
  <2>6. HandledAreRunning'
    BY <1>1, <2>3 DEF ExecInv, HandledAreRunning
  <2> QED
    BY <2>5, <2>6 DEF ExecInv
<1> QED
  BY <1>3, <1>4 DEF Acquire

LEMMA ClaimRunning ==
  ASSUME TypeInv, NEW a \in Agent, Claim(a) \/ MarkClaimed(a) PROVE RunningStays
<1>1. ASSUME NEW r \in RunId, run[r].status = "running" PROVE run'[r].status = "running"
  <2>1. run[r] \in Row /\ run \in [RunId -> Row]
    BY DEF TypeInv, TypeOK
  <2>2. CASE Claim(a)
    <3>1. PICK q \in start[a].picked :
            run' = [run EXCEPT ![q].status = IF @ = "queued" THEN "running" ELSE @]
      BY <2>2 DEF Claim
    <3>2. run'[r] = run[r] \/ run'[r] = [run[r] EXCEPT !.status = "running"]
      BY <1>1, <2>1, <3>1
    <3> QED
      BY <1>1, <2>1, <3>2 DEF Row
  <2>3. CASE MarkClaimed(a)
    <3>1. run'[r] = run[r] \/ run'[r] = [run[r] EXCEPT !.wake = "claimed"]
      BY <2>1, <2>3 DEF MarkClaimed
    <3> QED
      BY <1>1, <2>1, <3>1 DEF Row
  <2> QED
    BY <2>2, <2>3
<1> QED
  BY <1>1 DEF RunningStays

LEMMA ClaimExec ==
  ASSUME TypeInv, CallInv, ExecInv, NEW a \in Agent, Claim(a) \/ MarkClaimed(a) PROVE ExecInv'
<1>1. RunsAdvance /\ RunningStays /\ job' = job
  BY ClaimAdvances, ClaimRunning, ClaimHandles
<1>2. ASSUME NEW b \in Agent, NEW r \in Handled(b)'
      PROVE  \/ r \in Handled(b)
             \/ r \in RunId /\ run[r].status = "queued" /\ run'[r].status = "running"
  BY <1>2, ClaimHandles
<1>3. ASSUME NEW b \in Agent, NEW r \in Handled(b)' PROVE run'[r].status = "running"
  BY <1>1, <1>2, HandledRuns DEF ExecInv, HandledAreRunning, RunningStays
<1>4. ASSUME NEW r \in RunId, Dead(r) PROVE Dead(r)'
  BY <1>1, <1>2, <1>4 DEF Dead, RunsAdvance
<1>5. ASSUME NEW k \in JobId PROVE CallGoes(k)'
  <2>1. /\ CallGoes(k) /\ job[k].rest \subseteq RunId
        /\ job[k].pc = "settle" => job[k].run \in RunId
    BY JobHas, RunHasAgent DEF ExecInv, Job, RunPc
  <2>2. job[k].op = "reap" => /\ job[k].pc = "settle" => Dead(job[k].run)'
                              /\ \A r \in job[k].rest : Dead(r)'
    BY <1>1, <1>4, <2>1 DEF CallGoes
  <2>3. job[k].op = "exec" /\ job[k].pc \in ExecPc \union {"settle"} => run'[k].status = "running"
    BY <1>1, <2>1 DEF CallGoes, RunningStays
  <2> HIDE DEF Dead
  <2> QED
    BY <1>1, <2>1, <2>2, <2>3 DEF CallGoes
<1> QED
  BY <1>3, <1>5 DEF ExecInv, HandledAreRunning

LEMMA LaunchExec ==
  ASSUME TypeInv, CallInv, ExecInv, NEW a \in Agent, Launch(a) PROVE ExecInv'
<1>1. /\ start \in [Agent -> StartLock] /\ run' = run /\ start[a].by # NoJob
      /\ start[a].by \in JobId
  BY HandledRuns DEF TypeInv, TypeOK, Launch, rows
<1>2. start'[a] = Free /\ \A b \in Agent : b # a => start'[b] = start[b]
  BY <1>1 DEF Launch
<1>3. \A b \in Agent : Handled(b)' \subseteq Handled(b)
  BY <1>2 DEF Handled, Free
<1>4. job[start[a].by].pc = "starting"
  BY <1>1 DEF CallInv, HolderWaits
<1>5. ASSUME NEW r \in RunId, Dead(r) PROVE Dead(r)'
  <2>1. r \notin start[a].started /\ r # start[a].by /\ r \in JobId
    BY <1>4, <1>5 DEF Dead, Handled, IdleJob, JobId
  <2>2. job'[r] = IdleJob
    BY <1>5, <2>1 DEF Launch, Dead
  <2> QED
    BY <1>1, <1>3, <1>5, <2>2 DEF Dead
<1>6. ASSUME NEW k \in JobId PROVE CallGoes(k)'
  <2>1. /\ CallGoes(k) /\ job[k].rest \subseteq RunId
        /\ job[k].pc = "settle" => job[k].run \in RunId
    BY JobHas, RunHasAgent DEF ExecInv, Job, RunPc
  <2>2. job[k].op = "reap" => \A r \in job[k].rest : Dead(r)'
    BY <1>5, <2>1 DEF CallGoes
  <2>3. CASE k \in start[a].started
    <3>1. job'[k] = [IdleJob EXCEPT !.op = "exec", !.pc = "load", !.run = k]
      BY <2>3 DEF Launch
    <3>2. job'[k].op = "exec" /\ job'[k].pc = "load" /\ job'[k].run = k /\ job'[k].then = "idle"
      BY <3>1 DEF IdleJob
    <3>3. k \in RunId /\ run[k].status = "running"
      BY <2>3, HandledRuns DEF ExecInv, HandledAreRunning, Handled
    <3> QED
      BY <1>1, <3>2, <3>3 DEF CallGoes, ExecPc
  <2>4. CASE k \notin start[a].started /\ k = start[a].by
    <3>1. job'[k] = Returned(k)
      BY <2>4 DEF Launch
    <3>2. CASE Returned(k) = IdleJob
      BY <3>1, <3>2 DEF CallGoes, IdleJob, ExecPc
    <3>3. CASE /\ Returned(k).op = job[k].op /\ Returned(k).rest = job[k].rest
               /\ Returned(k).pc \in {"cost", "agent", "next"} /\ Returned(k).then = "idle"
               /\ Returned(k).pc = "next" => job[k].op = "reap"
      BY <1>4, <2>1, <2>2, <2>4, <3>1, <3>3 DEF CallGoes, ExecPc, IdleJob
    <3> QED
      BY <3>2, <3>3, ReturnedGoes
  <2>5. CASE k \notin start[a].started /\ k # start[a].by
    <3>1. job'[k] = job[k]
      BY <2>5 DEF Launch
    <3>2. job[k].op = "reap" /\ job[k].pc = "settle" => Dead(job[k].run)'
      BY <1>5, <2>1, <3>1 DEF CallGoes
    <3> HIDE DEF Dead
    <3> QED
      BY <1>1, <2>1, <2>2, <3>1, <3>2 DEF CallGoes
  <2> QED
    BY <2>3, <2>4, <2>5
<1>7. HandledAreRunning'
  BY <1>1, <1>3 DEF ExecInv, HandledAreRunning
<1> QED
  BY <1>6, <1>7 DEF ExecInv

(* The reaper's ticks find orphans only.                                     *)
LEMMA TicksExec ==
  ASSUME Undisturbed, TypeInv, CallInv, ExecInv, NEW h \in Handler, Ticks(h) PROVE ExecInv'
<1>1. job \in [JobId -> Job] /\ h \in JobId /\ Takes(h) /\ UNCHANGED <<run, start>>
  BY TicksTake, HandlersAreNoRuns DEF TypeInv, TypeOK
<1>2. RunsAdvance /\ RunningStays
  BY <1>1, SameRunsAdvance DEF RunningStays
<1>3. ASSUME NEW a, NEW s, NEW k, ReceiveWake(h, a, s, k) PROVE CallGoes(h)'
  <2> DEFINE pc == IF s = NoIssue \/ k = "mention" THEN "scan" ELSE "enqueue"
             next == [IdleJob EXCEPT !.op = "wake", !.agent = a, !.issue = s, !.kind = k, !.pc = pc]
  <2>1. job' = [job EXCEPT ![h] = next]
    BY <1>3 DEF ReceiveWake, Become
  <2>2. next.op = "wake" /\ next.pc \in {"scan", "enqueue"} /\ next.then = "idle"
    BY DEF IdleJob
  <2> HIDE DEF next
  <2>3. job'[h] = next
    BY <1>1, <2>1
  <2> QED
    BY <2>2, <2>3 DEF CallGoes, ExecPc
<1>4. ASSUME NEW stale \in SUBSET RunId, ReapTick(h, stale) PROVE CallGoes(h)'
  <2> DEFINE next == [IdleJob EXCEPT !.op = "reap", !.pc = "next", !.rest = stale,
                                     !.value = "failed"]
  <2>1. job' = [job EXCEPT ![h] = next]
    BY <1>4 DEF ReapTick, Become
  <2>2. next.op = "reap" /\ next.pc = "next" /\ next.then = "idle" /\ next.rest = stale
    BY DEF IdleJob
  <2> HIDE DEF next
  <2>3. job'[h] = next
    BY <1>1, <2>1
  <2>4. ASSUME NEW r \in stale PROVE r \in RunId /\ Dead(r)
    <3>1. /\ r \in RunId /\ run[r].status = "running" /\ job[r].op = "idle"
          /\ \A a \in Agent : r \notin start[a].started \union {start[a].claimed}
      BY <1>4, <2>4 DEF ReapTick, Orphans, Undisturbed
    <3>2. job[r] = IdleJob
      BY <3>1 DEF JobId, ExecInv, CallGoes
    <3> QED
      BY <3>1, <3>2 DEF Dead, Handled
  <2>5. \A r \in stale : Dead(r)'
    BY <1>1, <1>2, <2>4, DeadStays
  <2> QED
    BY <2>2, <2>3, <2>5 DEF CallGoes, ExecPc
<1>5. \A r \in RunId : ~CancelRun(h, r)
  BY DEF CancelRun, Command, Undisturbed
<1>6. \A a \in Agent : ~StopAgent(h, a)
  BY DEF StopAgent, Command, Undisturbed
<1>7. CallGoes(h)'
  BY <1>3, <1>4, <1>5, <1>6 DEF Ticks
<1> QED
  BY <1>1, <1>2, <1>7, ExecKept

LEMMA InitExec == Init => ExecInv
BY DEF Init, ExecInv, HandledAreRunning, Handled, Free, CallGoes, IdleJob, ExecPc

LEMMA NextExec ==
  ASSUME Undisturbed PROVE TypeInv /\ CallInv /\ ExecInv /\ [Next]_vars => ExecInv'
<1> SUFFICES ASSUME TypeInv, CallInv, ExecInv, [Next]_vars PROVE ExecInv'
  OBVIOUS
<1>1. ASSUME UNCHANGED <<run, job, start>> PROVE ExecInv'
  BY <1>1 DEF ExecInv, HandledAreRunning, Handled, CallGoes, Dead
<1>2. ASSUME NEW a \in Agent, StartLoop(a) \/ ResumeAgent(a) PROVE ExecInv'
  BY <1>1, <1>2, ClaimExec, LaunchExec DEF StartLoop, ResumeAgent
<1>3. ASSUME NEW h \in Handler, Arrive(h) PROVE ExecInv'
  <2>1. ~Restart(h)
    BY DEF Restart, Undisturbed, TypeInv, TypeOK
  <2> QED
    BY <1>3, <2>1, TicksExec DEF Arrive, Ticks
<1>4. CASE UNCHANGED vars
  BY <1>1, <1>4 DEF vars
<1> QED
  BY <1>2, <1>3, <1>4, StepExec, AcquireExec DEF Next

(* Where nobody is mentioned, no command stops a run, the server stays up    *)
(* and no live run looks stale, an issue is never executed twice at a time:  *)
(* an adapter at work has its own running row, and the issue has one such.   *)
THEOREM IssueIsExecutedOnce ==
  ASSUME "mention" \notin Kinds, Undisturbed PROVE Spec => []OneExecutionPerIssue
<1>1. TypeInv /\ OwnerInv /\ ExecInv => OneExecutionPerIssue
  <2> SUFFICES ASSUME TypeInv, OwnerInv, ExecInv, NEW r \in RunId, NEW q \in RunId,
                      At(r, "adapter"), At(q, "adapter"),
                      run[r].issue = run[q].issue, run[r].issue # NoIssue
               PROVE  r = q
    BY DEF OneExecutionPerIssue
  <2>1. run[r].status = "running" /\ run[q].status = "running"
    BY DEF ExecInv, CallGoes, At, ExecPc, JobId
  <2>2. run[r].issue \in Issue
    BY DEF TypeInv, TypeOK, Row
  <2> QED
    BY <2>1, <2>2 DEF OwnerInv, LockOwns, IsActive, Active
<1> QED
  BY <1>1, InitTypes, NextTypes, InitOwner, NextOwner, InitCalls, NextCalls, InitExec, NextExec,
     PTL DEF Spec

-----------------------------------------------------------------------------
(* Wakeup requests, whatever is cancelled or paused: the call that has ended *)
(* a run goes on to its request, and only a cancel ends a run whose request  *)
(* is still to be claimed.                                                   *)

StopPc == {"snapshot", "next", "settle", "wakeup", "release", "start", "starting"}

(* A call settles a run as cancelled, or the run it has executed, or one     *)
(* that is dead.                                                             *)
CallEnds(j) ==
  /\ job[j].op = "idle" => job[j] = IdleJob
  /\ job[j].op = "stop" => /\ job[j].value = "cancelled" /\ job[j].pc \in StopPc
                           /\ job[j].then \in {"idle", "next"}
  /\ job[j].op # "stop" => job[j].pc # "snapshot" /\ \A r \in job[j].rest : Dead(r)
  /\ job[j].pc \in ExecPc => job[j].op = "exec" /\ j \in RunId /\ job[j].run = j
  /\ job[j].pc = "settle" => \/ job[j].value = "cancelled"
                             \/ job[j].op = "exec" /\ j \in RunId /\ job[j].run = j
                             \/ Dead(job[j].run)

ClaimLives(a) ==
  start[a].claimed # 0 =>
    start[a].by # NoJob /\ run[start[a].claimed].status \in {"running", "cancelled"}

EndsInv == (\A j \in JobId : CallEnds(j)) /\ (\A a \in Agent : ClaimLives(a))

RequestFollows ==
  \A r \in RunId : run[r].status \in Terminal =>
    \/ run[r].wake \in Terminal
    \/ \E j \in JobId : job[j].pc = "wakeup" /\ job[j].run = r
    \/ \E a \in Agent : start[a].claimed = r
    \/ run[r].status = "cancelled" /\ run[r].wake = "claimed"

LEMMA DeadLives ==
  ASSUME RunsAdvance, NEW j \in JobId, Takes(j), NEW r \in RunId, Dead(r),
         \A a \in Agent : Handled(a)' \subseteq Handled(a)
  PROVE  Dead(r)'
<1>1. r # j
  BY HandlersAreNoRuns DEF Takes, Dead, IdleJob
<1>2. job'[r] = IdleJob
  BY <1>1 DEF Takes, OneCall, Dead, JobId
<1> QED
  BY <1>2 DEF Dead, RunsAdvance

LEMMA OthersEnd ==
  ASSUME TypeInv, NEW k \in JobId, CallEnds(k), job'[k] = job[k],
         \A r \in RunId : Dead(r) => Dead(r)'
  PROVE  CallEnds(k)'
<1>1. job[k].rest \subseteq RunId /\ (job[k].pc = "settle" => job[k].run \in RunId)
  BY JobHas, RunHasAgent DEF Job, RunPc
<1>2. /\ \A r \in job[k].rest : Dead(r) => Dead(r)'
      /\ job[k].pc = "settle" => (Dead(job[k].run) => Dead(job[k].run)')
  BY <1>1
<1> HIDE DEF Dead
<1> QED
  BY <1>2 DEF CallEnds

(* A call that neither executes nor settles a run next.                      *)
LEMMA EndsQuietly ==
  ASSUME TypeInv, NEW j \in JobId, CallEnds(j), \A r \in RunId : Dead(r) => Dead(r)',
         job'[j].pc \notin ExecPc \union {"settle", "snapshot"},
         \/ job'[j] = IdleJob
         \/ job'[j].op = "wake" /\ job'[j].rest = {}
         \/ /\ job[j].op # "idle" /\ job'[j].op = job[j].op /\ job'[j].rest = job[j].rest
            /\ job[j].op = "stop" => /\ job'[j].value = job[j].value /\ job'[j].pc \in StopPc
                                     /\ job'[j].then \in {"idle", "next"}
  PROVE  CallEnds(j)'
<1>1. job[j].rest \subseteq RunId
  BY JobHas DEF Job
<1>2. job[j].op # "stop" => \A r \in job[j].rest : Dead(r)'
  BY <1>1 DEF CallEnds
<1>3. job'[j].op # "stop" => \A r \in job'[j].rest : Dead(r)'
  BY <1>2 DEF IdleJob
<1> HIDE DEF Dead
<1> QED
  BY <1>3 DEF CallEnds, IdleJob

LEMMA StepKeepsDead ==
  ASSUME TypeInv, NEW j \in JobId, Step(j)
  PROVE  /\ Takes(j) /\ RunsAdvance /\ UNCHANGED start
         /\ \A r \in RunId : Dead(r) => Dead(r)'
<1>1. Takes(j) /\ RunsAdvance /\ UNCHANGED start
  BY StepTakes, StepAdvances
<1> QED
  BY <1>1, DeadStays

LEMMA ExecuteEnds ==
  ASSUME TypeInv, EndsInv, NEW j \in JobId, Execute(j) PROVE CallEnds(j)'
<1>1. job \in [JobId -> Job] /\ job[j] \in Job /\ CallEnds(j)
  BY DEF TypeInv, TypeOK, EndsInv
<1>2. \A r \in RunId : Dead(r) => Dead(r)'
  BY StepKeepsDead DEF Step
<1>3. ASSUME NEW pc \in ExecPc \union {"settle"}, NEW value, job[j].pc \in ExecPc,
             job' = [job EXCEPT ![j].pc = pc] \/ job' = [job EXCEPT ![j].pc = pc, ![j].value = value]
      PROVE  CallEnds(j)'
  <2>1. job'[j] = [job[j] EXCEPT !.pc = pc] \/ job'[j] = [job[j] EXCEPT !.pc = pc, !.value = value]
    BY <1>1, <1>3
  <2>2. /\ job'[j].pc = pc /\ job'[j].op = job[j].op /\ job'[j].run = job[j].run
        /\ job'[j].rest = job[j].rest
    BY <1>1, <2>1 DEF Job
  <2>3. job[j].op = "exec" /\ j \in RunId /\ job[j].run = j
    BY <1>1, <1>3 DEF CallEnds
  <2>4. \A r \in job[j].rest : Dead(r)'
    BY <1>1, <1>2, <2>3 DEF CallEnds, Job
  <2> HIDE DEF Dead
  <2> QED
    BY <2>2, <2>3, <2>4 DEF CallEnds, ExecPc
<1>4. ASSUME Become(j, IdleJob) PROVE CallEnds(j)'
  <2>1. job'[j] = IdleJob
    BY <1>1, <1>4 DEF Become
  <2>2. job'[j].pc \notin ExecPc \union {"settle", "snapshot"}
    BY <2>1 DEF IdleJob, ExecPc
  <2> QED
    BY <1>1, <1>2, <2>1, <2>2, EndsQuietly
<1>5. Load(j) \/ PreparationThrows(j) => CallEnds(j)'
  BY <1>3, <1>4 DEF Load, PreparationThrows, Goto, At, ExecPc
<1>6. MarkAgentRunning(j) \/ Spawn(j) => CallEnds(j)'
  BY <1>3 DEF MarkAgentRunning, Spawn, Goto, At, ExecPc
<1>7. AdapterReturns(j) \/ AdapterThrows(j) => CallEnds(j)'
  BY <1>3 DEF AdapterReturns, AdapterThrows, Settle, At, ExecPc
<1>8. RecordCost(j) => CallEnds(j)'
  <2> SUFFICES ASSUME RecordCost(j) PROVE CallEnds(j)'
    OBVIOUS
  <2>1. job[j].pc = "cost" /\ job'[j] = [job[j] EXCEPT !.pc = "agent"]
    BY <1>1 DEF RecordCost, Goto, At
  <2>2. job'[j].pc = "agent" /\ job'[j].op = job[j].op /\ job'[j].rest = job[j].rest
    BY <1>1, <2>1 DEF Job
  <2>3. job[j].op \notin {"idle", "stop"}
    BY <1>1, <2>1 DEF CallEnds, StopPc, IdleJob
  <2> QED
    BY <1>1, <1>2, <2>2, <2>3, EndsQuietly DEF ExecPc
<1> QED
  BY <1>5, <1>6, <1>7, <1>8 DEF Execute

LEMMA SettleEnds ==
  ASSUME TypeInv, EndsInv, NEW j \in JobId, SettleRun(j) PROVE CallEnds(j)'
<1>1. job \in [JobId -> Job] /\ job[j] \in Job /\ CallEnds(j)
  BY DEF TypeInv, TypeOK, EndsInv
<1>2. /\ \A r \in RunId : Dead(r) => Dead(r)'
      /\ job[j].then = "idle" /\ job[j].op # "idle"
  <2>1. job[j].pc \in {"settle", "wakeup", "release", "agent", "agentWrite"}
    BY DEF SettleRun, SetRunStatus, SetWakeupStatus, Release, ReadAgent, WriteAgent, At
  <2> QED
    BY <1>1, <2>1, StepKeepsDead, JobHas DEF Step, JobFits, CallEnds, IdleJob
<1>3. ASSUME NEW pc \in {"wakeup", "release"}, Goto(j, pc) PROVE CallEnds(j)'
  <2>1. job'[j] = [job[j] EXCEPT !.pc = pc]
    BY <1>1, <1>3 DEF Goto
  <2>2. /\ job'[j].pc = pc /\ job'[j].op = job[j].op /\ job'[j].rest = job[j].rest
        /\ job'[j].value = job[j].value /\ job'[j].then = job[j].then
    BY <1>1, <2>1 DEF Job
  <2> QED
    BY <1>1, <1>2, <2>2, EndsQuietly DEF ExecPc, StopPc
<1>4. CASE Release(j)
  <2> DEFINE next == AfterRelease(j)
  <2>1. next \in {"cost", "agent", "next"} /\ (job[j].op = "stop" => next = "next")
    <3>1. CASE job[j].op = "exec"
      BY <3>1 DEF AfterRelease
    <3>2. CASE job[j].op = "stop"
      BY <3>2 DEF AfterRelease
    <3>3. CASE job[j].op \notin {"exec", "stop"}
      BY <3>3 DEF AfterRelease
    <3> QED
      BY <3>1, <3>2, <3>3
  <2> HIDE DEF next
  <2>2. CASE Goto(j, next)
    <3>1. job'[j] = [job[j] EXCEPT !.pc = next]
      BY <1>1, <2>2 DEF Goto
    <3>2. /\ job'[j].pc = next /\ job'[j].op = job[j].op /\ job'[j].rest = job[j].rest
          /\ job'[j].value = job[j].value /\ job'[j].then = job[j].then
      BY <1>1, <3>1 DEF Job
    <3> QED
      BY <1>1, <1>2, <2>1, <3>2, EndsQuietly DEF ExecPc, StopPc
  <2>3. ASSUME NEW a, CallStart(j, a, next) PROVE CallEnds(j)'
    <3>1. job'[j] = [job[j] EXCEPT !.pc = "start", !.agent = a, !.then = next]
      BY <1>1, <2>3 DEF CallStart
    <3>2. /\ job'[j].pc = "start" /\ job'[j].op = job[j].op /\ job'[j].rest = job[j].rest
          /\ job'[j].value = job[j].value /\ job'[j].then = next
      BY <1>1, <3>1 DEF Job
    <3> QED
      BY <1>1, <1>2, <2>1, <3>2, EndsQuietly DEF ExecPc, StopPc
  <2> QED
    BY <1>4, <2>2, <2>3 DEF Release, FreeIssue, Promote, next
<1>5. CASE ReadAgent(j) \/ WriteAgent(j)
  <2>1. job[j].op # "stop"
    BY <1>1, <1>5 DEF ReadAgent, WriteAgent, At, CallEnds, StopPc
  <2>2. ASSUME NEW a, job' = [job EXCEPT ![j] = Settled(j, a)] PROVE CallEnds(j)'
    <3>1. job'[j] = Settled(j, a)
      BY <1>1, <2>2
    <3>2. job'[j].op = job[j].op /\ job'[j].rest = job[j].rest /\ job'[j].pc = "start"
      BY <1>1, <3>1 DEF Settled, Job
    <3> QED
      BY <1>1, <1>2, <2>1, <3>2, EndsQuietly DEF ExecPc
  <2>3. ASSUME NEW value, job' = [job EXCEPT ![j].pc = "agentWrite", ![j].value = value]
        PROVE  CallEnds(j)'
    <3>1. job'[j] = [job[j] EXCEPT !.pc = "agentWrite", !.value = value]
      BY <1>1, <2>3
    <3>2. job'[j].op = job[j].op /\ job'[j].rest = job[j].rest /\ job'[j].pc = "agentWrite"
      BY <1>1, <3>1 DEF Job
    <3> QED
      BY <1>1, <1>2, <2>1, <3>2, EndsQuietly DEF ExecPc
  <2> QED
    BY <1>5, <2>2, <2>3 DEF ReadAgent, WriteAgent
<1> QED
  BY <1>3, <1>4, <1>5 DEF SettleRun, SetRunStatus, SetWakeupStatus

LEMMA ServeEnds == ASSUME TypeInv, EndsInv, NEW h \in Handler, Serve(h) PROVE CallEnds(h)'
<1>1. h \in JobId /\ h \notin RunId
  BY HandlersAreNoRuns
<1>2. job \in [JobId -> Job] /\ job[h] \in Job /\ CallEnds(h)
  BY <1>1 DEF TypeInv, TypeOK, EndsInv
<1>3. \A r \in RunId : Dead(r) => Dead(r)'
  BY <1>1, StepKeepsDead DEF Step
<1>4. job[h].then = "idle" /\ job[h].op # "idle"
  <2>1. job[h].pc \in {"enqueue", "scan", "insert", "snapshot", "next"}
    BY DEF Serve, EnqueueOnIssue, Scan, InsertRun, Snapshot, NextOfSnapshot, At
  <2> QED
    BY <1>1, <1>2, <2>1, JobHas DEF JobFits, CallEnds, IdleJob
<1>5. ASSUME Become(h, IdleJob) PROVE CallEnds(h)'
  <2>1. job'[h] = IdleJob
    BY <1>1, <1>2, <1>5 DEF Become
  <2>2. job'[h].pc \notin ExecPc \union {"settle", "snapshot"}
    BY <2>1 DEF IdleJob, ExecPc
  <2> QED
    BY <1>1, <1>2, <1>3, <2>1, <2>2, EndsQuietly
<1>6. ASSUME NEW a, Become(h, [IdleJob EXCEPT !.op = "wake", !.pc = "start", !.agent = a])
      PROVE  CallEnds(h)'
  <2>1. job'[h] = [IdleJob EXCEPT !.op = "wake", !.pc = "start", !.agent = a]
    BY <1>1, <1>2, <1>6 DEF Become
  <2>2. job'[h].op = "wake" /\ job'[h].pc = "start" /\ job'[h].rest = {}
    BY <2>1 DEF IdleJob
  <2> QED
    BY <1>1, <1>2, <1>3, <2>2, EndsQuietly DEF ExecPc
<1>7. ASSUME At(h, "scan"), Goto(h, "insert") PROVE CallEnds(h)'
  <2>1. job'[h] = [job[h] EXCEPT !.pc = "insert"]
    BY <1>1, <1>2, <1>7 DEF Goto
  <2>2. job'[h].pc = "insert" /\ job'[h].op = job[h].op /\ job'[h].rest = job[h].rest
    BY <1>2, <2>1 DEF Job
  <2>3. job[h].op # "stop"
    BY <1>2, <1>7 DEF At, CallEnds, StopPc
  <2> QED
    BY <1>1, <1>2, <1>3, <1>4, <2>2, <2>3, EndsQuietly DEF ExecPc
<1>8. CASE Snapshot(h)
  <2>1. job[h].op = "stop" /\ job[h].value = "cancelled"
    BY <1>2, <1>8 DEF Snapshot, At, CallEnds
  <2>2. PICK rest : job'[h] = [job[h] EXCEPT !.pc = "next", !.rest = rest, !.agent = NoAgent]
    BY <1>1, <1>2, <1>8 DEF Snapshot
  <2>3. /\ job'[h].pc = "next" /\ job'[h].op = "stop" /\ job'[h].value = "cancelled"
        /\ job'[h].then = "idle"
    BY <1>2, <1>4, <2>1, <2>2 DEF Job
  <2> QED
    BY <2>3 DEF CallEnds, ExecPc, StopPc
<1>9. CASE NextOfSnapshot(h) /\ ~Become(h, IdleJob)
  <2>1. PICK r \in job[h].rest :
          job' = [job EXCEPT ![h].rest = @ \ {r},
                             ![h].run = IF PassOver(h, r) THEN 0 ELSE r,
                             ![h].pc = IF PassOver(h, r) THEN "next" ELSE "settle"]
    BY <1>9 DEF NextOfSnapshot
  <2>2. job'[h] = [job[h] EXCEPT !.rest = @ \ {r},
                                 !.run = IF PassOver(h, r) THEN 0 ELSE r,
                                 !.pc = IF PassOver(h, r) THEN "next" ELSE "settle"]
    BY <1>1, <1>2, <2>1
  <2>3. /\ job'[h].op = job[h].op /\ job'[h].value = job[h].value /\ job'[h].then = "idle"
        /\ job'[h].pc \in {"next", "settle"} /\ (job'[h].pc = "settle" => job'[h].run = r)
        /\ job'[h].rest \subseteq job[h].rest
    BY <1>2, <1>4, <2>2 DEF Job
  <2>4. job[h].op # "stop" => \A q \in job[h].rest : Dead(q)'
    BY <1>2, <1>3 DEF CallEnds, Job
  <2>5. PICK q : q = r
    OBVIOUS
  <2>6. job'[h].pc = "settle" => job'[h].run = q
    BY <2>3, <2>5
  <2>7. job[h].op # "stop" => Dead(q)'
    BY <2>4, <2>5
  <2>8. (job'[h].pc = "settle" /\ job[h].op # "stop") => Dead(job[h].run)'
    BY <2>6, <2>7 DEF Dead
  <2>9. job[h].op = "stop" => job'[h].value = "cancelled"
    BY <1>2, <2>3 DEF CallEnds
  <2>10. job[h].op # "stop" => \A k \in job'[h].rest : Dead(k)'
    BY <2>3, <2>4
  <2> HIDE DEF Dead
  <2> QED
    BY <1>4, <2>3, <2>8, <2>9, <2>10 DEF CallEnds, ExecPc, StopPc
<1>10. EnqueueOnIssue(h) => CallEnds(h)'
  BY <1>5, <1>6 DEF EnqueueOnIssue
<1>11. Scan(h) => CallEnds(h)'
  BY <1>5, <1>7 DEF Scan
<1>12. InsertRun(h) => CallEnds(h)'
  BY <1>6 DEF InsertRun
<1> QED
  BY <1>5, <1>8, <1>9, <1>10, <1>11, <1>12 DEF Serve

LEMMA OthersKeepEnds ==
  ASSUME TypeInv, EndsInv, NEW j \in JobId, OneCall(j), CallEnds(j)',
         \A r \in RunId : Dead(r) => Dead(r)'
  PROVE  \A k \in JobId : CallEnds(k)'
<1>1. ASSUME NEW k \in JobId, k # j PROVE CallEnds(k)'
  <2>1. CallEnds(k) /\ job'[k] = job[k]
    BY <1>1 DEF EndsInv, OneCall
  <2> QED
    BY <2>1, OthersEnd
<1> QED
  BY <1>1

LEMMA SteadyClaims ==
  ASSUME TypeInv, EndsInv, Steady, UNCHANGED start PROVE \A a \in Agent : ClaimLives(a)'
<1>1. ASSUME NEW a \in Agent, start[a].claimed # 0 PROVE start[a].claimed \in RunId
  <2>1. start[a].claimed \in Handled(a)
    BY <1>1 DEF Handled
  <2> QED
    BY <2>1, HandledRuns
<1> QED
  BY <1>1 DEF EndsInv, ClaimLives, Steady

LEMMA StepEnds == ASSUME TypeInv, CallInv, EndsInv, NEW j \in JobId, Step(j) PROVE EndsInv'
<1>1. CallEnds(j)'
  BY ExecuteEnds, SettleEnds, ServeEnds DEF Step
<1>2. \A k \in JobId : CallEnds(k)'
  BY <1>1, StepKeepsDead, OthersKeepEnds DEF Takes
<1>3. UNCHANGED start
  BY StepKeepsDead
<1>4. ASSUME NEW a \in Agent PROVE ClaimLives(a)'
  <2>1. CASE SetRunStatus(j)
    <3> SUFFICES ASSUME start[a].claimed # 0
                 PROVE  /\ start[a].by # NoJob
                        /\ run'[start[a].claimed].status \in {"running", "cancelled"}
      BY <1>3 DEF ClaimLives
    <3> DEFINE r == start[a].claimed
    <3>1. r \in Handled(a) /\ r \in RunId
      BY HandledRuns DEF Handled
    <3>2. /\ job[r] = IdleJob /\ start[a].by # NoJob
          /\ run[r].status \in {"running", "cancelled"}
      BY <3>1 DEF CallInv, HandledIsIdle, EndsInv, ClaimLives
    <3>3. CASE r # job[j].run
      BY <2>1, <3>1, <3>2, <3>3, StatusWritten
    <3>4. CASE r = job[j].run
      <4>1. job[j].pc = "settle" /\ CallEnds(j)
        BY <2>1 DEF SetRunStatus, At, EndsInv
      <4>2. ~Dead(r) /\ r # j
        BY <3>1, <3>2, <4>1 DEF Dead, IdleJob
      <4>3. job[j].value = "cancelled"
        BY <3>4, <4>1, <4>2 DEF CallEnds
      <4> QED
        BY <2>1, <3>2, <3>4, <4>3, StatusWritten
    <3> QED
      BY <3>3, <3>4
  <2>2. CASE SetWakeupStatus(j)
    <3>1. start[a].claimed # 0 => start[a].claimed \in RunId
      BY HandledRuns DEF Handled
    <3> QED
      BY <1>3, <2>2, <3>1, WakeupWritten DEF EndsInv, ClaimLives
  <2>3. CASE ~SetRunStatus(j) /\ ~SetWakeupStatus(j)
    BY <1>3, <2>3, StepSteady, SteadyClaims
  <2> QED
    BY <2>1, <2>2, <2>3
<1> QED
  BY <1>2, <1>4 DEF EndsInv

LEMMA ReturnedEnds ==
  ASSUME TypeInv, NEW j \in JobId, CallEnds(j), job[j].pc \in {"start", "starting"}
  PROVE  \/ Returned(j) = IdleJob
         \/ /\ job[j].op # "idle"
            /\ Returned(j).op = job[j].op /\ Returned(j).rest = job[j].rest
            /\ Returned(j).value = job[j].value
            /\ Returned(j).pc \in {"cost", "agent", "next"} /\ Returned(j).then = "idle"
            /\ job[j].op = "stop" => Returned(j).pc = "next"
BY JobHas DEF Returned, Job, CallEnds, IdleJob

LEMMA AcquireEnds ==
  ASSUME TypeInv, CallInv, EndsInv, NEW j \in JobId, Acquire(j) PROVE EndsInv'
<1> DEFINE a == job[j].agent
<1>1. /\ Takes(j) /\ run' = run /\ job \in [JobId -> Job] /\ job[j] \in Job /\ a \in Agent
      /\ start \in [Agent -> StartLock] /\ job[j].pc = "start" /\ CallEnds(j)
      /\ start[a].by = NoJob
  BY AcquireTakes, JobHas DEF TypeInv, TypeOK, Acquire, At, JobFits, EndsInv
<1>2. RunsAdvance
  BY <1>1, SameRunsAdvance
<1>3. CASE Become(j, Returned(j)) /\ start' = start
  <2>1. job'[j] = Returned(j)
    BY <1>1, <1>3 DEF Become
  <2>2. \A r \in RunId : Dead(r) => Dead(r)'
    BY <1>1, <1>2, <1>3, DeadStays
  <2>3. job'[j].pc \notin ExecPc \union {"settle", "snapshot"}
    BY <1>1, <2>1, ReturnedEnds DEF IdleJob, ExecPc
  <2>4. \/ job'[j] = IdleJob
        \/ /\ job[j].op # "idle" /\ job'[j].op = job[j].op /\ job'[j].rest = job[j].rest
           /\ job[j].op = "stop" => /\ job'[j].value = job[j].value /\ job'[j].pc \in StopPc
                                    /\ job'[j].then \in {"idle", "next"}
    BY <1>1, <2>1, ReturnedEnds DEF StopPc
  <2>5. CallEnds(j)'
    BY <1>1, <2>2, <2>3, <2>4, EndsQuietly
  <2>6. \A b \in Agent : ClaimLives(b)'
    BY <1>1, <1>3 DEF EndsInv, ClaimLives
  <2> QED
    BY <1>1, <2>2, <2>5, <2>6, OthersKeepEnds DEF EndsInv, Takes
<1>4. CASE /\ Goto(j, "starting")
           /\ start' = [start EXCEPT ![a] = [Free EXCEPT !.by = j, !.picked = Picked(a)]]
  <2>1. job'[j] = [job[j] EXCEPT !.pc = "starting"]
    BY <1>1, <1>4 DEF Goto
  <2>2. /\ job'[j].pc = "starting" /\ job'[j].op = job[j].op /\ job'[j].rest = job[j].rest
        /\ job'[j].value = job[j].value /\ job'[j].then = job[j].then
    BY <1>1, <2>1 DEF Job
  <2>3. /\ start'[a].claimed = 0 /\ start'[a].started = {}
        /\ \A b \in Agent : b # a => start'[b] = start[b]
    BY <1>1, <1>4 DEF Free
  <2>4. \A b \in Agent : Handled(b)' \subseteq Handled(b)
    BY <2>3 DEF Handled
  <2>5. \A r \in RunId : Dead(r) => Dead(r)'
    BY <1>1, <1>2, <2>4, DeadLives
  <2>6. job[j].op # "idle"
    BY <1>1 DEF CallEnds, IdleJob
  <2>7. CallEnds(j)'
    BY <1>1, <2>2, <2>5, <2>6, EndsQuietly DEF ExecPc, StopPc, CallEnds
  <2>8. \A b \in Agent : ClaimLives(b)'
    BY <1>1, <2>3 DEF EndsInv, ClaimLives
  <2> QED
    BY <1>1, <2>5, <2>7, <2>8, OthersKeepEnds DEF EndsInv, Takes
<1> QED
  BY <1>3, <1>4 DEF Acquire

LEMMA ClaimEnds ==
  ASSUME TypeInv, CallInv, EndsInv, NEW a \in Agent, Claim(a) \/ MarkClaimed(a) PROVE EndsInv'
<1>1. RunsAdvance /\ job' = job
  BY ClaimAdvances, ClaimHandles
<1>2. ASSUME NEW r \in RunId, Dead(r) PROVE Dead(r)'
  <2>1. ASSUME NEW b \in Agent, r \in Handled(b)' PROVE FALSE
    BY <1>2, <2>1, ClaimHandles DEF Dead
  <2> QED
    BY <1>1, <1>2, <2>1 DEF Dead, RunsAdvance
<1>3. \A k \in JobId : CallEnds(k)'
  BY <1>1, <1>2, OthersEnd DEF EndsInv
<1>4. ASSUME NEW b \in Agent PROVE ClaimLives(b)'
  <2>1. /\ start \in [Agent -> StartLock] /\ start[a] \in StartLock /\ run \in [RunId -> Row]
        /\ start[b] \in StartLock
    BY DEF TypeInv, TypeOK
  <2>2. start[b].claimed # 0 => start[b].claimed \in RunId
    BY HandledRuns DEF Handled
  <2>3. CASE MarkClaimed(a)
    <3>1. /\ start'[a].claimed = 0 /\ start'[b].by = start[b].by
          /\ b # a => start'[b] = start[b]
      BY <2>1, <2>3 DEF MarkClaimed, StartLock
    <3>2. ASSUME NEW r \in RunId PROVE run'[r].status = run[r].status
      <4>1. run'[r] = run[r] \/ run'[r] = [run[r] EXCEPT !.wake = "claimed"]
        BY <2>1, <2>3 DEF MarkClaimed
      <4> QED
        BY <2>1, <4>1 DEF Row
    <3> QED
      BY <2>2, <3>1, <3>2 DEF EndsInv, ClaimLives
  <2>4. CASE Claim(a)
    <3>1. PICK q \in start[a].picked :
            /\ run' = [run EXCEPT ![q].status = IF @ = "queued" THEN "running" ELSE @]
            /\ start' = [start EXCEPT ![a].picked = @ \ {q},
                                      ![a].claimed = IF run[q].status = "queued" THEN q ELSE 0]
      BY <2>4 DEF Claim
    <3>2. q \in RunId
      BY <2>1 DEF StartLock
    <3>3. /\ start'[b].by = start[b].by
          /\ b # a => start'[b] = start[b]
          /\ b = a => start'[b].claimed = IF run[q].status = "queued" THEN q ELSE 0
      BY <2>1, <3>1 DEF StartLock
    <3>4. start[a].by # NoJob
      BY DEF TypeInv, StartFits
    <3>5. run[q].status = "queued" => run'[q].status = "running"
      <4>1. run[q].status = "queued" => run'[q] = [run[q] EXCEPT !.status = "running"]
        BY <2>1, <3>1, <3>2
      <4> QED
        BY <2>1, <3>2, <4>1 DEF Row
    <3>6. ASSUME NEW r \in RunId, run[r].status \in {"running", "cancelled"}
          PROVE  run'[r].status \in {"running", "cancelled"}
      <4>1. run'[r] = run[r] \/ run'[r] = [run[r] EXCEPT !.status = run[r].status]
        BY <2>1, <3>1, <3>6
      <4> QED
        BY <2>1, <3>6, <4>1 DEF Row
    <3>7. CASE b = a
      BY <3>3, <3>4, <3>5, <3>7 DEF ClaimLives
    <3>8. CASE b # a
      BY <2>2, <3>3, <3>6, <3>8 DEF EndsInv, ClaimLives
    <3> QED
      BY <3>7, <3>8
  <2> QED
    BY <2>3, <2>4
<1> QED
  BY <1>3, <1>4 DEF EndsInv

LEMMA LaunchEnds ==
  ASSUME TypeInv, CallInv, EndsInv, NEW a \in Agent, Launch(a) PROVE EndsInv'
<1>1. /\ start \in [Agent -> StartLock] /\ run' = run /\ start[a].by # NoJob
      /\ start[a].by \in JobId
  BY HandledRuns DEF TypeInv, TypeOK, Launch, rows
<1>2. start'[a] = Free /\ \A b \in Agent : b # a => start'[b] = start[b]
  BY <1>1 DEF Launch
<1>3. \A b \in Agent : Handled(b)' \subseteq Handled(b)
  BY <1>2 DEF Handled, Free
<1>4. job[start[a].by].pc = "starting"
  BY <1>1 DEF CallInv, HolderWaits
<1>5. ASSUME NEW r \in RunId, Dead(r) PROVE Dead(r)'
  <2>1. r \notin start[a].started /\ r # start[a].by /\ r \in JobId
    BY <1>4, <1>5 DEF Dead, Handled, IdleJob, JobId
  <2>2. job'[r] = IdleJob
    BY <1>5, <2>1 DEF Launch, Dead
  <2> QED
    BY <1>1, <1>3, <1>5, <2>2 DEF Dead
<1>6. ASSUME NEW k \in JobId PROVE CallEnds(k)'
  <2>1. CASE k \in start[a].started
    <3>1. job'[k] = [IdleJob EXCEPT !.op = "exec", !.pc = "load", !.run = k]
      BY <2>1 DEF Launch
    <3>2. /\ job'[k].op = "exec" /\ job'[k].pc = "load" /\ job'[k].run = k
          /\ job'[k].rest = {}
      BY <3>1 DEF IdleJob
    <3>3. k \in RunId
      BY <2>1, HandledRuns DEF Handled
    <3> QED
      BY <3>2, <3>3 DEF CallEnds, ExecPc
  <2>2. CASE k \notin start[a].started /\ k = start[a].by
    <3>1. job'[k] = Returned(k) /\ job[k].pc = "starting" /\ CallEnds(k)
      BY <1>4, <2>2 DEF Launch, EndsInv
    <3>2. job'[k].pc \notin ExecPc \union {"settle", "snapshot"}
      BY <3>1, ReturnedEnds DEF IdleJob, ExecPc
    <3>3. \/ job'[k] = IdleJob
          \/ /\ job[k].op # "idle" /\ job'[k].op = job[k].op /\ job'[k].rest = job[k].rest
             /\ job[k].op = "stop" => /\ job'[k].value = job[k].value /\ job'[k].pc \in StopPc
                                      /\ job'[k].then \in {"idle", "next"}
      BY <3>1, ReturnedEnds DEF StopPc
    <3> QED
      BY <1>5, <3>1, <3>2, <3>3, EndsQuietly
  <2>3. CASE k \notin start[a].started /\ k # start[a].by
    <3>1. job'[k] = job[k]
      BY <2>3 DEF Launch
    <3> QED
      BY <1>5, <3>1, OthersEnd DEF EndsInv
  <2> QED
    BY <2>1, <2>2, <2>3
<1>7. \A b \in Agent : ClaimLives(b)'
  BY <1>1, <1>2 DEF EndsInv, ClaimLives, Free
<1> QED
  BY <1>6, <1>7 DEF EndsInv

(* A request or a tick: a cancel or a stop settles as cancelled, and the     *)
(* reaper's ticks find orphans only.                                         *)
LEMMA TicksEnd ==
  ASSUME ~SlowRuns, TypeInv, CallInv, EndsInv, NEW h \in Handler, Ticks(h) PROVE EndsInv'
<1>1. job \in [JobId -> Job] /\ h \in JobId /\ Takes(h) /\ UNCHANGED <<run, start>> /\ CallEnds(h)
  BY TicksTake, HandlersAreNoRuns DEF TypeInv, TypeOK, EndsInv
<1>2. \A r \in RunId : Dead(r) => Dead(r)'
  BY <1>1, SameRunsAdvance, DeadStays
<1>3. ASSUME NEW a, NEW s, NEW k, ReceiveWake(h, a, s, k) PROVE CallEnds(h)'
  <2> DEFINE pc == IF s = NoIssue \/ k = "mention" THEN "scan" ELSE "enqueue"
             next == [IdleJob EXCEPT !.op = "wake", !.agent = a, !.issue = s, !.kind = k, !.pc = pc]
  <2>1. job' = [job EXCEPT ![h] = next]
    BY <1>3 DEF ReceiveWake, Become
  <2>2. next.op = "wake" /\ next.pc \in {"scan", "enqueue"} /\ next.rest = {}
    BY DEF IdleJob
  <2> HIDE DEF next
  <2>3. job'[h] = next
    BY <1>1, <2>1
  <2> QED
    BY <1>1, <1>2, <2>2, <2>3, EndsQuietly DEF ExecPc
<1>4. ASSUME NEW r \in RunId, CancelRun(h, r) PROVE CallEnds(h)'
  <2>1. job'[h] = [IdleJob EXCEPT !.op = "cancel", !.pc = "settle", !.run = r,
                                  !.value = "cancelled"]
    BY <1>1, <1>4 DEF CancelRun, Become
  <2>2. /\ job'[h].op = "cancel" /\ job'[h].pc = "settle" /\ job'[h].value = "cancelled"
        /\ job'[h].rest = {}
    BY <2>1 DEF IdleJob
  <2> QED
    BY <2>2 DEF CallEnds, ExecPc
<1>5. ASSUME NEW a \in Agent, StopAgent(h, a) PROVE CallEnds(h)'
  <2>1. job'[h] = [IdleJob EXCEPT !.op = "stop", !.pc = "snapshot", !.agent = a,
                                  !.value = "cancelled"]
    BY <1>1, <1>5 DEF StopAgent, Become
  <2>2. /\ job'[h].op = "stop" /\ job'[h].pc = "snapshot" /\ job'[h].value = "cancelled"
        /\ job'[h].then = "idle"
    BY <2>1 DEF IdleJob
  <2> QED
    BY <2>2 DEF CallEnds, ExecPc, StopPc
<1>6. ASSUME NEW stale \in SUBSET RunId, ReapTick(h, stale) PROVE CallEnds(h)'
  <2>1. job'[h] = [IdleJob EXCEPT !.op = "reap", !.pc = "next", !.rest = stale,
                                  !.value = "failed"]
    BY <1>1, <1>6 DEF ReapTick, Become
  <2>2. job'[h].op = "reap" /\ job'[h].pc = "next" /\ job'[h].rest = stale
    BY <2>1 DEF IdleJob
  <2>3. ASSUME NEW r \in stale PROVE Dead(r)'
    <3>1. /\ r \in RunId /\ run[r].status = "running" /\ job[r].op = "idle"
          /\ \A a \in Agent : r \notin start[a].started \union {start[a].claimed}
      BY <1>6, <2>3 DEF ReapTick, Orphans
    <3>2. job[r] = IdleJob
      BY <3>1 DEF JobId, EndsInv, CallEnds
    <3>3. Dead(r)
      BY <3>1, <3>2 DEF Dead, Handled
    <3> QED
      BY <1>2, <3>1, <3>3
  <2> HIDE DEF Dead
  <2> QED
    BY <2>2, <2>3 DEF CallEnds, ExecPc
<1>7. CallEnds(h)'
  BY <1>3, <1>4, <1>5, <1>6 DEF Ticks
<1>8. \A a \in Agent : ClaimLives(a)'
  BY <1>1 DEF EndsInv, ClaimLives
<1> QED
  BY <1>1, <1>2, <1>7, <1>8, OthersKeepEnds DEF EndsInv, Takes

LEMMA InitEnds == Init => EndsInv
BY DEF Init, EndsInv, CallEnds, ClaimLives, Free, IdleJob, ExecPc

LEMMA NextEnds ==
  ASSUME MaxCrashes = 0, ~SlowRuns
  PROVE  TypeInv /\ CallInv /\ EndsInv /\ [Next]_vars => EndsInv'
<1> SUFFICES ASSUME TypeInv, CallInv, EndsInv, [Next]_vars PROVE EndsInv'
  OBVIOUS
<1>1. ASSUME UNCHANGED <<run, job, start>> PROVE EndsInv'
  BY <1>1 DEF EndsInv, CallEnds, ClaimLives, Dead, Handled
<1>2. ASSUME NEW a \in Agent, StartLoop(a) \/ ResumeAgent(a) PROVE EndsInv'
  BY <1>1, <1>2, ClaimEnds, LaunchEnds DEF StartLoop, ResumeAgent
<1>3. ASSUME NEW h \in Handler, Arrive(h) PROVE EndsInv'
  <2>1. ~Restart(h)
    BY DEF Restart, TypeInv, TypeOK
  <2> QED
    BY <1>3, <2>1, TicksEnd DEF Arrive, Ticks
<1>4. CASE UNCHANGED vars
  BY <1>1, <1>4 DEF vars
<1> QED
  BY <1>2, <1>3, <1>4, StepEnds, AcquireEnds DEF Next

LEMMA RequestsKept ==
  ASSUME RequestFollows,
         \A r \in RunId : run'[r].status \in Terminal =>
           run'[r].status = run[r].status /\ run'[r].wake = run[r].wake,
         \A k \in JobId : job[k].pc = "wakeup" => job'[k].pc = "wakeup" /\ job'[k].run = job[k].run,
         \A a \in Agent : start[a].claimed # 0 => start'[a].claimed = start[a].claimed
  PROVE  RequestFollows'
<1>1. ASSUME NEW r \in RunId, run'[r].status \in Terminal
      PROVE  \/ run'[r].wake \in Terminal
             \/ \E j \in JobId : job'[j].pc = "wakeup" /\ job'[j].run = r
             \/ \E a \in Agent : start'[a].claimed = r
             \/ run'[r].status = "cancelled" /\ run'[r].wake = "claimed"
  <2>1. r # 0 /\ run'[r].status = run[r].status /\ run'[r].wake = run[r].wake
    BY <1>1 DEF RunId
  <2> QED
    BY <1>1, <2>1 DEF RequestFollows
<1> QED
  BY <1>1 DEF RequestFollows

LEMMA SteadyRequests ==
  ASSUME RequestFollows, Steady, NEW j \in JobId, Takes(j), job[j].pc # "wakeup",
         \A a \in Agent : start[a].claimed # 0 => start'[a].claimed = start[a].claimed
  PROVE  RequestFollows'
<1>1. \A r \in RunId : run'[r].status \in Terminal =>
        run'[r].status = run[r].status /\ run'[r].wake = run[r].wake
  BY DEF Steady, Terminal
<1>2. \A k \in JobId : job[k].pc = "wakeup" => job'[k] = job[k]
  BY DEF Takes, OneCall
<1> QED
  BY <1>1, <1>2, RequestsKept

(* A call at the request's statement does nothing else.                      *)
LEMMA WakeupIsWritten ==
  ASSUME NEW j \in JobId, Step(j), job[j].pc = "wakeup" PROVE SetWakeupStatus(j)
BY DEF Step, Execute, Load, PreparationThrows, MarkAgentRunning, Spawn, AdapterReturns,
   AdapterThrows, RecordCost, SettleRun, SetRunStatus, Release, ReadAgent, WriteAgent, Serve,
   EnqueueOnIssue, Scan, InsertRun, Snapshot, NextOfSnapshot, At

(* A call writes in one row, r, a status or a request, and leaves the other  *)
(* rows and the start locks alone.                                           *)
LEMMA OneRequest ==
  ASSUME RequestFollows, UNCHANGED start, NEW j \in JobId, Takes(j), NEW q \in RunId,
         \A r \in RunId : r # q => run'[r] = run[r],
         job[j].pc = "wakeup" => job[j].run = q,
         \/ run'[q].wake \in Terminal
         \/ job'[j].pc = "wakeup" /\ job'[j].run = q
  PROVE  RequestFollows'
<1>1. ASSUME NEW r \in RunId, run'[r].status \in Terminal
      PROVE  \/ run'[r].wake \in Terminal
             \/ \E k \in JobId : job'[k].pc = "wakeup" /\ job'[k].run = r
             \/ \E a \in Agent : start'[a].claimed = r
             \/ run'[r].status = "cancelled" /\ run'[r].wake = "claimed"
  <2>1. CASE r = q
    BY <2>1
  <2>2. CASE r # q
    <3>1. run'[r] = run[r]
      BY <2>2
    <3>2. \A k \in JobId : job[k].pc = "wakeup" /\ job[k].run = r => job'[k] = job[k]
      BY <2>2 DEF Takes, OneCall
    <3> QED
      BY <1>1, <3>1, <3>2 DEF RequestFollows
  <2> QED
    BY <2>1, <2>2
<1> QED
  BY <1>1 DEF RequestFollows

LEMMA StepRequests ==
  ASSUME TypeInv, RequestFollows, NEW j \in JobId, Step(j) PROVE RequestFollows'
<1>1. Takes(j) /\ UNCHANGED start
  BY StepTakes
<1>2. CASE SetRunStatus(j)
  <2>1. job[j].pc = "settle"
    BY <1>2 DEF SetRunStatus, At
  <2> QED
    BY <1>1, <1>2, <2>1, StatusWritten, OneRequest
<1>3. CASE SetWakeupStatus(j)
  BY <1>1, <1>3, WakeupWritten, OneRequest
<1>4. CASE ~SetRunStatus(j) /\ ~SetWakeupStatus(j)
  <2>1. Steady
    BY <1>4, StepSteady
  <2>2. job[j].pc # "wakeup"
    BY <1>4, WakeupIsWritten
  <2> QED
    BY <1>1, <2>1, <2>2, SteadyRequests
<1> QED
  BY <1>2, <1>3, <1>4

(* The request of a run is claimed while the run is running or cancelled.    *)
LEMMA LoopRequests ==
  ASSUME TypeInv, CallInv, EndsInv, RequestFollows, NEW a \in Agent, StartLoop(a)
  PROVE  RequestFollows'
<1>1. start \in [Agent -> StartLock] /\ run \in [RunId -> Row] /\ start[a] \in StartLock
  BY DEF TypeInv, TypeOK
<1>2. CASE Claim(a)
  <2>1. PICK q \in start[a].picked :
          /\ run' = [run EXCEPT ![q].status = IF @ = "queued" THEN "running" ELSE @]
          /\ start' = [start EXCEPT ![a].picked = @ \ {q},
                                    ![a].claimed = IF run[q].status = "queued" THEN q ELSE 0]
    BY <1>2 DEF Claim
  <2>2. \A b \in Agent : start[b].claimed # 0 => start'[b].claimed = start[b].claimed
    BY <1>1, <1>2, <2>1 DEF Claim
  <2>3. ASSUME NEW r \in RunId, run'[r].status \in Terminal
        PROVE  run'[r].status = run[r].status /\ run'[r].wake = run[r].wake
    <3>1. CASE r # q
      BY <1>1, <2>1, <3>1
    <3>2. CASE r = q
      <4> DEFINE value == IF run[r].status = "queued" THEN "running" ELSE run[r].status
      <4>1. run'[r] = [run[r] EXCEPT !.status = value]
        BY <1>1, <2>1, <3>2
      <4>2. run'[r].status = value /\ run'[r].wake = run[r].wake
        BY <1>1, <4>1 DEF Row
      <4> QED
        BY <2>3, <4>2 DEF Terminal
    <3> QED
      BY <3>1, <3>2
  <2>4. job' = job
    BY <1>2 DEF Claim
  <2> QED
    BY <2>2, <2>3, <2>4, RequestsKept
<1>3. CASE MarkClaimed(a)
  <2> DEFINE q == start[a].claimed
  <2>1. q # 0 /\ q \in RunId /\ run[q].status \in {"running", "cancelled"} /\ job' = job
    BY <1>3, HandledRuns DEF MarkClaimed, Handled, EndsInv, ClaimLives
  <2>2. run'[q].status = run[q].status /\ run'[q].wake = "claimed"
    <3>1. run'[q] = [run[q] EXCEPT !.wake = "claimed"]
      BY <1>1, <1>3, <2>1 DEF MarkClaimed
    <3> QED
      BY <1>1, <2>1, <3>1 DEF Row
  <2>3. \A r \in RunId : r # q => run'[r] = run[r]
    BY <1>1, <1>3 DEF MarkClaimed
  <2>4. \A b \in Agent : b # a => start'[b] = start[b]
    BY <1>1, <1>3 DEF MarkClaimed
  <2> HIDE DEF q
  <2>5. ASSUME NEW r \in RunId, run'[r].status \in Terminal
        PROVE  \/ run'[r].wake \in Terminal
               \/ \E k \in JobId : job'[k].pc = "wakeup" /\ job'[k].run = r
               \/ \E b \in Agent : start'[b].claimed = r
               \/ run'[r].status = "cancelled" /\ run'[r].wake = "claimed"
    <3>1. CASE r = q
      BY <2>1, <2>2, <2>5, <3>1 DEF Terminal
    <3>2. CASE r # q
      <4>1. run'[r] = run[r]
        BY <2>3, <3>2
      <4>2. \A b \in Agent : start[b].claimed = r => start'[b].claimed = r
        BY <2>4, <3>2 DEF q
      <4> QED
        BY <2>1, <2>5, <4>1, <4>2 DEF RequestFollows
    <3> QED
      BY <3>1, <3>2
  <2> QED
    BY <2>5 DEF RequestFollows
<1>4. CASE Launch(a)
  <2>1. ASSUME NEW k \in JobId, job[k].pc = "wakeup" PROVE job'[k] = job[k]
    <3>1. k # start[a].by
      BY <1>4, <2>1 DEF Launch, CallInv, HolderWaits
    <3>2. k \notin start[a].started
      BY <2>1 DEF CallInv, HandledIsIdle, Handled, IdleJob
    <3> QED
      BY <1>4, <3>1, <3>2 DEF Launch
  <2>2. run' = run
    BY <1>4 DEF Launch, rows
  <2>3. \A b \in Agent : start[b].claimed # 0 => start'[b].claimed = start[b].claimed
    BY <1>1, <1>4 DEF Launch
  <2> QED
    BY <2>1, <2>2, <2>3, RequestsKept
<1> QED
  BY <1>2, <1>3, <1>4 DEF StartLoop

LEMMA InitRequests == Init => RequestFollows
BY DEF Init, RequestFollows, NoRun, Terminal

LEMMA NextRequests ==
  ASSUME MaxCrashes = 0
  PROVE  TypeInv /\ CallInv /\ EndsInv /\ RequestFollows /\ [Next]_vars => RequestFollows'
<1> SUFFICES ASSUME TypeInv, CallInv, EndsInv, RequestFollows, [Next]_vars PROVE RequestFollows'
  OBVIOUS
<1>1. ASSUME NEW j \in JobId, Acquire(j) PROVE RequestFollows'
  <2>1. Takes(j) /\ run' = run /\ job[j].pc # "wakeup"
    BY <1>1, AcquireTakes DEF Acquire, At
  <2>2. \A a \in Agent : start[a].claimed # 0 => start'[a].claimed = start[a].claimed
    <3>1. start \in [Agent -> StartLock]
      BY DEF TypeInv, TypeOK
    <3> QED
      BY <1>1, <3>1 DEF Acquire, EndsInv, ClaimLives
  <2> QED
    BY <2>1, <2>2, SameRunsSteady, SteadyRequests
<1>2. ASSUME NEW h \in Handler, Arrive(h) PROVE RequestFollows'
  <2>1. h \in JobId /\ ~Restart(h)
    BY HandlersAreNoRuns DEF Restart, TypeInv, TypeOK
  <2>2. Ticks(h)
    BY <1>2, <2>1 DEF Arrive, Ticks
  <2>3. job[h].pc # "wakeup"
    <3>1. job[h] = IdleJob
      BY <2>2 DEF Ticks, ReceiveWake, CancelRun, StopAgent, ReapTick
    <3> QED
      BY <3>1 DEF IdleJob
  <2> QED
    BY <2>1, <2>2, <2>3, TicksTake, SameRunsSteady, SteadyRequests
<1>3. ASSUME UNCHANGED <<run, job, start>> PROVE RequestFollows'
  BY <1>3 DEF RequestFollows
<1>4. ASSUME NEW a \in Agent, ResumeAgent(a) PROVE RequestFollows'
  BY <1>3, <1>4 DEF ResumeAgent
<1>5. CASE UNCHANGED vars
  BY <1>3, <1>5 DEF vars
<1> QED
  BY <1>1, <1>2, <1>4, <1>5, StepRequests, LoopRequests DEF Next

(* While the server stays up and no live run looks stale: the wakeup request *)
(* of a run has ended when nobody handles the run any more, whatever is      *)
(* cancelled, paused or reaped at any point; only a cancel that comes        *)
(* between the claim of the run and that of its request leaves it claimed.   *)
THEOREM RequestsEndWithRuns ==
  ASSUME MaxCrashes = 0, ~SlowRuns PROVE Spec => []WakeupEndsWithRun
<1>1. RequestFollows => WakeupEndsWithRun
  BY DEF RequestFollows, WakeupEndsWithRun, Done
<1> QED
  BY <1>1, InitTypes, NextTypes, InitCalls, NextCalls, InitEnds, NextEnds, InitRequests,
     NextRequests, PTL DEF Spec

-----------------------------------------------------------------------------
(* Whatever is mentioned, cancelled or restarted: a run that is over stays   *)
(* over, and a call that releases a run has seen to it that the run is over. *)

OverKept == \A r \in RunId : run[r].status \in Terminal => run'[r].status \in Terminal

SettledOver == \A j \in JobId : job[j].pc \in SettledPc => run[job[j].run].status \in Terminal

NoneSettles == \A j \in JobId : job'[j].pc \in SettledPc => job'[j] = job[j]

LEMMA SteadyKeepsOver == Steady => OverKept
BY DEF Steady, OverKept, Terminal

LEMMA StepKeepsOver == ASSUME TypeInv, NEW j \in JobId, Step(j) PROVE OverKept
<1>1. CASE SetRunStatus(j)
  BY <1>1, StatusWritten DEF OverKept
<1>2. CASE SetWakeupStatus(j)
  BY <1>2, WakeupWritten DEF OverKept
<1>3. CASE ~SetRunStatus(j) /\ ~SetWakeupStatus(j)
  BY <1>3, StepSteady, SteadyKeepsOver
<1> QED
  BY <1>1, <1>2, <1>3

LEMMA LoopKeepsOver == ASSUME TypeInv, NEW a \in Agent, StartLoop(a) PROVE OverKept
<1>1. CASE Launch(a)
  BY <1>1, SameRunsSteady, SteadyKeepsOver DEF Launch, rows
<1>2. CASE Claim(a) \/ MarkClaimed(a)
  <2> SUFFICES ASSUME NEW r \in RunId, run[r].status \in Terminal
               PROVE  run'[r].status \in Terminal
    BY DEF OverKept
  <2>1. run[r] \in Row /\ run \in [RunId -> Row] /\ run[r].status # "queued"
    BY DEF TypeInv, TypeOK, Terminal
  <2>2. CASE MarkClaimed(a)
    <3>1. run'[r] = run[r] \/ run'[r] = [run[r] EXCEPT !.wake = "claimed"]
      BY <2>1, <2>2 DEF MarkClaimed
    <3> QED
      BY <2>1, <3>1 DEF Row
  <2>3. CASE Claim(a)
    <3>1. PICK q \in start[a].picked :
            run' = [run EXCEPT ![q].status = IF @ = "queued" THEN "running" ELSE @]
      BY <2>3 DEF Claim
    <3>2. run'[r] = run[r] \/ run'[r] = [run[r] EXCEPT !.status = run[r].status]
      BY <2>1, <3>1
    <3> QED
      BY <2>1, <3>2 DEF Row
  <2> QED
    BY <1>2, <2>2, <2>3
<1> QED
  BY <1>1, <1>2 DEF StartLoop

LEMMA NextKeepsOver == TypeInv /\ [Next]_vars => OverKept
<1> SUFFICES ASSUME TypeInv, [Next]_vars PROVE OverKept
  OBVIOUS
<1>1. CASE UNCHANGED run
  BY <1>1, SameRunsSteady, SteadyKeepsOver
<1>2. ASSUME NEW h \in Handler, Arrive(h) PROVE UNCHANGED run
  BY <1>2 DEF Arrive, ReceiveWake, CancelRun, StopAgent, ReapTick, Restart, rows
<1> QED
  BY <1>1, <1>2, StepKeepsOver, LoopKeepsOver DEF Next, Acquire, ResumeAgent, rows, vars

(* A run that is over stays over, for any commands, restarts and failures:   *)
(* the claim is conditional, and only terminal statuses are written blindly. *)
THEOREM OverIsForGood == Spec => NoRunIsRevived
<1>1. TypeInv /\ [Next]_vars
        => [\A r \in RunId : run[r].status \in Terminal => run'[r].status \in Terminal]_vars
  BY NextKeepsOver DEF OverKept
<1> QED
  BY <1>1, InitTypes, NextTypes, PTL DEF Spec, NoRunIsRevived

LEMMA StepSettlesNone ==
  ASSUME TypeInv, NEW j \in JobId, Step(j), ~SetRunStatus(j), ~SetWakeupStatus(j)
  PROVE  NoneSettles
<1>1. CASE NoneComes
  BY <1>1 DEF NoneComes, NoneSettles, CarefulPc
<1>2. CASE EnqueueOnIssue(j)
  BY <1>1, <1>2, IdleComesNot, WakeComesNot DEF EnqueueOnIssue
<1>3. CASE InsertRun(j)
  BY <1>1, <1>3, WakeComesNot DEF InsertRun
<1>4. CASE Scan(j)
  <2>1. CASE Become(j, IdleJob)
    BY <1>1, <2>1, IdleComesNot
  <2>2. CASE Goto(j, "insert")
    <3>1. job \in [JobId -> Job]
      BY DEF TypeInv, TypeOK
    <3>2. job'[j].pc = "insert" /\ \A k \in JobId : k # j => job'[k] = job[k]
      BY <2>2, <3>1 DEF Goto, Job
    <3> QED
      BY <3>2 DEF NoneSettles, SettledPc
  <2> QED
    BY <1>4, <2>1, <2>2 DEF Scan
<1> QED
  BY <1>1, <1>2, <1>3, <1>4, ExecuteComesNot, ReleaseComesNot, FinalizeComesNot,
     SnapshotComesNot DEF Step, SettleRun, Serve

LEMMA ArriveSettlesNone ==
  ASSUME TypeInv, NEW h \in Handler, Arrive(h) PROVE NoneSettles
<1>1. CASE NoneComes
  BY <1>1 DEF NoneComes, NoneSettles, CarefulPc
<1>2. ASSUME NEW a \in Agent, NEW s \in Issue \union {NoIssue}, NEW k \in Kinds,
             ReceiveWake(h, a, s, k)
      PROVE  NoneSettles
  <2> DEFINE pc == IF s = NoIssue \/ k = "mention" THEN "scan" ELSE "enqueue"
             next == [IdleJob EXCEPT !.op = "wake", !.agent = a, !.issue = s, !.kind = k, !.pc = pc]
  <2>1. job' = [job EXCEPT ![h] = next] /\ job \in [JobId -> Job]
    BY <1>2 DEF ReceiveWake, Become, TypeInv, TypeOK
  <2>2. next.pc \in {"scan", "enqueue"}
    BY DEF IdleJob
  <2> HIDE DEF next
  <2>3. \A j \in JobId : job'[j] = IF j = h THEN next ELSE job[j]
    BY <2>1
  <2> QED
    BY <2>2, <2>3 DEF NoneSettles, SettledPc
<1> QED
  BY <1>1, <1>2, CommandComesNot DEF Arrive

LEMMA InitSettledOver == Init => SettledOver
BY DEF Init, SettledOver, SettledPc, IdleJob

LEMMA NextSettledOver == TypeInv /\ SettledOver /\ [Next]_vars => SettledOver'
<1> SUFFICES ASSUME TypeInv, SettledOver, [Next]_vars PROVE SettledOver'
  OBVIOUS
<1>1. ASSUME NEW k \in JobId, job[k].pc \in SettledPc
      PROVE  job[k].run \in RunId /\ run'[job[k].run].status \in Terminal
  BY <1>1, JobHas, RunHasAgent, NextKeepsOver DEF SettledOver, SettledPc, RunPc, JobFits, OverKept
<1>2. CASE NoneSettles
  BY <1>1, <1>2 DEF NoneSettles, SettledOver
<1>3. ASSUME NEW j \in JobId, SetRunStatus(j) PROVE SettledOver'
  <2>1. run'[job[j].run].status \in Terminal /\ job'[j].run = job[j].run
    BY <1>3, StatusWritten
  <2>2. \A k \in JobId : k # j => job'[k] = job[k]
    BY <1>3, StepTakes DEF Step, SettleRun, Takes, OneCall
  <2> QED
    BY <1>1, <2>1, <2>2 DEF SettledOver
<1>4. ASSUME NEW j \in JobId, SetWakeupStatus(j) PROVE SettledOver'
  <2>1. job[j].pc = "wakeup" /\ job \in [JobId -> Job] /\ Goto(j, "release")
    BY <1>4 DEF SetWakeupStatus, At, TypeInv, TypeOK
  <2>2. job'[j].run = job[j].run /\ \A k \in JobId : k # j => job'[k] = job[k]
    BY <2>1 DEF Goto, Job
  <2> QED
    BY <1>1, <2>1, <2>2 DEF SettledOver, SettledPc
<1>5. ASSUME NEW a \in Agent, StartLoop(a) PROVE SettledOver'
  BY <1>2, <1>5, LoopComesNot DEF NoneComes, NoneSettles, CarefulPc
<1>6. ASSUME NEW j \in JobId, Acquire(j) PROVE SettledOver'
  BY <1>2, <1>6, AcquireComesNot DEF NoneComes, NoneSettles, CarefulPc
<1>7. CASE UNCHANGED job
  BY <1>2, <1>7 DEF NoneSettles
<1> QED
  BY <1>2, <1>3, <1>4, <1>5, <1>6, <1>7, StepSettlesNone, ArriveSettlesNone
  DEF Next, ResumeAgent, vars

-----------------------------------------------------------------------------
(* The composition: what happens to one issue is what IssueCheckout expects. *)

LockFilled == \A s \in Issue : lock[s].run <= created

MeetInv == SettledOver /\ LockFilled

(* Inserted runs keep their agent and issue, and no run starts or ends.      *)
SameStages ==
  \A r \in RunId : /\ run'[r].agent = run[r].agent /\ run'[r].issue = run[r].issue
                   /\ run'[r].status \in Active <=> IsActive(r)

LEMMA RunParts ==
  ASSUME NEW x \in Runs
  PROVE  /\ x[1] \in RunId /\ x[2] \in Agent /\ x[3] \in Issue \union {NoIssue}
         /\ x = <<x[1], x[2], x[3]>>
BY DEF Runs

LEMMA KnownRun ==
  ASSUME TypeInv, NEW r \in RunId, run[r].status # "absent"
  PROVE  /\ RunNumber(r) = <<r, run[r].agent, run[r].issue>> /\ RunNumber(r) \in Runs
         /\ Stage(RunNumber(r)) = IF IsActive(r) THEN "live" ELSE "over"
<1>1. run[r] \in Row /\ run[r].agent \in Agent /\ r # 0
  BY MaxRunsType DEF TypeInv, TypeOK, RowsFilled, NoRun, RunId
<1>2. RunNumber(r) = <<r, run[r].agent, run[r].issue>>
  BY <1>1 DEF RunNumber
<1>3. RunNumber(r) \in Runs
  BY <1>1, <1>2 DEF Runs, Row
<1> QED
  BY <1>2, <1>3 DEF Stage

LEMMA StagesKept == ASSUME SameStages PROVE Stages' = Stages
<1> SUFFICES ASSUME NEW x \in Runs PROVE Stage(x)' = Stage(x)
  BY DEF Stages
<1> QED
  BY RunParts DEF Stage, SameStages, IsActive

LEMMA SeenKept ==
  ASSUME TypeInv, lock'[TheIssue] = lock[TheIssue],
         LET r == lock[TheIssue].run
         IN  r \in RunId => run'[r].agent = run[r].agent /\ run'[r].issue = run[r].issue
  PROVE  Seen' = Seen
<1>1. lock[TheIssue].run # 0 => lock[TheIssue].run \in RunId
  BY IssueAssumption, MaxRunsType DEF TypeInv, TypeOK, RunId
<1>2. RunNumber(lock[TheIssue].run)' = RunNumber(lock[TheIssue].run)
  BY <1>1 DEF RunNumber
<1> QED
  BY <1>2 DEF Seen

(* The lock as IssueCheckout sees it has moved to v.                         *)
LEMMA SeenMoves ==
  ASSUME NEW v, RunNumber(lock[TheIssue].run)' = v PROVE Seen' = [Seen EXCEPT !.lock = v]
<1> DEFINE St == {"todo"}
           Ag == {NoAgent}
           Us == {FALSE}
           Ch == {Nobody}
           Lo == {RunNumber(lock[TheIssue].run)}
<1>1. Seen' = [status |-> "todo", agent |-> NoAgent, user |-> FALSE, checkout |-> Nobody,
               lock |-> v]
  BY DEF Seen
<1>2. /\ Seen \in [status : St, agent : Ag, user : Us, checkout : Ch, lock : Lo]
      /\ Seen.status = "todo" /\ Seen.agent = NoAgent /\ Seen.user = FALSE
      /\ Seen.checkout = Nobody
  BY DEF Seen
<1> HIDE DEF St, Ag, Us, Ch, Lo
<1>3. [Seen EXCEPT !.lock = v] = [status |-> Seen.status, agent |-> Seen.agent,
                                  user |-> Seen.user, checkout |-> Seen.checkout, lock |-> v]
  BY <1>2
<1> QED
  BY <1>1, <1>2, <1>3

LEMMA StagesStutter ==
  ASSUME TypeInv, SameStages, lock'[TheIssue] = lock[TheIssue] PROVE UNCHANGED Checkout!vars
<1>1. Stages' = Stages /\ Seen' = Seen
  BY StagesKept, SeenKept DEF SameStages
<1> QED
  BY <1>1 DEF Checkout!vars, Quiet, Nobody

LEMMA SameRunsStages == UNCHANGED run => SameStages
BY DEF SameStages, IsActive

LEMMA UpdateStages ==
  ASSUME TypeInv, NEW q, NEW value,
         \/ run' = [run EXCEPT ![q].wake = value]
         \/ run' = [run EXCEPT ![q].answers = value]
         \/ /\ run' = [run EXCEPT ![q].status = value]
            /\ value \in Active <=> IsActive(q)
  PROVE  SameStages
<1> SUFFICES ASSUME NEW r \in RunId
             PROVE  /\ run'[r].agent = run[r].agent /\ run'[r].issue = run[r].issue
                    /\ run'[r].status \in Active <=> IsActive(r)
  BY DEF SameStages
<1>1. run[r] \in Row /\ run \in [RunId -> Row]
  BY DEF TypeInv, TypeOK
<1>2. CASE r # q
  BY <1>1, <1>2 DEF IsActive
<1>3. CASE r = q
  <2>1. \/ run'[r] = [run[r] EXCEPT !.wake = value]
        \/ run'[r] = [run[r] EXCEPT !.answers = value]
        \/ /\ run'[r] = [run[r] EXCEPT !.status = value]
           /\ value \in Active <=> IsActive(r)
    BY <1>1, <1>3
  <2> QED
    BY <1>1, <2>1 DEF Row, IsActive
<1> QED
  BY <1>2, <1>3

LEMMA ClaimStages ==
  ASSUME TypeInv, NEW a \in Agent, Claim(a) \/ MarkClaimed(a) PROVE SameStages
<1>1. CASE Claim(a)
  <2>1. PICK q \in start[a].picked :
          run' = [run EXCEPT ![q].status = IF @ = "queued" THEN "running" ELSE @]
    BY <1>1 DEF Claim
  <2> DEFINE value == IF run[q].status = "queued" THEN "running" ELSE run[q].status
  <2>2. run' = [run EXCEPT ![q].status = value] /\ (value \in Active <=> IsActive(q))
    BY <2>1 DEF IsActive, Active
  <2> HIDE DEF value
  <2> QED
    BY <2>2, UpdateStages
<1>2. CASE MarkClaimed(a)
  BY <1>2, UpdateStages DEF MarkClaimed
<1> QED
  BY <1>1, <1>2

(* The issue's run that is inserted was new, and is live; the others stay.   *)
LEMMA InsertStages ==
  ASSUME TypeInv, LockFilled, NEW a \in Agent, NEW s \in Issue \union {NoIssue}, Insert(a, s)
  PROVE  LET x == <<created + 1, a, s>>
         IN  /\ x \in Runs /\ \A r \in RunId : r = created + 1 => RunNumber(r)' = x
             /\ Stages[x] = "new" /\ Stages' = [Stages EXCEPT ![x] = "live"]
             /\ lock'[TheIssue] = lock[TheIssue] => Seen' = Seen
<1> DEFINE x == <<created + 1, a, s>>
           row == [agent |-> a, issue |-> s, status |-> "queued", wake |-> "queued",
                   answers |-> {a}]
<1>1. created + 1 \in RunId /\ created \in Nat /\ run \in [RunId -> Row] /\ RowsFilled
  BY InsertTypes, MaxRunsType DEF TypeInv, TypeOK
<1>2. run[created + 1].agent = NoAgent
  BY <1>1 DEF RowsFilled, NoRun
<1>3. run' = [run EXCEPT ![created + 1] = row] /\ row.agent = a /\ row.issue = s
      /\ row.status \in Active
  BY DEF Insert, Active
<1> HIDE DEF row
<1>4. /\ run'[created + 1] = row
      /\ \A r \in RunId : r # created + 1 => run'[r] = run[r]
  BY <1>1, <1>3
<1>5. x \in Runs
  BY <1>1 DEF Runs
<1>6. \A r \in RunId : r = created + 1 => RunNumber(r)' = x
  BY <1>1, <1>3, <1>4 DEF RunNumber
<1>7. Stages[x] = "new"
  BY <1>2, <1>5, SentinelAssumption DEF Stages, Stage
<1>8. ASSUME NEW y \in Runs PROVE Stage(y)' = IF y = x THEN "live" ELSE Stage(y)
  <2>1. CASE y = x
    BY <1>3, <1>4, <2>1 DEF Stage, IsActive
  <2>2. CASE y # x /\ y[1] = created + 1
    <3>1. y[2] # a \/ y[3] # s
      BY <2>2, RunParts
    <3>2. y[2] # NoAgent
      BY RunParts, SentinelAssumption
    <3> QED
      BY <1>2, <1>3, <1>4, <2>2, <3>1, <3>2 DEF Stage
  <2>3. CASE y[1] # created + 1
    <3>1. run'[y[1]] = run[y[1]] /\ y # x
      BY <1>4, <2>3, RunParts
    <3> QED
      BY <3>1 DEF Stage, IsActive
  <2> QED
    BY <2>1, <2>2, <2>3
<1>9. Stages' = [Stages EXCEPT ![x] = "live"]
  BY <1>5, <1>8 DEF Stages
<1>10. ASSUME lock'[TheIssue] = lock[TheIssue] PROVE Seen' = Seen
  <2>1. lock[TheIssue].run # created + 1
    BY <1>1, IssueAssumption DEF LockFilled, TypeInv, TypeOK
  <2> QED
    BY <1>4, <1>10, <2>1, SeenKept
<1> QED
  BY <1>5, <1>6, <1>7, <1>9, <1>10

(* The end of an active run, and nothing else, is one of IssueCheckout's.    *)
LEMMA EndsInStages ==
  ASSUME TypeInv, NEW j \in JobId, SetRunStatus(j) PROVE [Checkout!Next]_(Checkout!vars)
<1> DEFINE q == job[j].run
           x == RunNumber(q)
<1>1. /\ q \in RunId /\ job[j].value \in Terminal /\ job[j].value \notin Active
      /\ run \in [RunId -> Row] /\ lock' = lock
  BY StatusWritten DEF TypeInv, TypeOK, Terminal, Active, SetRunStatus
<1>2. run' = [run EXCEPT ![q].status = job[j].value]
  BY DEF SetRunStatus
<1>3. CASE ~IsActive(q)
  BY <1>1, <1>2, <1>3, UpdateStages, StagesStutter
<1>4. CASE IsActive(q)
  <2>1. run'[q] = [run[q] EXCEPT !.status = job[j].value] /\ run[q] \in Row
    BY <1>1, <1>2
  <2>2. run'[q].status = job[j].value /\ run'[q].agent = run[q].agent /\ run'[q].issue = run[q].issue
    BY <2>1 DEF Row
  <2>3. \A r \in RunId : r # q => run'[r] = run[r]
    BY <1>1, <1>2
  <2>4. x \in Runs /\ Stages[x] = "live" /\ x = <<q, run[q].agent, run[q].issue>>
    BY <1>1, <1>4, KnownRun DEF IsActive, Active, Stages
  <2> HIDE DEF q
  <2>5. ASSUME NEW y \in Runs PROVE Stage(y)' = IF y = x THEN "over" ELSE Stage(y)
    <3>1. CASE y[1] # q
      BY <2>3, <2>4, <3>1, RunParts DEF Stage, IsActive
    <3>2. CASE y[1] = q
      BY <1>1, <2>2, <2>4, <3>2, RunParts DEF Stage, IsActive
    <3> QED
      BY <3>1, <3>2
  <2>6. Stages' = [Stages EXCEPT ![x] = "over"]
    BY <2>4, <2>5 DEF Stages
  <2>7. Seen' = Seen
    BY <1>1, <2>2, <2>3, SeenKept
  <2>8. Checkout!EndRun(x)
    BY <2>4, <2>6, <2>7 DEF Checkout!EndRun, Quiet, Nobody
  <2> QED
    BY <2>4, <2>8 DEF Checkout!Next
<1> QED
  BY <1>3, <1>4

(* A run that does not ask for the lock of this issue.                       *)
LEMMA StartsUnlocked ==
  ASSUME TypeInv, LockFilled, NEW a \in Agent, NEW s \in Issue \union {NoIssue}, Insert(a, s),
         lock'[TheIssue] = lock[TheIssue]
  PROVE  Checkout!Next
<1> DEFINE x == <<created + 1, a, s>>
<1>1. x \in Runs /\ Stages[x] = "new" /\ Stages' = [Stages EXCEPT ![x] = "live"] /\ Seen' = Seen
  BY InsertStages
<1>2. Checkout!StartUnlocked(x)
  BY <1>1 DEF Checkout!StartUnlocked, Quiet, Nobody
<1> QED
  BY <1>1, <1>2 DEF Checkout!Next

(* Only an active run of the lock lives.                                     *)
LEMMA LockLives ==
  ASSUME TypeInv, MeetInv
  PROVE  Seen.lock \in Checkout!Live <=> LockRun(TheIssue) # 0
<1> DEFINE r == lock[TheIssue].run
<1>1. r \in 0..MaxRuns /\ Seen.lock = RunNumber(r)
  BY IssueAssumption DEF TypeInv, TypeOK, Seen
<1>2. CASE r = 0
  <2>1. Nobody \notin Runs
    BY MaxRunsType DEF Nobody, Runs, RunId
  <2> QED
    BY <1>1, <1>2, <2>1 DEF RunNumber, Checkout!Live, LockRun
<1>3. CASE r # 0
  <2>1. r \in RunId /\ r <= created
    BY <1>1, <1>3, IssueAssumption, MaxRunsType DEF RunId, MeetInv, LockFilled
  <2>2. RunNumber(r) \in Runs /\ Stage(RunNumber(r)) = IF IsActive(r) THEN "live" ELSE "over"
    BY <2>1, KnownRun DEF TypeInv, RowsFilled
  <2> QED
    BY <1>1, <1>3, <2>2 DEF Checkout!Live, Stages, LockRun
<1> QED
  BY <1>2, <1>3

(* The lock of the issue is given back by a run that is over.                *)
LEMMA ReleaseMeets ==
  ASSUME TypeInv, MeetInv, NEW j \in JobId, Release(j) PROVE [Checkout!Next]_(Checkout!vars)
<1> DEFINE q == job[j].run
           x == RunNumber(q)
<1>1. /\ q \in RunId /\ run[q].status \in Terminal
      /\ lock \in [Issue -> [run : 0..MaxRuns, name : Agent \union {NoAgent}]]
  BY RunHasAgent DEF Release, At, MeetInv, SettledOver, SettledPc, RunPc, TypeInv, TypeOK
<1>2. x \in Runs /\ Stages[x] = "over"
  BY <1>1, KnownRun DEF Terminal, IsActive, Active, Stages
<1> HIDE DEF q
<1>3. CASE UNCHANGED <<run, lock>>
  BY <1>3, SameRunsStages, StagesStutter
<1>4. ASSUME NEW s \in Issue, lock[s].run = q, FreeIssue(j, s)
      PROVE  [Checkout!Next]_(Checkout!vars)
  <2>1. run' = run /\ lock' = [lock EXCEPT ![s] = Unlocked]
    BY <1>4 DEF FreeIssue
  <2>2. CASE s # TheIssue
    <3>1. lock'[TheIssue] = lock[TheIssue]
      BY <1>1, <2>1, <2>2, IssueAssumption
    <3> QED
      BY <2>1, <3>1, SameRunsStages, StagesStutter
  <2>3. CASE s = TheIssue
    <3>1. Seen.lock = x
      BY <1>4, <2>3 DEF Seen
    <3>2. RunNumber(lock[TheIssue].run)' = Nobody
      BY <1>1, <2>1, <2>3, IssueAssumption DEF Unlocked, RunNumber
    <3>3. Seen' = [Seen EXCEPT !.lock = Nobody]
      BY <3>2, SeenMoves
    <3>4. Stages' = Stages
      BY <2>1, SameRunsStages, StagesKept
    <3>5. Checkout!Settle(x)
      BY <1>2, <3>1, <3>3, <3>4 DEF Checkout!Settle, Quiet, Nobody
    <3> QED
      BY <1>2, <3>5 DEF Checkout!Next
  <2> QED
    BY <2>2, <2>3
<1>5. ASSUME NEW s \in Issue, lock[s].run = q, NEW i \in Invokable(s), Promote(j, s, i)
      PROVE  Checkout!Next
  <2> DEFINE a == deferred[s][i]
             n == created + 1
             y == <<n, a, s>>
  <2>1. a \in Agent
    BY DEF Invokable, TypeInv, TypeOK
  <2>2. Insert(a, s) /\ lock' = [lock EXCEPT ![s] = [run |-> n, name |-> a]]
    BY <1>5 DEF Promote
  <2>3. n \in RunId
    BY <2>1, <2>2, InsertTypes
  <2> HIDE DEF a
  <2>4. CASE s # TheIssue
    <3>1. lock'[TheIssue] = lock[TheIssue]
      BY <1>1, <2>2, <2>4, IssueAssumption
    <3> QED
      BY <2>1, <2>2, <3>1, StartsUnlocked DEF MeetInv
  <2>5. CASE s = TheIssue
    <3>1. Seen.lock = x
      BY <1>4, <1>5, <2>5 DEF Seen
    <3>2. y \in Runs /\ Stages[y] = "new" /\ Stages' = [Stages EXCEPT ![y] = "live"]
          /\ RunNumber(lock[TheIssue].run)' = y
      <4>1. lock'[TheIssue].run = n
        BY <1>1, <2>2, <2>5, IssueAssumption
      <4>2. \A r \in RunId : r = n => RunNumber(r)' = y
        BY <2>1, <2>2, InsertStages DEF MeetInv
      <4>3. RunNumber(lock[TheIssue].run)' = y
        BY <2>3, <4>1, <4>2 DEF RunNumber
      <4> QED
        BY <2>1, <2>2, <4>3, InsertStages DEF MeetInv
    <3>3. Seen' = [Seen EXCEPT !.lock = y]
      BY <3>2, SeenMoves
    <3>4. Checkout!Settle(x)
      <4>1. y[3] = TheIssue
        BY <2>5
      <4> HIDE DEF y
      <4> QED
        BY <1>2, <3>1, <3>2, <3>3, <4>1 DEF Checkout!Settle, Quiet, Nobody
    <3> QED
      BY <1>2, <3>4 DEF Checkout!Next
  <2> QED
    BY <2>4, <2>5
<1> QED
  BY <1>3, <1>4, <1>5 DEF Release, q

(* A wake for an issue, whatever runs there are: the lock's run is active,   *)
(* another run on the issue gets the lock, or a new run does.                *)
LEMMA EnqueueMeets ==
  ASSUME TypeInv, NEW h \in JobId, EnqueueOnIssue(h)
  PROVE  LET s == job[h].issue
             a == job[h].agent
         IN  /\ s \in Issue /\ a \in Agent
             /\ \/ /\ LockRun(s) # 0 /\ UNCHANGED <<lock, created>>
                   /\ run' = run \/ \E r : Coalesce(r, a)
                \/ \E q \in RunId :
                     /\ LockRun(s) = 0 /\ IsActive(q) /\ run[q].issue = s
                     /\ lock' = [lock EXCEPT ![s] = [run |-> q, name |-> run[q].agent]]
                     /\ created' = created
                     /\ run' = run \/ \E r : Coalesce(r, a)
                \/ /\ LockRun(s) = 0 /\ \A r \in RunId : IsActive(r) => run[r].issue # s
                   /\ Insert(a, s)
                   /\ lock' = [lock EXCEPT ![s] = [run |-> created + 1, name |-> a]]
<1> DEFINE s == job[h].issue
           a == job[h].agent
           owner == IF LockRun(s) # 0 THEN LockRun(s) ELSE LegacyRun(s)
           all   == {r \in ActiveRuns : run[r].issue = s}
           first == {r \in all : run[r].status = "running"}
           pool  == IF first # {} THEN first ELSE all
<1>1. a \in Agent /\ s \in Issue
  BY JobHas DEF EnqueueOnIssue, At, JobFits
<1>2. LegacyRun(s) = IF pool = {} THEN 0 ELSE CHOOSE r \in pool : \A q \in pool : r <= q
  BY DEF LegacyRun
<1>3. pool \subseteq all /\ (pool = {} => all = {}) /\ all \subseteq RunId
  BY DEF ActiveRuns
<1>4. pool # {} => LegacyRun(s) \in pool
  <2> HIDE DEF pool
  <2> SUFFICES ASSUME pool # {} PROVE LegacyRun(s) \in pool
    OBVIOUS
  <2>1. pool \subseteq Nat
    BY <1>3, RunIdsFinite
  <2>2. \E r \in pool : \A q \in pool : r <= q
    BY <2>1, LeastNatural
  <2> QED
    BY <1>2, <2>2
<1>5. LegacyRun(s) # 0 => LegacyRun(s) \in all
  <2> HIDE DEF pool, all
  <2> QED
    BY <1>2, <1>3, <1>4
<1>6. LegacyRun(s) = 0 => \A r \in RunId : IsActive(r) => run[r].issue # s
  <2>1. LegacyRun(s) = 0 => all = {}
    <3> HIDE DEF pool, all
    <3>1. 0 \notin all
      BY <1>3, MaxRunsType DEF RunId
    <3> QED
      BY <1>3, <1>4, <3>1
  <2> QED
    BY <2>1 DEF ActiveRuns
<1>7. LegacyRun(s) # 0 =>
        LegacyRun(s) \in RunId /\ IsActive(LegacyRun(s)) /\ run[LegacyRun(s)].issue = s
  BY <1>5 DEF ActiveRuns
<1> HIDE DEF pool, first, all
<1>8. CASE /\ owner # 0 /\ created' = created
           /\ lock' = IF LockRun(s) # 0 THEN lock
                      ELSE [lock EXCEPT ![s] = [run |-> owner, name |-> run[owner].agent]]
           /\ run' = run \/ \E r : Coalesce(r, a)
  <2>1. CASE LockRun(s) # 0
    BY <1>1, <1>8, <2>1
  <2>2. CASE LockRun(s) = 0
    BY <1>1, <1>7, <1>8, <2>2
  <2> QED
    BY <2>1, <2>2
<1>9. CASE /\ owner = 0 /\ Insert(a, s)
           /\ lock' = [lock EXCEPT ![s] = [run |-> created + 1, name |-> a]]
  BY <1>1, <1>6, <1>9
<1> QED
  BY <1>8, <1>9 DEF EnqueueOnIssue

LEMMA CoalesceStages == ASSUME TypeInv, NEW r, NEW a, Coalesce(r, a) PROVE SameStages
BY UpdateStages DEF Coalesce

LEMMA WakeMeets ==
  ASSUME TypeInv, MeetInv, NEW h \in JobId, EnqueueOnIssue(h)
  PROVE  [Checkout!Next]_(Checkout!vars)
<1> DEFINE s == job[h].issue
           a == job[h].agent
           n == created + 1
           y == <<n, a, s>>
<1>1. /\ s \in Issue /\ a \in Agent
      /\ lock \in [Issue -> [run : 0..MaxRuns, name : Agent \union {NoAgent}]]
  BY EnqueueMeets DEF TypeInv, TypeOK
<1> HIDE DEF s, a
<1>2. CASE /\ lock'[TheIssue] = lock[TheIssue]
           /\ run' = run \/ \E r : Coalesce(r, a)
  BY <1>2, SameRunsStages, CoalesceStages, StagesStutter
<1>3. ASSUME NEW q \in RunId, LockRun(s) = 0, IsActive(q), run[q].issue = s,
             lock' = [lock EXCEPT ![s] = [run |-> q, name |-> run[q].agent]],
             run' = run \/ \E r : Coalesce(r, a), s = TheIssue
      PROVE  Checkout!Next
  <2> DEFINE x == RunNumber(q)
  <2>1. x = <<q, run[q].agent, s>> /\ x \in Runs /\ Stages[x] = "live"
    BY <1>3, KnownRun DEF IsActive, Active, Stages
  <2>2. SameStages
    BY <1>3, SameRunsStages, CoalesceStages
  <2>3. Stages' = Stages /\ Stages = [Stages EXCEPT ![x] = "live"]
    BY <2>1, <2>2, StagesKept DEF Stages
  <2>4. RunNumber(lock[TheIssue].run)' = x
    <3>1. lock'[TheIssue].run = q /\ q # 0
      BY <1>1, <1>3, MaxRunsType DEF RunId
    <3> QED
      BY <2>2, <3>1 DEF RunNumber, SameStages
  <2>5. Seen' = [Seen EXCEPT !.lock = x]
    BY <2>4, SeenMoves
  <2>6. Seen.lock \notin Checkout!Live
    BY <1>3, LockLives
  <2>7. x[3] = TheIssue
    BY <1>3, <2>1
  <2> HIDE DEF x
  <2>8. Seen.status # "gone"
    BY DEF Seen
  <2>9. Checkout!Wake(x)
    BY <2>1, <2>3, <2>5, <2>6, <2>7, <2>8
    DEF Checkout!Wake, Checkout!Exists, Quiet, Nobody
  <2> QED
    BY <2>1, <2>9 DEF Checkout!Next
<1>4. CASE /\ LockRun(s) = 0 /\ \A r \in RunId : IsActive(r) => run[r].issue # s
           /\ Insert(a, s)
           /\ lock' = [lock EXCEPT ![s] = [run |-> n, name |-> a]]
  <2>1. CASE s # TheIssue
    <3>1. lock'[TheIssue] = lock[TheIssue]
      BY <1>1, <1>4, <2>1, IssueAssumption
    <3> QED
      BY <1>1, <1>4, <3>1, StartsUnlocked DEF MeetInv
  <2>2. CASE s = TheIssue
    <3>1. n \in RunId
      BY <1>1, <1>4, InsertTypes
    <3>2. y \in Runs /\ Stages[y] = "new" /\ Stages' = [Stages EXCEPT ![y] = "live"]
          /\ \A r \in RunId : r = n => RunNumber(r)' = y
      BY <1>1, <1>4, InsertStages DEF MeetInv
    <3>3. RunNumber(lock[TheIssue].run)' = y
      <4>1. lock'[TheIssue].run = n
        BY <1>1, <1>4, <2>2
      <4> QED
        BY <3>1, <3>2, <4>1 DEF RunNumber
    <3>4. Seen' = [Seen EXCEPT !.lock = y] /\ Seen.status # "gone"
      BY <3>3, SeenMoves DEF Seen
    <3>5. Seen.lock \notin Checkout!Live
      BY <1>4, <2>2, LockLives
    <3>6. ASSUME NEW x \in Runs, x[3] = TheIssue PROVE Stages[x] # "live"
      BY <1>4, <2>2, <3>6, RunParts DEF Stages, Stage
    <3>7. {x \in Runs : x[3] = TheIssue} \intersect Checkout!Live = {}
      BY <3>6 DEF Checkout!Live
    <3>8. y[3] = TheIssue
      BY <2>2
    <3> HIDE DEF y
    <3>9. Checkout!Wake(y)
      BY <3>2, <3>4, <3>5, <3>7, <3>8 DEF Checkout!Wake, Checkout!Exists, Quiet, Nobody
    <3> QED
      BY <3>2, <3>9 DEF Checkout!Next
  <2> QED
    BY <2>1, <2>2
<1>5. ASSUME NEW q, lock' = [lock EXCEPT ![s] = q], s # TheIssue
      PROVE  lock'[TheIssue] = lock[TheIssue]
  BY <1>1, <1>5, IssueAssumption
<1> QED
  BY <1>2, <1>3, <1>4, <1>5, EnqueueMeets DEF s, a

LEMMA StepMeets ==
  ASSUME TypeInv, MeetInv, NEW j \in JobId, Step(j) PROVE [Checkout!Next]_(Checkout!vars)
<1>1. CASE Execute(j) \/ ReadAgent(j) \/ WriteAgent(j) \/ Snapshot(j) \/ NextOfSnapshot(j)
  <2>1. UNCHANGED <<run, lock>>
    BY <1>1
    DEF Execute, Load, PreparationThrows, MarkAgentRunning, Spawn, AdapterReturns, AdapterThrows,
        RecordCost, ReadAgent, WriteAgent, Snapshot, NextOfSnapshot, rows
  <2> QED
    BY <2>1, SameRunsStages, StagesStutter
<1>2. CASE SetWakeupStatus(j)
  BY <1>2, UpdateStages, StagesStutter DEF SetWakeupStatus
<1>3. CASE Scan(j)
  <2>1. lock' = lock /\ (run' = run \/ \E r : Coalesce(r, job[j].agent))
    BY <1>3 DEF Scan
  <2> QED
    BY <2>1, SameRunsStages, CoalesceStages, StagesStutter
<1>4. CASE InsertRun(j)
  <2>1. job[j].agent \in Agent /\ job[j].issue \in Issue \union {NoIssue}
    BY <1>4, JobHas DEF InsertRun, At, JobFits, Job
  <2> QED
    BY <1>4, <2>1, StartsUnlocked DEF InsertRun, MeetInv
<1> QED
  BY <1>1, <1>2, <1>3, <1>4, EndsInStages, ReleaseMeets, WakeMeets DEF Step, SettleRun, Serve

LEMMA NextMeets == TypeInv /\ MeetInv /\ [Next]_vars => [Checkout!Next]_(Checkout!vars)
<1> SUFFICES ASSUME TypeInv, MeetInv, [Next]_vars PROVE [Checkout!Next]_(Checkout!vars)
  OBVIOUS
<1>1. CASE UNCHANGED <<run, lock>>
  BY <1>1, SameRunsStages, StagesStutter
<1>2. ASSUME NEW a \in Agent, StartLoop(a) PROVE [Checkout!Next]_(Checkout!vars)
  <2>1. CASE Launch(a)
    BY <1>1, <2>1 DEF Launch, rows
  <2>2. CASE Claim(a) \/ MarkClaimed(a)
    BY <2>2, ClaimStages, StagesStutter DEF Claim, MarkClaimed
  <2> QED
    BY <1>2, <2>1, <2>2 DEF StartLoop
<1>3. ASSUME NEW h \in Handler, Arrive(h) PROVE UNCHANGED <<run, lock>>
  BY <1>3 DEF Arrive, ReceiveWake, CancelRun, StopAgent, ReapTick, Restart, rows
<1>4. ASSUME (\E j \in JobId : Acquire(j)) \/ (\E a \in Agent : ResumeAgent(a))
      PROVE  UNCHANGED <<run, lock>>
  BY <1>4 DEF Acquire, ResumeAgent, rows
<1> QED
  BY <1>1, <1>2, <1>3, <1>4, StepMeets DEF Next, vars

(* A lock names an inserted run: one just inserted, or an active one.        *)
LEMMA LockFills ==
  ASSUME TypeInv, LockFilled, NEW s \in Issue, NEW n \in Nat, NEW a,
         lock' = [lock EXCEPT ![s] = [run |-> n, name |-> a]],
         n <= created', created' = created \/ created' = created + 1
  PROVE  LockFilled'
<1>1. lock \in [Issue -> [run : 0..MaxRuns, name : Agent \union {NoAgent}]] /\ created \in Nat
  BY DEF TypeInv, TypeOK
<1> SUFFICES ASSUME NEW z \in Issue PROVE lock'[z].run <= created'
  BY DEF LockFilled
<1>2. CASE z = s
  <2>1. lock'[z].run = n
    BY <1>1, <1>2
  <2> QED
    BY <2>1
<1>3. CASE z # s
  <2>1. lock'[z] = lock[z] /\ lock[z].run \in 0..MaxRuns /\ lock[z].run <= created
    BY <1>1, <1>3 DEF LockFilled
  <2> QED
    BY <1>1, <2>1, MaxRunsType
<1> QED
  BY <1>2, <1>3

LEMMA SameLockFills ==
  ASSUME TypeInv, LockFilled, lock' = lock, created' = created \/ created' = created + 1
  PROVE  LockFilled'
<1>1. \A s \in Issue : lock[s].run \in 0..MaxRuns
  BY DEF TypeInv, TypeOK
<1>2. created \in Nat
  BY DEF TypeInv, TypeOK
<1> QED
  BY <1>1, <1>2, MaxRunsType DEF LockFilled

LEMMA NextFills == TypeInv /\ LockFilled /\ [Next]_vars => LockFilled'
<1> SUFFICES ASSUME TypeInv, LockFilled, [Next]_vars PROVE LockFilled'
  OBVIOUS
<1>1. created \in Nat
  BY DEF TypeInv, TypeOK
<1>2. CASE UNCHANGED <<lock, created>>
  BY <1>2, SameLockFills
<1>3. ASSUME NEW j \in JobId, Release(j) PROVE LockFilled'
  <2>1. ASSUME NEW s \in Issue, FreeIssue(j, s) PROVE LockFilled'
    <3>1. lock' = [lock EXCEPT ![s] = [run |-> 0, name |-> NoAgent]] /\ created' = created
      BY <2>1 DEF FreeIssue, Unlocked
    <3>2. 0 \in Nat /\ 0 <= created'
      BY <1>1, <3>1
    <3> QED
      BY <3>1, <3>2, LockFills
  <2>2. ASSUME NEW s \in Issue, NEW i, Promote(j, s, i) PROVE LockFilled'
    <3>1. created' = created + 1 /\ created + 1 \in Nat
      BY <1>1, <2>2 DEF Promote, Insert
    <3>2. lock' = [lock EXCEPT ![s] = [run |-> created + 1, name |-> deferred[s][i]]]
      BY <2>2 DEF Promote
    <3>3. created + 1 <= created'
      BY <3>1
    <3> QED
      BY <3>1, <3>2, <3>3, LockFills
  <2> QED
    BY <1>2, <1>3, <2>1, <2>2 DEF Release
<1>4. ASSUME NEW j \in JobId, EnqueueOnIssue(j) PROVE LockFilled'
  <2> DEFINE s == job[j].issue
             a == job[j].agent
  <2>1. s \in Issue
    BY <1>4, EnqueueMeets
  <2>2. ASSUME NEW q \in RunId, IsActive(q), created' = created,
               lock' = [lock EXCEPT ![s] = [run |-> q, name |-> run[q].agent]]
        PROVE  LockFilled'
    <3>1. q <= created /\ q \in Nat
      BY <2>2, RunIdsFinite DEF TypeInv, RowsFilled, NoRun, IsActive, Active
    <3> QED
      BY <1>1, <2>1, <2>2, <3>1, LockFills
  <2>3. CASE /\ Insert(a, s)
             /\ lock' = [lock EXCEPT ![s] = [run |-> created + 1, name |-> a]]
    <3>1. created' = created + 1 /\ created + 1 \in Nat
      BY <1>1, <2>3 DEF Insert
    <3>2. created + 1 <= created'
      BY <3>1
    <3> QED
      BY <2>1, <2>3, <3>1, <3>2, LockFills
  <2> QED
    BY <1>2, <1>4, <2>2, <2>3, EnqueueMeets
<1>5. ASSUME NEW j \in JobId, InsertRun(j) PROVE LockFilled'
  BY <1>5, SameLockFills DEF InsertRun, Insert
<1>6. ASSUME NEW j \in JobId, Step(j), ~Release(j), ~EnqueueOnIssue(j), ~InsertRun(j)
      PROVE  UNCHANGED <<lock, created>>
  BY <1>6
  DEF Step, SettleRun, Serve, Execute, Load, PreparationThrows, MarkAgentRunning, Spawn,
      AdapterReturns, AdapterThrows, RecordCost, SetRunStatus, SetWakeupStatus, ReadAgent,
      WriteAgent, Scan, Snapshot, NextOfSnapshot, rows
<1>7. ASSUME NEW h \in Handler, Arrive(h) PROVE UNCHANGED <<lock, created>>
  BY <1>7 DEF Arrive, ReceiveWake, CancelRun, StopAgent, ReapTick, Restart, rows
<1>8. ASSUME NEW a \in Agent, StartLoop(a) \/ ResumeAgent(a) PROVE UNCHANGED <<lock, created>>
  BY <1>8 DEF StartLoop, Claim, MarkClaimed, Launch, ResumeAgent, rows
<1>9. ASSUME NEW j \in JobId, Acquire(j) PROVE UNCHANGED <<lock, created>>
  BY <1>9 DEF Acquire, rows
<1> QED
  BY <1>2, <1>3, <1>4, <1>5, <1>6, <1>7, <1>8, <1>9 DEF Next, vars

LEMMA InitMeet == Init => MeetInv
<1>1. Init => LockFilled
  BY DEF Init, LockFilled, Unlocked
<1> QED
  BY <1>1, InitSettledOver DEF MeetInv

LEMMA NextMeet == TypeInv /\ MeetInv /\ [Next]_vars => MeetInv'
BY NextSettledOver, NextFills DEF MeetInv

(* At first the issue is nobody's and every run is still to come.            *)
LEMMA InitMeets == Init => Checkout!Init
<1> SUFFICES ASSUME Init PROVE Checkout!Init
  OBVIOUS
<1>1. Seen = [status |-> "todo", agent |-> NoAgent, user |-> FALSE, checkout |-> Nobody,
              lock |-> Nobody]
  BY IssueAssumption DEF Init, Seen, Unlocked, RunNumber
<1>2. ASSUME NEW x \in Runs PROVE Stage(x) = "new"
  <2>1. run[x[1]].agent = NoAgent
    BY RunParts DEF Init, NoRun
  <2> QED
    BY <2>1, RunParts, SentinelAssumption DEF Stage
<1>3. Stages = [x \in Runs |-> "new"]
  BY <1>2 DEF Stages
<1>4. Quiet = [c \in Checkout!Caller |-> Checkout!Idle]
  BY DEF Quiet, Checkout!Caller, Checkout!Idle, Checkout!NoPatch
<1>5. Seen \in {i \in Checkout!IssueRow :
                  /\ i.status # "gone" /\ i.checkout = Nobody /\ i.lock = Nobody
                  /\ i.agent = NoAgent \/ ~i.user
                  /\ i.status = "in_progress" => i.agent # NoAgent \/ i.user}
  BY <1>1 DEF Checkout!IssueRow, Checkout!Status, Checkout!Assignee, Checkout!Holder
<1> QED
  BY <1>3, <1>4, <1>5 DEF Checkout!Init, Quiet, Nobody

(* Whatever is mentioned, cancelled, paused or restarted, the orchestration  *)
(* does to an issue's lock and runs only what the calls on an issue reckon   *)
(* with: what IssueCheckout assumes of heartbeat.ts is what heartbeat.ts     *)
(* does, for every issue.                                                    *)
THEOREM RunsMeetCheckout == Spec => ImplementsCheckout
BY InitTypes, NextTypes, InitMeet, NextMeet, InitMeets, NextMeets, PTL
DEF Spec, ImplementsCheckout, Checkout!Spec
=============================================================================
