# Verification of the OpenSens agent swarm

TLA+ modules of the parts of this repository whose correctness depends on the
order in which things happen, with model checking runs (TLC) and proofs (TLAPS).
Paths are relative to the repository root; `services/` stands for
`paperclip/server/src/services/`.

    tlc -config heartbeat_gate.cfg MCHeartbeatRuns     # a run
    tlapm HeartbeatRunsProofs.tla                      # the proofs of a module

## 1. Inventory

The repository holds five programs that talk over HTTP, WebSockets, Redis and files.

**paperclip** (TypeScript, `paperclip/`) is the control plane: one server process
with a PostgreSQL database, a web interface and a CLI. It keeps companies, agents,
issues, approvals and costs, and *runs* agents: it starts an adapter (a command line
agent, a gateway) when something wakes an agent. Handlers are asynchronous
functions: between two awaited statements any other handler, timer or callback may
step in, and most statements are single autocommitted SQL statements.

**core** (Python, `core/oas_core/`) is a library for the leader node: campaigns of
research steps, plan files, a task queue over the nodes of the cluster, model
routing, middleware for governance, budgets and audit, memory, knowledge, RL.

**cluster** (Python, `cluster/agents/`) has the agents: the leader (dispatch,
orchestrator, plan watcher, KAIROS daemon) and the academic and experiment nodes,
which receive commands from it.

**office** (React, `office/src/`) displays agents and events; **sdk** and
**scripts** are clients.

Interactions: paperclip starts agents and they call its REST interface back (check
out an issue, comment, report cost); the leader creates issues and approvals in
paperclip and polls them (`middleware/governance.py`); components publish DRVP
events through Redis, which paperclip's issue linker and the office consume; the
leader reads plan files from a directory that the boss writes.

| Component | State it keeps | Operations | What is hard | What makes it correct |
|---|---|---|---|---|
| heartbeat: runs and wakeups (`services/heartbeat.ts`, timers in `paperclip/server/src/index.ts`) | rows of runs, wakeups, issues' execution lock, agents' status; in memory: calls in progress, start locks, child processes | enqueueWakeup, startNextQueuedRunForAgent, claimQueuedRun, executeRun, releaseIssueExecutionAndPromote, finalizeAgentStatus, cancelRun, cancelActiveForAgent, reapOrphanedRuns, agent routes | every await is an interleaving point; restart in the middle; two reapers; pause and cancel race with executions | at most maxConcurrentRuns running per agent; one owner per issue; deferred wakes neither lost nor reordered; runs end; pause holds |
| approvals (`services/approvals.ts`, `services/agents.ts`) | approval and agent status | approve, reject, requestRevision, resubmit, activatePendingApproval; pause, resume, terminate, remove of the agent | read-then-write, effects after the decision | a decision is final and its effect happens once; what is terminated is not brought back; no hire without approval |
| workspace runtime services (`services/workspace-runtime.ts`) | three maps in memory: services by id, by reuse key, leases by run; child processes; timers | ensureRuntimeServicesForRun, releaseRuntimeServicesForRun, stopRuntimeService, idle timer, exit of the child | lookup and registration an await apart; timers and exits between statements; failing statements | a leased service is kept; an unleased one ends; the index is right; one service per key |
| issues (`services/issues.ts`, `routes/issues.ts`) | status, assignee, checkout run, execution run | checkout, adoptStaleCheckoutRun, assertCheckoutOwner, release, update, remove | conditional and unconditional updates side by side; shares the lock row with the heartbeat | only a run that is over is replaced; the checkout goes with the lock; no checkout without work in progress |
| costs (`services/costs.ts`) | spent cents of agents and companies | createEvent | read and pause in two statements | an exhausted budget pauses the agent |
| DRVP linker (`services/drvp-issue-linker.ts`, `drvp-bridge.ts`) | map of requests to issues | one handler per event type | events of one request overlap; restart | one issue per request |
| other paperclip services, UI, CLI, adapters, live events | rows | create, read, update, delete | none beyond a statement | validation |
| campaign engine (`core/oas_core/campaign.py`) | status of each step | execute: cycle check, ready steps, cascade, semaphore, retries, timeout | parallel steps, cascade after a round, retry of a step that still runs remotely | a step runs after its dependencies; the campaign ends; failure reaches all dependents and nothing else |
| campaign journal (`campaign_journal.py`) | hash chain in a file | record, verify | torn last line, two writers | the chain verifies |
| plan files (`plan_watcher.py`, `leader/plan_watcher_service.py`, `leader/orchestrator.py`) | observed, claimed, dirty paths; receipts | scan, scan_once, handle_task, mark_dirty | files that change while in hand; scans that overlap; restart before the receipt | a claim is forgotten only by a scan that raised; a plan is executed again only for a reason |
| task queue and scheduler (`scheduler/`) | queues by priority, inflight entries, DLQ; nodes, leases | enqueue, dequeue, ack, nack; heartbeat, lease, rebalance | crash between pop and inflight; expiry; retries | no task is lost, none runs on two nodes |
| governance and budget middleware (`middleware/`) | none of its own | request approval and poll, check budget, report cost | timeout against a late decision; check then spend | no campaign without the approval of this very plan |
| model router, decision engine | daily counters | choose a tier | thresholds | budget caps |
| KAIROS, webhooks, dispatch, orchestrator, node bridge | little | loops and forwarding | retries, lost messages | at least once |
| memory, knowledge, lineage, research, evaluation, RL, turbo_quant | stores, files, numbers | pipelines | numerics | out of scope |
| office (`office/src/`) | clients, sockets, pending requests, stores | connect, handshake, reconnect, request, cleanup; reduce events | sockets that close while a timer, an answer or a cleanup is on its way | one line to the gateway and never none; no request waits for a lost connection; the status shown is so |

`PROJECT.json` lists every part with its sources, whether it is modelled, and the
hazards of the code, each at its line.

## 2. Modules

    IssueGate  <--implements--  HeartbeatRuns  <-- MCHeartbeatRuns (TLC)
                                      ^---------- HeartbeatRunsProofs <-- IssueOwnerProofs
    IssueCheckout <--implements-- IssueRuns (EXTENDS HeartbeatRuns) <-- MCIssueRuns, IssueOwnerProofs
    StepGraph  <--implements--  Campaign       <-- MCCampaign,         CampaignProofs
    GatewayLine <--implements-- GatewayClient  <-- MCGatewayClient,    GatewayClientProofs
    ServicePool <--implements-- RuntimeServices <-- MCRuntimeServices, RuntimeServicesProofs
    Approvals        <-- MCApprovals,        ApprovalsProofs
    IssueCheckout    <-- MCIssueCheckout,    IssueCheckoutProofs
    PlanWatch        <-- MCPlanWatch,        PlanWatchProofs

The models are written the same way. A handler is a record with a program
counter that names its next *statement*: one awaited SQL statement, one transaction,
or the code between two awaits. Whatever the code reads before an await and uses
after it is kept in that record. Where handlers run to completion (the office's
page, the parts of the campaign engine between two awaits) a handler is one action.
Actions carry the names of the functions they stand for; `PROJECT.json` maps each
definition to its lines.

### HeartbeatRuns

State and code:

| Model | Code |
|---|---|
| `run[r]` | a heartbeat_runs row: agent, issue, status; `wake`: status of the wakeup request it was created for; `answers`: agents whose wakeups name the run |
| `lock[s]` | issues.executionRunId and executionAgentNameKey |
| `deferred[s]` | wakeup requests with status deferred_issue_execution, oldest first |
| `agentStatus[a]` | agents.status |
| `job[j]` | an asynchronous call in progress: `job[r]` the executeRun of run r, the others requests and timers served by a `Handler` |
| `start[a]` | the agent's start lock (withAgentStartLock) and the local variables of the pass inside it |
| `proc` | the map runningProcesses |

A wake (`ReceiveWake`) goes through the transaction on the issue (`EnqueueOnIssue`:
repair of a stale lock, adoption of an older active run, merging, deferral or a new
run), or, without an issue or with a mention, through `Scan` and `InsertRun`. The
pass of an agent (`Acquire`, `Claim`, `MarkClaimed`, `Launch`) starts queued runs.
An execution is `Load`, `MarkAgentRunning`, `Spawn`, `AdapterReturns` or
`AdapterThrows`, `SetRunStatus`, `SetWakeupStatus`, `Release` (with `Promote`),
`RecordCost`, `ReadAgent`, `WriteAgent` and another pass. Board commands, the
two reapers and `Restart` complete it; a restart keeps rows and forgets the rest.

Two merges of steps are sound because nothing observable lies between: counting the
running runs and picking the oldest queued ones is one step inside the start lock
(both are reads; the runs counted can only end in between); `createEvent` and its
pause are one step.

Bounds: `MaxRuns` rows, `MaxCommands` board commands, `MaxCrashes` restarts, the
number of `Handler`s. Left out: sessions, workspaces, logs and context contents;
heartbeat policy flags (a request they skip changes nothing else); removal of
agents; failure of a single SQL statement of an execution after it has started;
the claim branch inside executeRun, which no caller reaches with a queued run; the
order in which waiting passes get the start lock. HeartbeatRuns is a world without
checkout calls: that a checkout may write the lock of a live run over (section 4), and
that the release of that run then leaves the lock alone, is in IssueCheckout only, so
what HeartbeatRuns shows of owners holds between checkouts that take nothing over.

### IssueGate

What the execution lock promises, with no runs or handlers: an issue is free, held,
or its holder is going away; others wait in order, each at most once; whoever leaves
hands the issue to the first waiting agent that may run. `HeartbeatRuns!ImplementsGate`
is the refinement: the holder is the agent of the run the lock points to, "held"
while that run is active.

### Approvals

One hire approval, its draft agent, and `Caller`s. `Read` is the first statement of
each handler and `Admits` its guard. `Resolve` has the condition that
`resolveApproval` repeats in its UPDATE; `Revise` and `SetAgent` write by id alone, as
the code does. The effects of a decision (`ReadDraft`, `ActivateDraft`,
`CreateAgent`, `TerminateDraft`) are separate statements. `CreateAgent` may fail with
the server up: `create` throws when the manager of the payload is not found
(`agents.ts:340`), and then the approval is approved and nobody hired, as after a
restart between the two statements. Bounds: `MaxCreated` agent rows and `MaxUndone`
decisions that a revision has written over; `undone`, a history variable, counts these.

### RuntimeServices and ServicePool

`service[i]` is a RuntimeServiceRecord with its child process, `byKey` the map
runtimeServicesByReuseKey, `call[r]` the acquisition, use and release by run r, with
`held` its entry in runtimeServiceLeasesByRun. `Reuse`, `Start`, `Ready`, `NotReady`
and `Acquired` are ensureRuntimeServicesForRun, `GiveUp`, `Retire`, `Retired` and
`Done` releaseRuntimeServicesForRun, cut at their awaits; `IdleTimeout` and
`ChildExits` are the callbacks. A service with a fixed port may be answered for by
another process on the same port (`Answers`), as the readiness check cannot tell.
Everything is memory: after a restart the state is `Init` again, so restart is not
an action; rows of services, which only matter then, are statements that take time
and may fail.

`ServicePool` is what the runs may count on, without index, timers and statements: a
service is launched for a run and admitted with that run as its user; runs that ask for
its key join, and leave only when they are done using; it is stopped when it has no
users, or its process exits; a run begins only with a service for each key it asks for
(one that exited meanwhile counts: the code does not look again), and is done when it
uses none, unless a statement of its own has failed.

### IssueCheckout

One issue: `issue` is its row (status, assignee, checkoutRunId as `checkout`,
executionRunId as `lock`), `run[r]` what the row of a run says of it, `call[c]` the
request that a run or the board has in progress. A checkout is `Claim` (the
conditional update), `Look` (the row read after it took nothing), `Adopt` or
`CheckStale` and `Seize` (adoptStaleCheckoutRun). An update or release is `Route`,
`AssertOwner` with the same takeover, `ReadRow` and `WriteRow`, which asks for
nothing but the id. The heartbeat's side, detailed in HeartbeatRuns, is here as it
touches the row: `Wake` is the transaction of enqueueWakeup, which gives the lock of a run
that is over to a live run about the issue or else to a new one; `StartUnlocked` is a run
that comes without asking for the lock (for no issue, for another one, for a mention);
`EndRun` and `Settle` are the end of a run and its release, with or without a promotion. A run's
request may still be on its way when the run's row says it is over; that is why every
property speaks of live runs. Statuses that these statements treat alike are one
(todo, done); labels, comments and the rest of the row are left out.

### IssueRuns

The composition of the two. `ImplementsCheckout` maps the state of HeartbeatRuns to that of
IssueCheckout for one issue: a run is the number, agent and issue of its row, new before the
row is inserted, live while it is active, over afterwards; the lock is the run it names; no
call is in progress and nobody has checked the issue out, so the composition speaks of what
wakes and runs do between checkouts and not of a takeover of a live run's lock. What IssueCheckout assumes of the
orchestration, written down there as four small actions, is then a theorem about it.

### Campaign and StepGraph

`StepGraph` is what a campaign promises: steps wait, run, succeed or fail, run only
after what they depend on, at most `MaxParallel` at a time, and are given up, several
at a time, only for a failure they depend on. `Campaign` is the engine: `Check`, then
rounds of `Select` (ready steps, cascade, or the end), `Start` under the semaphore,
`Succeed` or `Fail` with its retries, and `EndRound`. `deps` is any plan, with
ids that name no step, or a cycle. The cascade (a search over adjacency lists) is
written as what it computes, the smallest set closed under depending on a failure.

### PlanWatch

`file` is the directory; `watch` the watcher's knowledge of each file as it is now
(unseen, seen, claimed); `scan[s]` a scan in progress, `Loop` being the service's own
and the others those of POST /plans/scan. A scan claims what has settled
(`BeginScan`), then for each file `Parse`, `CheckReceipt`, `Load` (the orchestrator
reads the file again), `Ask` and `Poll` or `Timeout` (governance.py), `Execute`,
`CampaignEnds`, `WriteReceipt`. `Edit`, `Decide` and `Restart` come in between.
A content stands for a parsed plan: receipts are named by id and digest.

The service's `try` is around the execution alone. What it does to files outside can
raise: the stat of a file (`BeginRaises`, with the files the watcher had `reached` by
then), the receipt of a file that does not parse, the look for a receipt and the second
attempt to write one (`Raise`; `plan_watcher_service.py:273`, `303`, `353`). The
exception ends the scan; `_run_loop` logs it, a request answers it, and the files the
scan had left stay claimed. `MaxFailures` bounds such operations. Two history variables:
`disturbed` counts the reasons for executing a plan again, `forgotten` has the claimed
files that a scan had when it raised.

The approval is that of a paperclip which knows approvals of type `campaign_execution`,
as governance.py asks for. The one in this repository does not: `APPROVAL_TYPES`
(`paperclip/packages/shared/src/constants.ts:153`) has no such member, its validator
answers the request with an error, and governance.py fails closed. Against that server
every plan of `AsksFirst` takes `GiveUp`, which the model has, and `Poll` finds nothing.

### GatewayClient and GatewayLine

The office's connection, all in one thread: `client[c]` is a GatewayWsClient with its
status, its socket, the number of its reconnect timers (the code keeps one handle, so
more than one would be a leak), `socket[k]` what the browser knows of a socket and
whether the client still listens to its close, `request[r]` a promise of
GatewayRpcClient. `Mount` and `Unmount` are the effect of useGatewayConnection and
its cleanup. The gateway and the network are external: `Opens`, `Closing`, `Closes`,
`Challenge`, `Hello`, `Refuse`, `Shutdown`, `Answer` may come in any order the protocol
allows; a shutdown is announced only after the greeting. A number of sockets bounds the sockets at one time; a socket that is gone can
be used again.

`GatewayLine` is what the pages may rely on, without sockets, timers and response
handlers: a line for each effect, one in use at a time, which is dialled until it is up,
refused or down, and then lost or closed; requests wait on a line that is up and are
rejected in the step in which it is lost. A line that is down is never up again.
`GatewayClient!ImplementsLine` reads the line off the status that the user is shown.

## 3. Model checking

Every property of a passing run has a mutant of the code (operators next to the
definition they change, e.g. `ClaimUnconditionally`) that TLC finds to violate it.

| Run | Instance | Checks | States |
|---|---|---|---|
| `heartbeat_gate` | 2 agents with 1 slot, 1 issue, 3 runs, 2 handlers; wakes with and without comment | `RunningBounded`, `OneExecutionPerIssue`, `WakesStayWithAgent`, `ImplementsGate`, `ImplementsCheckout` | 82 k |
| `heartbeat_commands` | 2 runs, one command out of cancel, pause, terminate, resume; one agent with a budget | `DeferredHasOwner`, `WakeupEndsWithRun`, `NoRunIsRevived` | 564 k |
| `heartbeat_restart` | 2 runs, one restart, executions that throw, one agent with a child process and one without | `OneOwnerPerIssue` | 1.35 M |
| `heartbeat_progress` | 2 runs, 1 handler, all kinds of wake, executions that throw; fairness | `QueuedRunLeaves`, `RunningRunEnds`, `DeferredWakeLeaves` | 19 k |
| `approvals_decide` | 3 requests among approve and reject | `AgentFollowsDecision`, `HiredOnce`, `DecisionStands` | 284 |
| `approvals_all` | 3 requests among all operations, restarts, 2 decisions written over | `HiredOncePerDecision`, `TerminationSettles` | 65 k |
| `services_lease` | 2 runs that share a service with an idle timer and a fixed port, one with an ephemeral service too; statements fail; fairness | `KeyLeadsToService`, `LeaseIsGivenUp`, `UnleasedServiceEnds`, `ImplementsPool`, `ServiceStops` | 27 k |
| `issue_checkout` | 2 agents, 3 runs of one (one not about the issue), the board, 2 requests at a time; an update to done and one to the other agent | `CheckoutIsWork`, `CheckoutHoldsLock`, `TakenOnlyFromTheDead`, `LockFollowsCheckout` | 650 k |
| `campaign_steps` | all 4096 plans of 3 steps with an id that names no step; 2 at a time, one step with a retry; fairness | `DependenciesFirst`, `EndIsAccounted`, `ImplementsGraph`, `Ends` | 11 k |
| `plan_files` | 2 files, 2 scans, 2 plans of which one wants an approval, 2 edits, 1 restart, 1 operation that raises; fairness | `ClaimIsSettled`, `ApprovedFirst`, `OnceUnlessDisturbed`, `PlanSettles` | 636 k |
| `gateway_connection` | 2 clients in turn, 2 sockets, 1 request, 2 attempts; fairness | `OneLine`, `LineIsKept`, `StatusIsTrue`, `WaitsOnItsConnection`, `ImplementsLine`, `DiallingEnds` | 103 k |
| `approvals_unapproved_hire` | one request at a time, pause and resume of the draft | `HireNeedsApproval`, violated (section 4) | |

`TypeOK` is in no run: it is proved for every module that has one (section 5).

*Why these bounds are enough.* The heartbeat's invariants relate at most two runs of
an issue or of an agent and a third party: the violations that the mutants and the
`violation` runs produce need two runs, and the third run of `heartbeat_gate` is the
one that a promotion starts while a wake arrives. Two handlers serve two requests at
the same time as the executions themselves, which are jobs of their own. Commands and
restarts are one each because a second one finds the same kinds of states as the
first. The services' properties were also checked, without liveness, for three runs
and four services (5 million states), `ImplementsGate` with a restart and throwing executions (the
instance of `heartbeat_restart`), `ImplementsCheckout` with commands, with a restart and with mentions,
the heartbeat's with slow runs (`SlowRuns`,
3.3 million states; but `WakeupEndsWithRun`, see section 4), `WakeupEndsWithRun` with
commands and throwing executions (2.8 million), the checkout's with a fourth run, of the other agent (11 million
states), the plan files' with three edits of one file while nothing raises (0.8 million), and the
connection's with a third socket (1.5 million) or a second request: nothing new. A
takeover of a checkout needs two runs and a wake in between a third. Three steps make
every shape of dependency on which a cascade could differ from reachability: direct,
through another, on two, on itself and on nothing there is. Two scans are what the
loop and one request make; two edits let a file change while it is in hand and
again. Two clients are one before and one after the url has changed. What TLC checks
only within these bounds, the proofs of section 5 settle for any number where they
apply.

*Fairness.* A statement, once sent, returns, and the event loop resumes its await:
weak fairness of every step of a job, of a pass (`StartLoop`) and of a run's calls
for services. `Acquire` has strong fairness: withAgentStartLock chains the waiting
passes on a promise, so a pass that keeps waiting is served although others are
served in between. Idle timers fire. The periodic reaper runs every tick and looks at
every row: strong fairness of the tick that finds orphans. Nothing is assumed of
wakes, commands, exits of services or restarts. Liveness of the heartbeat is checked
without restarts, because with one it fails (`heartbeat_stranded.cfg`).
Campaign: the event loop runs what is ready, and an attempt ends, by
its timeout (`asyncio.wait_for`) if by nothing else. Plan files: a scan goes on, since
each thing it awaits returns, times out or is a campaign, which ends (`Ends`); the loop
scans again after every sleep, and a file that is left alone has settled at some scan:
strong fairness of the scan that finds it so. The board need not decide, and is not
assumed to. Connection: timers fire, and a socket that is not greeted opens, is
greeted or refused, or closes in the end: the client has no deadline of its own for
the handshake, so this is assumed of the browser and the gateway; of requests only
that their own timeout fires. Nothing is assumed of a connection once greeted.

*Deadlock* is not an error in these models: the bounds run out, requests are over.

## 4. What the code does not keep

The run `approvals_unapproved_hire` checks a statement of the repository that TLC
refutes: pause and then resume make an agent idle whose hire is still pending
(`agents.ts:366`). Eight more such instances are kept as .cfg files to run by hand:

- `heartbeat_pause_lost`: an execution that overlaps a pause sets the agent to
  running, and later idle, over paused (`heartbeat.ts:1289`, and 920 after a read).
- `heartbeat_startup_reap`: the startup reaper starts a queued run on its way and
  then fails it as an orphan of its own snapshot (`index.ts:545`).
- `heartbeat_stranded`: a restart after the terminal status of a run and before the
  release of its issue (`heartbeat.ts:1575`) leaves the wakes behind it waiting until
  a new wake for that issue comes.
- `heartbeat_request_open` (`NoRequestLeftOpen`): a cancel that comes between the claim
  of a run and that of its request (`heartbeat.ts:871`, `899`) ends both, and the claim
  then writes "claimed" over the request, which nothing ends any more.
  `WakeupEndsWithRun` has this case as its exception, and no other; a restart between
  the statements, or a reaper that takes a slow run for lost, leaves requests open as
  well.
- `approvals_revived` (`TerminatedIsFinal`): a pause, resume or activation that read the
  agent before it was terminated writes its status over "terminated" (`agents.ts:371`).
  `paperclip/doc/SPEC-implementation.md:346` has "`* -> terminated` (board only,
  irreversible)". `TerminationSettles` is what is left of it: only a request that was in
  flight at the termination can do so.
- `approvals_unhired` (`ApprovedIsHired`): `create` throws after the approval has been
  recorded (`approvals.ts:112`, `115`, `agents.ts:340`): it is approved, nobody is hired,
  and a second approve finds it decided. `SPEC-implementation.md`, 12.1, has the agent
  row created on approval.
- `plan_forgotten` (`NoneForgotten`): a scan that raises leaves its files claimed, so
  that no later scan takes them: not before they change or the leader restarts do they
  get a receipt (`plan_watcher_service.py:273`, `303`, `353`, and the `except` at 396).
- `services_second`: two runs both start a shared service, and a third is started
  when the one that is indexed goes (`workspace-runtime.ts:798`).

The models show more of the kind with other constants; the properties are in the
modules, without a run of their own:

- `OneOwnerPerIssue` with `"mention"` among `Kinds`: a mention gets a run of its own
  beside the owner (`heartbeat.ts:1894`, against Rule A of
  `paperclip/doc/plans/issue-run-orchestration-plan.md`).
- `WakesStayWithAgent` with mentions and three runs: after the repair of a lock its
  old name is compared, and a wake is merged into another agent's run (`:2003`).
- `OneExecutionPerIssue` with cancel: the issue is handed over while the adapter of
  the cancelled run still runs (`:2495`).
- `AgentStatusSettles` with two slots: two runs that end together leave the agent
  "running" (`:920`).
- `StoppedAgentNotStarted` with pause: starting a run does not look at the agent's
  status (`:1045`).
- `OnlyOrphansReaped` with `SlowRuns`: a run that is quiet for five minutes and has no
  child process is failed while it executes (`:965`).
- Approvals: `DecisionStands` with a revision that overlaps a decision
  (`approvals.ts:188`), which is then carried out again: `HiredOncePerDecision` allows
  for one more hire for each such revision, and no other.
- Issues: `InProgressHasAssignee` (an invariant of `paperclip/doc/SPEC-implementation.md`)
  with a patch that takes the assignee away and leaves the status alone
  (`issues.ts:735` looks only at a patch that sets the status).
- Office: `AdapterIsMounted`: the adapter of the first connection is returned for ever
  (`adapter-provider.ts:54`), also after the url or token has changed and its client
  has been disconnected.

What the models of services, issues, plans and campaigns contain without a property that could be
said of it:

- A run is put among the leases of a service before the write of the row, and the service
  among those of the run after it: when the write fails nobody gives the lease up and the
  service never stops (`workspace-runtime.ts:861`). `LeaseIsGivenUp`, `UnleasedServiceEnds`
  and `ServiceStops` except the runs of which a statement has failed.
- A takeover of a checkout writes the execution lock over that of any other run, a live
  one included (`issues.ts:411`); `LockFollowsCheckout` has this as its exception.
- An update or a release writes by id what it decided on a row read before: the
  assignee may then be another than the agent of the checkout run, agent and user both
  be assigned, and the checkout of a run that came in between be dropped
  (`issues.ts:771`, `1018`).
- A request of a run that is over may still check the issue out; the lock it leaves is
  repaired by the next wake.
- A plan file is parsed by the service and read again by the orchestrator
  (`orchestrator.py:206`): what is executed may be another plan than the receipt is for.
  A task that ends in an error gets an "ok" receipt (`plan_watcher_service.py:331`).
- An approval that is granted after the poll has given up starts nothing
  (`governance.py:254`).
- Steps that wait for an id that names no step are left pending and the campaign is
  "partial" (`campaign.py:421`). All campaigns of a leader share one engine, and each
  clears its shared memory (`campaign.py:354`). At this commit the modules
  `oas_core.shared_memory` and `oas_core.capability_matcher`, which campaign.py imports,
  are not in the repository.
- A handshake that is never answered is not timed out; after a shutdown event a client
  never reconnects (`ws-client.ts:150`); the response handlers of timed out requests
  stay in their map (`rpc-client.ts:69`).

## 5. Proofs

All theorems are about `Spec`, for all values of the constants that satisfy the
named assumptions (types of the parameters, at least one slot per agent, sentinels
outside their sets); nothing is finite except where the model says so.

**HeartbeatRunsProofs.** `TypeCorrect`: `Spec => []TypeOK`. `SlotsBounded`:
`Spec => []RunningBounded`. `RunningBounded` is not inductive: between `Acquire` and
the last `Claim` of a pass, slots are promised. `SlotsReserved` says that the running
runs of an agent *and* the runs picked by its pass fit in maxConcurrentRuns. Only
`Acquire` adds to that sum, and it picks no more of the oldest queued runs than are
free (`Oldest` picks at most n: the pick with the fewest older ones first, by
counting); `Claim` turns a picked run into a running one, or drops it when it is no
longer queued; no other action makes a run running.

**IssueOwnerProofs.** Every safety property the heartbeat runs check about issues. The
first five theorems are for companies where nobody is mentioned (`"mention" \notin
Kinds`); section 4 has the runs that show why. The last three hold with mentions.

- `IssueHasOneOwner`: `Spec => []OneOwnerPerIssue`, strengthened by three facts.
  `LockOwns`: the lock of an issue points to *every* queued or running run of it, so two
  would be the same run. `SettledIsOver`: a job about to write a wakeup's status or to
  release has a run that is over, hence `Release` never unlocks an active run.
  `ScansNoIssue`: only wakes without an issue bypass the lock. The transaction of
  `EnqueueOnIssue` inserts a run only where the lock's run and every other run of the
  issue are over; `Promote` replaces a lock whose run is over.
- `WakesJoinTheirAgent`: `Spec => []WakesStayWithAgent`. `NamesInv` adds that the lock's
  name is that of the agent of the lock's run, and that this run is on the issue. The
  repair of a stale lock, which compares with the old name, then never finds another
  active run.
- `RunsImplementGate`: `Spec => ImplementsGate`, with any commands, failures and restarts.
  Each statement is shown to be a step of IssueGate or a stutter; `LockOwns` makes the
  holder unique, `NamesInv` makes the merged wake one of the holder's own agent.
- `DeferredAreOwned`: if the server stays up, `Spec => []DeferredHasOwner`. `CallInv` says
  which calls exist beside the one that releases: the holder of a start lock waits in it,
  and a queued run, or one the lock's loop has just claimed, has no job at work. So the
  job that ends a run is the one that goes on to release it (`ReleasersStay`).
- `IssueIsExecutedOnce`: if moreover no command stops a run and no live run looks stale
  to the reaper (`Undisturbed`), `Spec => []OneExecutionPerIssue`. `ExecInv`: a job that
  executes has a running row of its own, and the reaper is about rows whose execution is
  gone. A cancel or a reap of a live run breaks exactly this.
- `RequestsEndWithRuns`: if the server stays up and no live run looks stale, whatever is
  cancelled, paused, mentioned or reaped and whoever throws, `Spec => []WakeupEndsWithRun`.
  `RequestFollows`: a run that has ended has an ended request, or a call has yet to write
  it, or it is cancelled and its request is claimed or a pass has yet to mark it so. `CallEnds` says that a
  call ends a run as cancelled, or the run it has executed, or one whose execution is gone,
  and goes on to the request; `ClaimLives` that a run claimed and not yet started is
  running or cancelled. So the claim of a request comes after the end of its run only
  where a cancel came in between.
- `OverIsForGood`: `Spec => NoRunIsRevived`, for any commands, restarts and failures. Of all
  writes of a status only the claim's is not terminal, and it is conditional.
- `RunsMeetCheckout`: `Spec => ImplementsCheckout`, for every issue and with no assumption at
  all. `MeetInv` is what the mapping needs: a call that releases a run has ended it
  (`SettledOver`, which `OverIsForGood` keeps true), so that a release is a `Settle`; and a
  lock names an inserted run (`LockFilled`), so that an insertion moves no lock but its own.
  So the proofs about IssueCheckout rest on what the orchestration does, not on a guess.

**ApprovalsProofs.** Where no revision is asked for, and for any number of requests:
`DecisionsStand` (no handler in flight writes a revision; the condition of `Resolve`
does the rest); `HiresOnce`, from `OneDecides`: the request whose update decided is the
only one between its update and its last statement, and before a decision there is none;
`DraftIsAsDecided`, from `DraftFollows`: where only decisions are asked for, the draft
agent is as the decision has it or the one deciding request is still about to write it.
Two hold for all operations, restarts included: `HiresOncePerDecision`, from `HiresArePaid`
(the hires made and in progress are at most the decisions written over, and one more if the
approval is decided), and `TerminatedSettles`, in which no
request that writes a live status can begin once the agent is terminated, for each reads
the agent, and refuses, first.

**RuntimeServicesProofs.** `TypeCorrect`, and all safety properties of the run, for
any number of runs, keys and services, any policies, with failing statements:
`IndexIsSound`, `LeasedAreKept`, `LeasesAreGivenUp`, `UnleasedServicesEnd`. `TypeInv`
adds to the types that a call about a service names one (`CallsFit`). `IndexInv` adds
to the index property that a run waiting for readiness waits for a process of its
own (`StartsItsOwn`) and that a timer runs only for a registered service without
leases (`TimerIdles`): so a failed readiness check drops no service of others, and an
idle timer stops none that is leased. `LeaseInv` adds that a run that is releasing
has given up its lease on the first service it holds (`ReleasesFirst`), without
which dropping the head of `held` could lose a lease. Each action is first described
without EXCEPT (`ReuseDoes`, `RetireDoes`, ...); the cases then argue about the run
that moves, and `FirstKept`, `LeasesKept` and `EndsKept` about all others.
`ServicesAreAPool` is the refinement of ServicePool. Its own invariant is `GrantInv`: while
a run acquires, what it holds and what is left of its list make up the list it came with,
the n-th service it holds has the n-th key of that list (`Got`), and is leased by it or
gone. No step of others takes that away (`GotKept`), which is why the list may be worked
off across any number of awaits; of its own steps only `Acquired` moves a key from one
list to the other (`AcquiredGrants`). The rest is one lemma for each action
(`ReuseMeets`, ...), which use `TimerIdles` (an idle timer stops what has no users) and
`LeaseIsGivenUp` (a run that is done has no leases). `LeasedAreKept` says of the code's
own state that a leased service goes only in `ChildExits`; no run checks it by itself,
since the pool's `Stop` asks for the same.

**IssueCheckoutProofs.** All properties of the run, for any number of runs, agents,
requests at a time and patches. `Fits` says what a call relies on between two
statements: the checkout it is about to take over belongs to a run that *is* over (once
over, a run stays so), and a write that leaves the checkout alone leaves the issue in
progress as well. With the last fact `CheckoutIsWork` is inductive although the write
looks at nothing: whatever others wrote meanwhile, the status of a row with a
checkout is not changed by it. Each action moves one call and does one of three
things to the row (`Effect`: nothing, take checkout and lock, edit without touching
the lock); wakes and settlements move the lock only from runs that are over.

**CampaignProofs.** For any finite set of steps, any plan, any retries and width.
`DependenciesComeFirst` from `RoundIsReady`. `EndAccountsForAll`: at the end the ready
set is empty, and a pending step that waits for no unknown id could be followed down
its dependencies for ever: the set of such steps is a cycle, which `PassedCheck`
excludes; `DoomedIsClosed` and `DoomedHaveCauses` make the definition of the cascade
usable without induction. `CampaignImplementsGraph`: each action is a step of
StepGraph or a stutter; `Select` is `GiveUp` of all doomed steps at once.

**PlanWatchProofs.** For any files, scans and bounds. `ClaimsAreKept`, operations
that raise included: `ClaimsKept` refines `ClaimIsSettled` to *the content parsed*: a file in hand under an
older content does not account for the new one, whose receipt it will not write.
`ApprovalComesFirst`: the approval polled for is that of the plan in hand. `ExecutedOnce`:
`OnceUnlessDisturbed` is no invariant of one scan, so the proof counts over all of them.
Executions of a plan, those that are due and all files in the hands of scans
are together at most the disturbances, and one if some scan or receipt knows the plan, and
one for each claimed file that a scan may still find to hold something else (`Balance`). The
first scan to have a file pays with its claim, the first to read a plan with its being new;
whoever comes later was counted when the disturbance made it possible. Directories and requests are finite
(`FiniteAssumption`), which the counting needs.

**GatewayClientProofs.** For any clients, sockets, requests and attempts. `HeardIsMine`:
the only socket whose close is heard is the one the mounted client remembers, and while
there is one no timer runs. That bounds the lines (`OneLineEach`) and keeps one
(`TheLineIsKept`); `ShutStaysDown` shows that nothing that comes late after a shutdown
changes the status; `SentOnce` that a late answer finds its handler, so that it never
passes for a refused connection (`StatusIsNeverStale`); `PendingIsSent` that losing a
socket rejects every request sent on it. `ClientIsALine`: `Spec => ImplementsLine`. The
mapping needs `LineInv`, which relates the status shown to the rest: a timer runs only
while the client is shown as reconnecting (`TimerWaits`), so that its dialling again is
no change of the line; a request waits only while it is shown as connected
(`PendingIsUp`), so that what the loss rejects is all there is; and of a client shown as
disconnected no socket is heard but one that announced the shutdown (`DownIsLost`), so
that no greeting can take a line that is down up again.

`TypeCorrect`, `Spec => []TypeOK`, is proved for every module with a state machine of the
code.

**Only model checked**: liveness under fairness (`QueuedRunLeaves`, `RunningRunEnds`,
`DeferredWakeLeaves`, `ServiceStops`, `Ends`, `PlanSettles`,
`DiallingEnds`), which is beyond this prover. Every invariant and action property that a
passing run checks is a theorem as well, some under the assumptions named above.

## 6. Plan

1. An abstract specification, with a refinement, of a decision and its effect (Approvals).
2. *Issue linker* (`drvp-issue-linker.ts`): one issue for each request, with two
   processes and a restart.
3. *Wake contexts* of HeartbeatRuns: which comments an execution has read.
4. *Journal* with a crash in an append, and *TaskQueue*, once a program of the
   repository uses them.

Instances of section 4 are files to run by hand so that the whole project is checked in
a reasonable time.

## 7. Not modelled

The parts marked `not_modelled` in `PROJECT.json`. Besides the linker: companies,
projects, goals, access, secrets, assets, portability (single statements over rows),
live events and webhooks (fire and forget), adapters, agents and research pipelines
(external processes and prompts), model routing and decisions (functions of one
call), numerical code (RL, KV compression), UI, CLI, SDK and scripts: most of the
repository's lines. The task queue with its scheduler and the campaign journal are
libraries that only tests and an export use: who would call them, and in which order, is
not in the source. Of the modelled parts: the store of plans over HTTP and the
directory events (`_scan_http`, `mark_dirty`), budgets, sessions and workspaces of runs,
restarts of runtime services.
