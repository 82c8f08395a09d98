--------------------------- MODULE IssueCheckout ---------------------------
(* Who works on an issue: the checkout of paperclip/server/src/services/      *)
(* issues.ts and the routes in front of it.  A run of the assignee checks the *)
(* issue out, the board and other agents edit, release or delete it, and the  *)
(* orchestration lock (executionRunId) is taken and given back by             *)
(* heartbeat.ts as wakes arrive and runs end.  A call is a sequence of        *)
(* database statements, and the statements of different calls interleave.     *)
(*                                                                            *)
(* One issue.  A run's calls may outlive the run: its process, or a request   *)
(* already sent, goes on after the row says it is over.  Of a row that a call *)
(* has read only what it later uses is kept: expect, the checkout it found,   *)
(* and clear, whether the write it prepared resets the checkout.              *)
EXTENDS Naturals, FiniteSets

CONSTANTS
  Agent, Run,
  Board,          \* the caller without a run
  AgentOf,        \* Run -> the agent the run executes
  About,          \* the runs whose context names this issue
  Patches,        \* the updates that callers send
  Expected,       \* the sets of statuses that checkouts expect
  MaxOpen,        \* bound: requests in progress at the same time
  NoAgent, NoRun, Keep

Status == {"todo", "in_progress", "done"}
Caller == Run \union {Board}
Assignee == Agent \union {NoAgent}
Holder == Run \union {NoRun}

(* Keep: the field is not in the request.                                     *)
Patch == [status : Status \union {Keep}, agent : Assignee \union {Keep},
          user : BOOLEAN \union {Keep}]

ASSUME RunsHaveAgents == AgentOf \in [Run -> Agent] /\ About \subseteq Run
ASSUME Sentinels ==
  /\ NoAgent \notin Agent /\ NoRun \notin Run /\ Board \notin Run
  /\ Keep \notin Status /\ Keep \notin Assignee /\ Keep \notin BOOLEAN
ASSUME Requests == Patches \subseteq Patch /\ Expected \subseteq SUBSET Status
                   /\ MaxOpen \in Nat

VARIABLES
  issue,    \* the row
  run,      \* Run -> "new", "live" (queued or running) or "over"
  call      \* Caller -> the request it has in progress

vars == <<issue, run, call>>

IssueRow == [status : Status \union {"gone"},
             agent : Assignee,     \* assigneeAgentId
             user : BOOLEAN,       \* whether assigneeUserId is set
             checkout : Holder,    \* checkoutRunId
             lock : Holder]        \* executionRunId

NoPatch == [status |-> Keep, agent |-> Keep, user |-> Keep]

Call == [op : {"none", "checkout", "update", "release"},
         pc : {"idle", "route", "assert", "claim", "look", "adopt", "stale",
               "seize", "read", "write"},
         agent : Assignee,      \* checkout: the agent to assign
         statuses : SUBSET Status,
         patch : Patch,
         expect : Holder,
         clear : BOOLEAN]

Idle == [op |-> "none", pc |-> "idle", agent |-> NoAgent, statuses |-> {},
         patch |-> NoPatch, expect |-> NoRun, clear |-> FALSE]

TypeOK ==
  /\ issue \in IssueRow
  /\ run \in [Run -> {"new", "live", "over"}]
  /\ call \in [Caller -> Call]

(* An issue is created unassigned or assigned, and in_progress only if        *)
(* assigned; nobody has checked it out.                                       *)
Init ==
  /\ issue \in {i \in IssueRow : /\ i.status # "gone"
                                 /\ i.checkout = NoRun /\ i.lock = NoRun
                                 /\ i.agent = NoAgent \/ ~i.user
                                 /\ i.status = "in_progress" => i.agent # NoAgent \/ i.user}
  /\ run = [r \in Run |-> "new"]
  /\ call = [c \in Caller |-> Idle]

----------------------------------------------------------------------------
Live == {r \in Run : run[r] = "live"}
Exists == issue.status # "gone"
RunOf(c) == IF c = Board THEN NoRun ELSE c

CanAsk(c) ==
  /\ call[c].pc = "idle" /\ Exists
  /\ c # Board => run[c] = "live"
  /\ Cardinality({d \in Caller : call[d].pc # "idle"}) < MaxOpen

Goto(c, pc) == call' = [call EXCEPT ![c].pc = pc]
Return(c) == call' = [call EXCEPT ![c] = Idle]

(* The row says that agent a works on the issue.                              *)
WorkedOnBy(a) == issue.status = "in_progress" /\ issue.agent = a

----------------------------------------------------------------------------
(* Requests.  A run's requests act for its agent and carry its id; the board  *)
(* checks out for any agent, without a run.                                   *)
AskCheckout(c, a, S) ==
  /\ CanAsk(c)
  /\ c # Board => a = AgentOf[c]
  /\ call' = [call EXCEPT ![c] = [Idle EXCEPT !.op = "checkout", !.pc = "claim",
                                              !.agent = a, !.statuses = S]]
  /\ UNCHANGED <<issue, run>>

AskChange(c, op, p) ==
  /\ CanAsk(c)
  /\ op = "release" => p = NoPatch
  /\ call' = [call EXCEPT ![c] = [Idle EXCEPT !.op = op, !.pc = "route", !.patch = p]]
  /\ UNCHANGED <<issue, run>>

----------------------------------------------------------------------------
(* svc.checkout.  One conditional update takes an issue that nobody else      *)
(* works on ...                                                               *)
Claimable(c) ==
  LET r == RunOf(c) IN
  /\ issue.status \in call[c].statuses
  /\ \/ issue.agent = NoAgent
     \/ issue.agent = call[c].agent /\ issue.checkout \in {NoRun, r}
  /\ issue.lock \in {NoRun, r}

Claim(c) ==
  /\ call[c].pc = "claim"
  /\ IF Claimable(c)
     THEN /\ issue' = [status |-> "in_progress", agent |-> call[c].agent, user |-> FALSE,
                       checkout |-> RunOf(c), lock |-> RunOf(c)]
          /\ Return(c)
     ELSE Goto(c, "look") /\ UNCHANGED issue
  /\ UNCHANGED run

(* ... and if it took nothing, the row is read to see whether the agent works *)
(* on the issue already: with no run's checkout, which the run adopts, with   *)
(* another run's, which it may take over, or with its own.  Otherwise 409.    *)
Look(c) ==
  /\ call[c].pc = "look"
  /\ IF ~Exists \/ ~WorkedOnBy(call[c].agent) \/ c = Board \/ issue.checkout = c
     THEN Return(c)
     ELSE IF issue.checkout = NoRun
     THEN IF issue.lock \in {NoRun, c} THEN Goto(c, "adopt") ELSE Return(c)
     ELSE call' = [call EXCEPT ![c].pc = "stale", ![c].expect = issue.checkout]
  /\ UNCHANGED <<issue, run>>

Adopt(c) ==
  /\ call[c].pc = "adopt"
  /\ issue' = IF /\ WorkedOnBy(call[c].agent)
                 /\ issue.checkout = NoRun /\ issue.lock \in {NoRun, c}
              THEN [issue EXCEPT !.checkout = c, !.lock = c] ELSE issue
  /\ Return(c)
  /\ UNCHANGED run

(* adoptStaleCheckoutRun: the run that holds the checkout is looked up ...    *)
CheckStale(c) ==
  /\ call[c].pc = "stale"
  /\ IF call[c].expect \notin Live THEN Goto(c, "seize") ELSE Return(c)
  /\ UNCHANGED <<issue, run>>

(* Mutant of Seizable: any checkout will do.                                  *)
SeizableUnconditionally(c) == WorkedOnBy(AgentOf[c])

(* ... and if it is over its checkout is taken over, provided the row still   *)
(* names it.  The lock is taken along, whoever holds it.  An update or a      *)
(* release then goes on; without the checkout it ends with 409.               *)
Seizable(c) ==
  WorkedOnBy(AgentOf[c]) /\ issue.checkout = call[c].expect

(* Mutant of Seize: the lock is left to its holder.                           *)
SeizeCheckoutOnly(c) ==
  /\ call[c].pc = "seize"
  /\ IF Seizable(c)
     THEN /\ issue' = [issue EXCEPT !.checkout = c]
          /\ IF call[c].op = "checkout" THEN Return(c) ELSE Goto(c, "read")
     ELSE Return(c) /\ UNCHANGED issue
  /\ UNCHANGED run

Seize(c) ==
  /\ call[c].pc = "seize"
  /\ IF Seizable(c)
     THEN /\ issue' = [issue EXCEPT !.checkout = c, !.lock = c]
          /\ IF call[c].op = "checkout" THEN Return(c) ELSE Goto(c, "read")
     ELSE Return(c) /\ UNCHANGED issue
  /\ UNCHANGED run

----------------------------------------------------------------------------
(* Changing the issue.  The route reads the row and, if its agent works on    *)
(* the issue, asks for the checkout; nobody else needs it.                    *)
Route(c) ==
  /\ call[c].pc = "route"
  /\ IF ~Exists THEN Return(c)
     ELSE IF c # Board /\ WorkedOnBy(AgentOf[c]) THEN Goto(c, "assert")
     ELSE Goto(c, "read")
  /\ UNCHANGED <<issue, run>>

(* assertCheckoutOwner: the row is read again.                                *)
AssertOwner(c) ==
  /\ call[c].pc = "assert"
  /\ IF ~WorkedOnBy(AgentOf[c]) \/ issue.checkout = NoRun THEN Return(c)
     ELSE IF issue.checkout = c THEN Goto(c, "read")
     ELSE call' = [call EXCEPT ![c].pc = "stale", ![c].expect = issue.checkout]
  /\ UNCHANGED <<issue, run>>

(* What the row will say after patch p, as far as can be told from the row    *)
(* read now.                                                                  *)
Merge(old, new) == IF new = Keep THEN old ELSE new

Valid(p) ==
  LET agent == Merge(issue.agent, p.agent)
      user == Merge(issue.user, p.user)
  IN /\ agent = NoAgent \/ ~user
     /\ p.status = "in_progress" => agent # NoAgent \/ user

(* Mutant of Resets: only when it changes hands.                              *)
ResetsOnHandover(p) ==
  p.agent \notin {Keep, issue.agent} \/ p.user \notin {Keep, issue.user}

(* The checkout is reset when the issue leaves in_progress or changes hands.  *)
Resets(p) ==
  \/ p.status \notin {Keep, "in_progress"}
  \/ p.agent \notin {Keep, issue.agent}
  \/ p.user \notin {Keep, issue.user}

(* svc.update reads the row, validates the patch against it and decides       *)
(* whether to reset the checkout; svc.release reads the row and checks that   *)
(* the caller is the assignee and, in progress, the run that checked it out.  *)
ReadRow(c) ==
  /\ call[c].pc = "read"
  /\ \/ /\ call[c].op = "update"
        /\ IF Exists /\ Valid(call[c].patch)
           THEN call' = [call EXCEPT ![c].pc = "write", ![c].clear = Resets(call[c].patch)]
           ELSE Return(c)
     \/ /\ call[c].op = "release"
        /\ IF /\ Exists
              /\ c # Board => /\ issue.agent \in {NoAgent, AgentOf[c]}
                              /\ WorkedOnBy(AgentOf[c]) => issue.checkout \in {NoRun, c}
           THEN Goto(c, "write") ELSE Return(c)
  /\ UNCHANGED <<issue, run>>

(* The write names the issue by its id and asks for nothing else.             *)
WriteRow(c) ==
  LET p == call[c].patch IN
  /\ call[c].pc = "write"
  /\ issue' =
       IF ~Exists THEN issue
       ELSE IF call[c].op = "release"
       THEN [issue EXCEPT !.status = "todo", !.agent = NoAgent, !.checkout = NoRun]
       ELSE [issue EXCEPT !.status = Merge(@, p.status), !.agent = Merge(@, p.agent),
                          !.user = Merge(@, p.user),
                          !.checkout = IF call[c].clear THEN NoRun ELSE @]
  /\ Return(c)
  /\ UNCHANGED run

(* Deleting the issue takes one statement.                                    *)
Remove ==
  /\ Exists
  /\ issue' = [status |-> "gone", agent |-> NoAgent, user |-> FALSE,
               checkout |-> NoRun, lock |-> NoRun]
  /\ UNCHANGED <<run, call>>

----------------------------------------------------------------------------
(* heartbeat.ts.  A run that does not ask for the lock, a timer's say, or one *)
(* for a mention in a comment, is created whenever its agent is woken.        *)
StartUnlocked(r) ==
  /\ run[r] = "new"
  /\ run' = [run EXCEPT ![r] = "live"]
  /\ UNCHANGED <<issue, call>>

(* Mutant of Wake: the lock is handed over without looking at its holder.     *)
WakeTakesLock(r) ==
  /\ run[r] = "new" /\ r \in About /\ Exists
  /\ issue' = [issue EXCEPT !.lock = r]
  /\ run' = [run EXCEPT ![r] = "live"]
  /\ UNCHANGED call

(* A wake for the issue, in one transaction: a lock whose run is over counts  *)
(* as none, and then a live run about the issue gets it; if there is none, a  *)
(* run is created that holds it.                                              *)
Wake(r) ==
  /\ r \in About /\ Exists
  /\ issue.lock \notin Live
  /\ run[r] = "live" \/ (run[r] = "new" /\ About \intersect Live = {})
  /\ issue' = [issue EXCEPT !.lock = r]
  /\ run' = [run EXCEPT ![r] = "live"]
  /\ UNCHANGED call

EndRun(r) ==
  /\ run[r] = "live"
  /\ run' = [run EXCEPT ![r] = "over"]
  /\ UNCHANGED <<issue, call>>

(* After its end a run gives back the lock if it still holds it: to a run     *)
(* made for a deferred wake, or to nobody.                                    *)
Settle(r) ==
  /\ run[r] = "over" /\ issue.lock = r
  /\ \/ issue' = [issue EXCEPT !.lock = NoRun] /\ UNCHANGED run
     \/ \E q \in About : /\ run[q] = "new"
                         /\ run' = [run EXCEPT ![q] = "live"]
                         /\ issue' = [issue EXCEPT !.lock = q]
  /\ UNCHANGED call

----------------------------------------------------------------------------
CallStep(c) == \/ Claim(c) \/ Look(c) \/ Adopt(c) \/ CheckStale(c) \/ Seize(c)
               \/ Route(c) \/ AssertOwner(c) \/ ReadRow(c) \/ WriteRow(c)

Next ==
  \/ \E c \in Caller : \/ \E a \in Agent, S \in Expected : AskCheckout(c, a, S)
                       \/ \E p \in Patches : AskChange(c, "update", p)
                       \/ AskChange(c, "release", NoPatch)
                       \/ CallStep(c)
  \/ \E r \in Run : StartUnlocked(r) \/ Wake(r) \/ EndRun(r) \/ Settle(r)
  \/ Remove

Spec == Init /\ [][Next]_vars

----------------------------------------------------------------------------
(* A checkout is somebody's work in progress: whatever reads went stale while *)
(* a call was under way, no row names a checkout without being in_progress.   *)
CheckoutIsWork == issue.checkout # NoRun => issue.status = "in_progress"

(* The run that has the issue checked out, as long as it lives, also owns its *)
(* orchestration: no wake can start another run on the issue meanwhile.       *)
CheckoutHoldsLock ==
  \A r \in Run : issue.checkout = r /\ run[r] = "live" => issue.lock = r

(* No two live runs work on the issue by turns: a checkout passes from one    *)
(* run to another only when the first is over.  (Edits may drop it.)          *)
TakenOnlyFromTheDead ==
  [][\A r \in Run : issue.checkout = r /\ run[r] = "live"
                      => issue'.checkout \in {r, NoRun}]_vars

(* Nobody loses the orchestration of the issue while alive, unless to a run   *)
(* that took over a dead run's checkout.                                      *)
LockFollowsCheckout ==
  [][\A r \in Run : issue.lock = r /\ run[r] = "live" /\ issue'.lock # r
                      => issue'.status = "gone" \/ issue'.lock = issue'.checkout]_vars

(* "in_progress requires assignee".                                           *)
InProgressHasAssignee ==
  issue.status = "in_progress" => issue.agent # NoAgent \/ issue.user
=============================================================================
