------------------------------ MODULE IssueRuns ------------------------------
(* HeartbeatRuns and IssueCheckout put together: what the calls on an issue  *)
(* are told to expect of the run orchestration, in IssueCheckout, is what    *)
(* HeartbeatRuns does.  Seen from TheIssue, a run is its row's number, agent *)
(* and issue, new until the row is inserted, live while it is active; the    *)
(* execution lock is the run it names; and nobody checks the issue out.      *)
EXTENDS HeartbeatRuns

CONSTANT TheIssue

ASSUME IssueAssumption == TheIssue \in Issue

Runs == RunId \X Agent \X (Issue \union {NoIssue})

Nobody == <<0, NoAgent, NoIssue>>

RunNumber(r) == IF r = 0 THEN Nobody ELSE <<r, run[r].agent, run[r].issue>>

Stage(x) ==
  IF run[x[1]].agent # x[2] \/ run[x[1]].issue # x[3] THEN "new"
  ELSE IF IsActive(x[1]) THEN "live" ELSE "over"

(* The issue row, the runs and the calls as IssueCheckout has them.          *)
Seen == [status |-> "todo", agent |-> NoAgent, user |-> FALSE, checkout |-> Nobody,
         lock |-> RunNumber(lock[TheIssue].run)]

Stages == [x \in Runs |-> Stage(x)]

Quiet == [c \in Runs \union {NoJob} |->
            [op |-> "none", pc |-> "idle", agent |-> NoAgent, statuses |-> {},
             patch |-> [status |-> NoJob, agent |-> NoJob, user |-> NoJob],
             expect |-> Nobody, clear |-> FALSE]]

Checkout == INSTANCE IssueCheckout WITH
  Run <- Runs, Board <- NoJob, NoRun <- Nobody, Keep <- NoJob,
  AgentOf <- [x \in Runs |-> x[2]],
  About <- {x \in Runs : x[3] = TheIssue},
  Patches <- {}, Expected <- {}, MaxOpen <- 0,
  issue <- Seen, run <- Stages, call <- Quiet

(* To the issue every step of the orchestration is one that IssueCheckout    *)
(* reckons with: a live run keeps the lock until it is over, the lock goes   *)
(* to live runs about the issue only, and no run lives twice.                *)
ImplementsCheckout == Checkout!Spec
=============================================================================
