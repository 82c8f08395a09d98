----------------------------- MODULE Approvals -----------------------------
(* One hire_agent approval and the agent it is about: the approval service    *)
(* (paperclip/server/src/services/approvals.ts) and the agent status          *)
(* operations it shares the agent row with (services/agents.ts).              *)
(*                                                                            *)
(* Every handler is a sequence of awaited statements, and requests interleave *)
(* between the awaits: a request is a record of the operation it serves and   *)
(* the statement it will run next.  What a request read before an await       *)
(* decides the branch it took, which is all that it remembers.                *)
(*                                                                            *)
(* A linked approval's payload names an agent row that was created with       *)
(* status pending_approval (routes/agents.ts, POST agent-hires); approving    *)
(* one that is not linked creates the agent row.                              *)
EXTENDS Naturals, FiniteSets

CONSTANTS
  Caller,      \* requests the server may be serving at the same time
  Ops,         \* the operations clients ask for
  Drafts,      \* initial draft agents: "pending_approval" (linked), "none" (not)
  MayCrash,    \* TRUE when the server may be restarted
  MaxCreated,  \* bound: agent rows one approval may create in the model
  MaxUndone    \* bound: decisions written over by a revision

Decisions   == {"approved", "rejected"}
Resolvable  == {"pending", "revision_requested"}
AllOps      == {"approve", "reject", "revise", "resubmit",
                "pause", "resume", "terminate", "remove"}

ASSUME OpsAssumption == Ops \subseteq AllOps
ASSUME DraftsAssumption == Drafts \subseteq {"none", "pending_approval"}
ASSUME MayCrashAssumption == MayCrash \in BOOLEAN
ASSUME Bounds == MaxCreated \in Nat /\ MaxUndone \in Nat
(* The server is serving finitely many requests.                             *)
ASSUME CallerAssumption == IsFiniteSet(Caller)

VARIABLES
  approval,    \* approvals.status
  agent,       \* agents.status of the draft; "none": no draft, "removed": row deleted
  created,     \* agent rows created by approvals without a draft
  request,     \* Caller -> the request being served
  undone       \* how often a decision was written over by a revision

vars == <<approval, agent, created, request, undone>>

Idle == [op |-> "none", next |-> "idle"]

AgentStatus == {"none", "pending_approval", "idle", "paused", "terminated", "removed"}

TypeOK ==
  /\ approval \in Resolvable \union Decisions
  /\ agent \in AgentStatus
  /\ created \in 0..MaxCreated /\ undone \in 0..MaxUndone
  /\ request \in [Caller -> [op : AllOps \union {"none"},
                             next : {"idle", "update", "effect", "activate"}]]

Init ==
  /\ approval = "pending"
  /\ agent \in Drafts
  /\ created = 0 /\ undone = 0
  /\ request = [c \in Caller |-> Idle]

Linked == agent # "none"

Exists == agent \notin {"none", "removed"}

(* UPDATE agents SET status WHERE id: no row, no update.                     *)
Write(status) == agent' = IF Exists THEN status ELSE agent

Serving(c, op, next) == request[c] = [op |-> op, next |-> next]

Goto(c, op, next) == request' = [request EXCEPT ![c] = [op |-> op, next |-> next]]

Finish(c) == request' = [request EXCEPT ![c] = Idle]

Target(op) == IF op = "approve" THEN "approved" ELSE "rejected"

(* Mutant of Admits: the first read no longer checks the status.             *)
AdmitsAnyStatus(op) == op \in {"pause", "resume", "terminate", "remove"} => Exists

(* The status an operation must find in its first read; other statuses are   *)
(* answered with an error, or with applied = false, and change nothing.      *)
Admits(op) ==
  CASE op \in {"approve", "reject"} -> approval \in Resolvable
    [] op = "revise"                -> approval = "pending"
    [] op = "resubmit"              -> approval = "revision_requested"
    [] op = "pause"                 -> Exists /\ agent # "terminated"
    [] op = "resume"                -> Exists /\ agent \notin {"terminated", "pending_approval"}
    [] op \in {"terminate", "remove"} -> Exists

-----------------------------------------------------------------------------
(* The first statement of every handler: read the row, refuse or go on.      *)
Read(c, op) ==
  /\ request[c] = Idle
  /\ Admits(op)
  /\ Goto(c, op, "update")
  /\ UNCHANGED <<approval, agent, created, undone>>

(* Mutant of Resolve: an update by id alone.                                 *)
ResolveUnconditionally(c) ==
  \E op \in {"approve", "reject"} :
    /\ Serving(c, op, "update")
    /\ approval' = Target(op)
    /\ Goto(c, op, "effect")
    /\ UNCHANGED <<agent, created, undone>>

(* resolveApproval: the update re-checks the status in its WHERE clause, so  *)
(* a request that lost the race reads the row again and applies nothing.     *)
Resolve(c) ==
  \E op \in {"approve", "reject"} :
    /\ Serving(c, op, "update")
    /\ IF approval \in Resolvable
       THEN approval' = Target(op) /\ Goto(c, op, "effect")
       ELSE approval' = approval /\ Finish(c)
    /\ UNCHANGED <<agent, created, undone>>

(* requestRevision and resubmit: the update is by id alone, over a decision  *)
(* too if one was made after the request read the row.                       *)
Revise(c) ==
  /\ \/ Serving(c, "revise", "update") /\ approval' = "revision_requested"
     \/ Serving(c, "resubmit", "update") /\ approval' = "pending"
  /\ IF approval \in Decisions THEN undone < MaxUndone /\ undone' = undone + 1
                                ELSE undone' = undone
  /\ Finish(c)
  /\ UNCHANGED <<agent, created>>

(* approve, draft agent: activatePendingApproval reads the agent first and   *)
(* leaves one that is not pending_approval alone.                            *)
ReadDraft(c) ==
  /\ Linked
  /\ Serving(c, "approve", "effect")
  /\ IF agent = "pending_approval" THEN Goto(c, "approve", "activate") ELSE Finish(c)
  /\ UNCHANGED <<approval, agent, created, undone>>

ActivateDraft(c) ==
  /\ Serving(c, "approve", "activate")
  /\ Write("idle")
  /\ Finish(c)
  /\ UNCHANGED <<approval, created, undone>>

(* approve, no draft: the agent row is created, unless create throws after   *)
(* the approval was already marked approved: the manager the payload names   *)
(* is not there, or the database refuses the row.                            *)
CreateAgent(c) ==
  /\ ~Linked
  /\ Serving(c, "approve", "effect")
  /\ \/ created < MaxCreated /\ created' = created + 1
     \/ created' = created
  /\ Finish(c)
  /\ UNCHANGED <<approval, agent, undone>>

(* reject: the draft agent, if the payload names one, is terminated.         *)
TerminateDraft(c) ==
  /\ Serving(c, "reject", "effect")
  /\ Write("terminated")
  /\ Finish(c)
  /\ UNCHANGED <<approval, created, undone>>

(* agents.pause, resume, terminate and remove: the update is by id alone.    *)
SetAgent(c) ==
  /\ \/ Serving(c, "pause", "update") /\ Write("paused")
     \/ Serving(c, "resume", "update") /\ Write("idle")
     \/ Serving(c, "terminate", "update") /\ Write("terminated")
     \/ Serving(c, "remove", "update") /\ Write("removed")
  /\ Finish(c)
  /\ UNCHANGED <<approval, created, undone>>

(* A restart forgets the requests; the rows stay as the last update left     *)
(* them, and nothing re-applies a decision.                                  *)
Restart ==
  /\ MayCrash
  /\ request' = [c \in Caller |-> Idle]
  /\ UNCHANGED <<approval, agent, created, undone>>

Continue(c) ==
  \/ Resolve(c) \/ Revise(c)
  \/ ReadDraft(c) \/ ActivateDraft(c) \/ CreateAgent(c) \/ TerminateDraft(c)
  \/ SetAgent(c)

Next ==
  \/ \E c \in Caller : Continue(c) \/ \E op \in Ops : Read(c, op)
  \/ Restart

(* A handler that has begun runs on: the event loop resumes every await.     *)
Spec == Init /\ [][Next]_vars /\ \A c \in Caller : WF_vars(Continue(c))

-----------------------------------------------------------------------------
(* A decision stands: once approved or rejected, the approval never changes  *)
(* again, whoever else is deciding at the same time ("terminal after         *)
(* decision", SPEC-implementation 8.3), as long as nobody revises.           *)
DecisionStands == [][approval' # approval => approval \notin Decisions]_vars

(* The requests that are carrying out an approval.                           *)
Hiring == {c \in Caller : request[c].op = "approve"
                             /\ request[c].next \in {"effect", "activate"}}

(* At most one request ever carries out the approval, as long as nobody      *)
(* revises: the agents created and the requests about to create or activate  *)
(* one never exceed one.                                                     *)
HiredOnce == created + Cardinality(Hiring) <= 1

(* A revision that read the approval before it was decided opens it again,   *)
(* and it may be carried out again: but once for each such revision, with    *)
(* every operation overlapping and restarts in between.                      *)
HiredOncePerDecision == created + Cardinality(Hiring) <= 1 + undone

(* When no request is in flight the draft agent agrees with the decision.    *)
AgentFollowsDecision ==
  Linked /\ (\A c \in Caller : request[c] = Idle) =>
    CASE approval = "approved" -> agent = "idle"
      [] approval = "rejected" -> agent = "terminated"
      [] OTHER                 -> agent = "pending_approval"

(* No request is about to write a live status over what it has read.         *)
NoneToRevive ==
  \A c \in Caller : ~ \/ Serving(c, "pause", "update") \/ Serving(c, "resume", "update")
                      \/ Serving(c, "approve", "activate")

(* Only a request that was in flight when the agent was terminated can bring *)
(* it back: once those are over the agent stays terminated, or is removed,   *)
(* whatever is asked for after.                                              *)
TerminationSettles ==
  [][agent = "terminated" /\ NoneToRevive =>
       agent' = "removed" \/ (agent' = "terminated" /\ NoneToRevive')]_vars

(* What is not so: termination is irreversible, and no handler that has read *)
(* the agent earlier writes a live status over it.                           *)
TerminatedIsFinal ==
  [][agent = "terminated" /\ agent' # agent => agent' = "removed"]_vars

(* What is not so: an approved hire is carried out, that is, the draft       *)
(* leaves pending_approval or the agent row is created.                      *)
ApprovedIsHired ==
  approval = "approved" ~> (created > 0 \/ agent \notin {"none", "pending_approval"})

(* A draft agent becomes invokable only through an approval of its hire.     *)
HireNeedsApproval == agent = "idle" => approval = "approved"
=============================================================================
