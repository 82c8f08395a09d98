----------------------------- MODULE PlanWatch -----------------------------
(* Plan files: core/oas_core/plan_watcher.py, plan_watcher_service.py and     *)
(* orchestrator.py of cluster/agents/leader, and the approval that            *)
(* core/oas_core/middleware/governance.py asks for.                           *)
(*                                                                            *)
(* The boss writes files into a directory.  Scans, those of the service's     *)
(* loop and those asked for over HTTP, take the files that have settled and   *)
(* handle them one after the other: parse, skip if there is a receipt for     *)
(* the content, read the file again, ask for an approval if the plan wants    *)
(* one, execute, write the receipt.  Handling a file takes minutes or hours,  *)
(* and other scans, the boss, the board and restarts come between its steps.  *)
(*                                                                            *)
(* A content stands for a plan: plans with equal ids and equal digests are    *)
(* the same.  The store of plans over HTTP, the other source, is left out.    *)
EXTENDS Naturals, FiniteSets

CONSTANTS
  Path,
  Scanner,        \* the loop and the requests for a scan
  Loop,           \* the scanner that is the service's loop
  Plan,           \* contents that parse
  Bad, Gone,      \* a content that does not, and no file
  AsksFirst,      \* the plans that want an approval: approvals_required is
                  \* set, there is more than one step, paperclip is there to ask
  MaxEdits,       \* bound: changes of files
  MaxCrashes,     \* bound: restarts of the leader
  MaxFailures     \* bound: operations on files that raise

ASSUME PlanAssumption == AsksFirst \subseteq Plan /\ Bad \notin Plan /\ Gone \notin Plan
                         /\ Bad # Gone
ASSUME LoopAssumption == Loop \in Scanner
ASSUME PathAssumption == Path # {}
(* The directory has finitely many files, the server finitely many requests.  *)
ASSUME FiniteAssumption == IsFiniteSet(Path) /\ IsFiniteSet(Scanner)
ASSUME Bounds == MaxEdits \in Nat /\ MaxCrashes \in Nat /\ MaxFailures \in Nat

VARIABLES
  file,       \* Path -> its content
  watch,      \* Path -> what the watcher knows of the file as it is now
  scan,       \* Scanner -> the scan in progress
  approval,   \* Scanner -> the approval it has asked for last
  receipts,   \* the contents that have a receipt
  executed,   \* Plan -> how many times it was executed
  edits, crashes, failures,
  disturbed,  \* edits of a file in hand, restarts, plans in two scans at once,
              \* receipts that could not be written
  forgotten   \* the claimed files that a scan had when it raised

vars == <<file, watch, scan, approval, receipts, executed, edits, crashes, failures,
          disturbed, forgotten>>
bounds == <<edits, crashes, failures>>
history == <<disturbed, forgotten>>
world == <<file, receipts, executed, bounds, history>>

Content == Plan \union {Bad, Gone}

Scan == [pc : {"idle", "next", "check", "load", "ask", "poll", "execute",
               "running", "receipt"},
         todo : SUBSET Path,    \* claimed files not begun
         path : Path,           \* the file in hand, once begun
         parsed : Content,      \* what the service has read of it
         plan : Content]        \* what the orchestrator has read of it

(* The watcher's entry of a file whose fingerprint has changed counts like    *)
(* none ("unseen"); one that has settled is claimed.                          *)
TypeOK ==
  /\ file \in [Path -> Content]
  /\ watch \in [Path -> {"unseen", "seen", "claimed"}]
  /\ scan \in [Scanner -> Scan]
  /\ approval \in [Scanner -> [plan : Content,
                               status : {"none", "pending", "approved", "rejected"}]]
  /\ receipts \subseteq Content
  /\ executed \in [Plan -> Nat]
  /\ edits \in 0..MaxEdits /\ crashes \in 0..MaxCrashes /\ failures \in 0..MaxFailures
  /\ disturbed \in Nat
  /\ forgotten \subseteq {p \in Path : watch[p] = "claimed"}

NoScan == [pc |-> "idle", todo |-> {}, path |-> CHOOSE p \in Path : TRUE,
           parsed |-> Gone, plan |-> Gone]

Init ==
  /\ file = [p \in Path |-> Gone]
  /\ watch = [p \in Path |-> "unseen"]
  /\ scan = [s \in Scanner |-> NoScan]
  /\ approval = [s \in Scanner |-> [plan |-> Gone, status |-> "none"]]
  /\ receipts = {}
  /\ executed = [v \in Plan |-> 0]
  /\ edits = 0 /\ crashes = 0 /\ failures = 0
  /\ disturbed = 0 /\ forgotten = {}

----------------------------------------------------------------------------
At(s, pc) == scan[s].pc = pc
Goto(s, pc) == scan' = [scan EXCEPT ![s].pc = pc]
Begun(s) == ~At(s, "idle") /\ ~At(s, "next")
Has(s, p) == p \in scan[s].todo \/ (Begun(s) /\ scan[s].path = p)
InHand(p) == \E s \in Scanner : Has(s, p)

----------------------------------------------------------------------------
(* The boss writes, changes or removes a file; or touches it.                 *)
Edit(p, v) ==
  /\ edits < MaxEdits
  /\ file[p] = Gone => v # Gone
  /\ file' = [file EXCEPT ![p] = v]
  /\ watch' = [watch EXCEPT ![p] = "unseen"]
  /\ edits' = edits + 1
  /\ disturbed' = IF InHand(p) THEN disturbed + 1 ELSE disturbed
  /\ forgotten' = forgotten \ {p}
  /\ UNCHANGED <<scan, approval, receipts, executed, crashes, failures>>

(* watcher.scan: a file seen for the first time is remembered, one that has   *)
(* been so for stable_seconds is claimed by this scan.                        *)
Observe(reached, settled) ==
  /\ settled \subseteq {p \in reached : file[p] # Gone /\ watch[p] = "seen"}
  /\ watch' = [p \in Path |->
                 IF p \in settled THEN "claimed"
                 ELSE IF p \in reached /\ file[p] # Gone /\ watch[p] = "unseen" THEN "seen"
                 ELSE watch[p]]

BeginScan(s, settled) ==
  /\ At(s, "idle")
  /\ Observe(Path, settled)
  /\ scan' = [scan EXCEPT ![s].pc = "next", ![s].todo = settled]
  /\ UNCHANGED <<approval, world>>

(* The status of a file cannot be read: what the watcher has claimed before   *)
(* it came to that file, nobody gets to handle.                               *)
BeginRaises(s, reached, settled) ==
  /\ failures < MaxFailures
  /\ At(s, "idle")
  /\ Observe(reached, settled)
  /\ failures' = failures + 1
  /\ forgotten' = forgotten \union settled
  /\ UNCHANGED <<file, scan, approval, receipts, executed, edits, crashes, disturbed>>

(* Mutant of Parse: a file that does not parse is only logged.                *)
ParseLogged(s, p) ==
  /\ At(s, "next") /\ p \in scan[s].todo
  /\ scan' = [scan EXCEPT ![s].pc = IF file[p] \in Plan THEN "check" ELSE "next",
                          ![s].todo = @ \ {p}, ![s].path = p, ![s].parsed = file[p]]
  /\ UNCHANGED <<watch, approval, world>>

(* PlanFile.from_path; what does not parse gets its receipt at once.          *)
Parse(s, p) ==
  /\ At(s, "next") /\ p \in scan[s].todo
  /\ IF file[p] \in Plan
     THEN /\ scan' = [scan EXCEPT ![s].pc = "check", ![s].todo = @ \ {p}, ![s].path = p,
                                  ![s].parsed = file[p]]
          /\ disturbed' = IF \E q \in Scanner \ {s} : Begun(q) /\ scan[q].parsed = file[p]
                          THEN disturbed + 1 ELSE disturbed
          /\ UNCHANGED receipts
     ELSE /\ receipts' = receipts \union {file[p]}
          /\ scan' = [scan EXCEPT ![s].todo = @ \ {p}]
          /\ UNCHANGED disturbed
  /\ UNCHANGED <<file, watch, approval, executed, bounds, forgotten>>

EndScan(s) ==
  /\ At(s, "next") /\ scan[s].todo = {}
  /\ scan' = [scan EXCEPT ![s] = NoScan]
  /\ UNCHANGED <<watch, approval, world>>

(* Mutant of CheckReceipt: a claimed file is taken for a new one.             *)
CheckNothing(s) ==
  /\ At(s, "check")
  /\ Goto(s, "load")
  /\ UNCHANGED <<watch, approval, world>>

CheckReceipt(s) ==
  /\ At(s, "check")
  /\ Goto(s, IF scan[s].parsed \in receipts THEN "next" ELSE "load")
  /\ UNCHANGED <<watch, approval, world>>

(* handle_task reads the file again, by its path.  If it does not parse now   *)
(* the task has failed, which the service does not tell from a success.       *)
Load(s) ==
  /\ At(s, "load")
  /\ LET v == file[scan[s].path] IN
     scan' = [scan EXCEPT ![s].plan = v,
                          ![s].pc = IF v \notin Plan THEN "receipt"
                                    ELSE IF v \in AsksFirst THEN "ask" ELSE "execute"]
  /\ UNCHANGED <<watch, approval, world>>

(* Mutant of Ask: the approval is asked for what the service has parsed.      *)
AskForParsed(s) ==
  /\ At(s, "ask")
  /\ approval' = [approval EXCEPT ![s] = [plan |-> scan[s].parsed, status |-> "pending"]]
  /\ Goto(s, "poll")
  /\ UNCHANGED <<watch, world>>

(* create_approval, for the plan that was loaded.                             *)
Ask(s) ==
  /\ At(s, "ask")
  /\ approval' = [approval EXCEPT ![s] = [plan |-> scan[s].plan, status |-> "pending"]]
  /\ Goto(s, "poll")
  /\ UNCHANGED <<watch, world>>

(* The issue or the approval cannot be created, or the engine refuses the     *)
(* plan (a circle of dependencies): nothing is run.                           *)
GiveUp(s) ==
  /\ At(s, "ask") \/ At(s, "execute")
  /\ Goto(s, "receipt")
  /\ UNCHANGED <<watch, approval, world>>

(* A pass of _poll_approval that finds a decision, or gives up.  (A request   *)
(* for revision counts as pending.)                                           *)
Poll(s) ==
  /\ At(s, "poll") /\ approval[s].status \in {"approved", "rejected"}
  /\ Goto(s, IF approval[s].status = "approved" THEN "execute" ELSE "receipt")
  /\ UNCHANGED <<watch, approval, world>>

(* Mutant of Timeout: the poll waits for the board, however long it takes.    *)
WaitForever(s) ==
  /\ At(s, "poll") /\ approval[s].status # "pending"
  /\ Goto(s, "receipt")
  /\ UNCHANGED <<watch, approval, world>>

Timeout(s) ==
  /\ At(s, "poll")
  /\ Goto(s, "receipt")
  /\ UNCHANGED <<watch, approval, world>>

(* The board decides, in time or not.                                         *)
Decide(s, d) ==
  /\ approval[s].status = "pending"
  /\ approval' = [approval EXCEPT ![s].status = d]
  /\ UNCHANGED <<watch, scan, world>>

Execute(s) ==
  /\ At(s, "execute")
  /\ executed' = [executed EXCEPT ![scan[s].plan] = @ + 1]
  /\ Goto(s, "running")
  /\ UNCHANGED <<file, watch, approval, receipts, bounds, history>>

CampaignEnds(s) ==
  /\ At(s, "running")
  /\ Goto(s, "receipt")
  /\ UNCHANGED <<watch, approval, world>>

(* The receipt is for what the service has parsed.  If it cannot be written   *)
(* there is a second attempt, with the error in it.                           *)
WriteReceipt(s) ==
  /\ At(s, "receipt")
  /\ receipts' = receipts \union {scan[s].parsed}
  /\ Goto(s, "next")
  /\ UNCHANGED <<file, watch, approval, executed, bounds, history>>

(* Outside the service's try an operation on a file raises: writing the       *)
(* receipt of a file that does not parse, looking for a receipt, the second   *)
(* attempt to write one.  The scan is over, its exception is logged or        *)
(* answered, and the files it has left stay claimed.                          *)
Raise(s) ==
  /\ failures < MaxFailures
  /\ \/ At(s, "next") /\ \E p \in scan[s].todo : file[p] \notin Plan
     \/ At(s, "check")
     \/ At(s, "receipt")
  /\ failures' = failures + 1
  /\ scan' = [scan EXCEPT ![s] = NoScan]
  /\ disturbed' = IF At(s, "receipt") THEN disturbed + 1 ELSE disturbed
  /\ forgotten' = forgotten \union {p \in Path : Has(s, p) /\ watch[p] = "claimed"}
  /\ UNCHANGED <<file, watch, approval, receipts, executed, edits, crashes>>

(* The leader restarts: the watcher knows nothing, the scans are gone, what   *)
(* is on disk and in paperclip stays.                                         *)
Restart ==
  /\ crashes < MaxCrashes
  /\ crashes' = crashes + 1
  /\ watch' = [p \in Path |-> "unseen"]
  /\ scan' = [s \in Scanner |-> NoScan]
  /\ disturbed' = disturbed + 1
  /\ forgotten' = {}
  /\ UNCHANGED <<file, approval, receipts, executed, edits, failures>>

----------------------------------------------------------------------------
Handle(s) ==
  \/ (\E p \in Path : Parse(s, p)) \/ EndScan(s) \/ CheckReceipt(s) \/ Load(s)
  \/ Ask(s) \/ GiveUp(s) \/ Poll(s) \/ Timeout(s)
  \/ Execute(s) \/ CampaignEnds(s) \/ WriteReceipt(s)

Next ==
  \/ \E p \in Path, v \in Content : Edit(p, v)
  \/ \E s \in Scanner : \/ \E settled \in SUBSET Path : BeginScan(s, settled)
                        \/ \E reached, settled \in SUBSET Path : BeginRaises(s, reached, settled)
                        \/ Handle(s) \/ Raise(s)
                        \/ \E d \in {"approved", "rejected"} : Decide(s, d)
  \/ Restart

(* A scan goes on: what it awaits returns, the poll gives up in the end, and  *)
(* so do campaigns (see Campaign).  The loop scans again and again, and a     *)
(* file that stays as it is has settled at some scan.                         *)
Fairness ==
  /\ \A s \in Scanner : WF_vars(Handle(s))
  /\ WF_vars(\E settled \in SUBSET Path : BeginScan(Loop, settled))
  /\ \A p \in Path : SF_vars(\E settled \in SUBSET Path :
                               p \in settled /\ BeginScan(Loop, settled))

Spec == Init /\ [][Next]_vars
FairSpec == Spec /\ Fairness

----------------------------------------------------------------------------
(* A claimed file that has not changed since is being handled or has its      *)
(* receipt, unless a scan that had it raised: nothing else makes a claim be   *)
(* forgotten, whatever happens to other files, to approvals and to other      *)
(* scans meanwhile.                                                           *)
ClaimIsSettled ==
  \A p \in Path : watch[p] = "claimed" =>
                    InHand(p) \/ file[p] \in receipts \/ p \in forgotten

(* What is not so: no claim is forgotten.  A scan that raises drops the files *)
(* it has left, and they stay claimed until they change or the leader         *)
(* restarts.                                                                  *)
NoneForgotten ==
  \A p \in Path : watch[p] = "claimed" => InHand(p) \/ file[p] \in receipts

(* A plan that wants an approval is executed only if the board approved this  *)
(* very plan, though the file may have changed since it was parsed.           *)
ApprovedFirst ==
  \A s \in Scanner :
    (At(s, "execute") \/ At(s, "running")) /\ scan[s].plan \in AsksFirst =>
      approval[s] = [plan |-> scan[s].plan, status |-> "approved"]

(* A plan is executed again only because the leader restarted, its file       *)
(* changed while in hand, two scans had copies of it at the same time, or     *)
(* its receipt could not be written.                                          *)
OnceUnlessDisturbed == \A v \in Plan : executed[v] <= 1 + disturbed

(* Once the boss leaves the directory alone, whatever lies in it gets its     *)
(* receipt, after restarts too, and whether or not the board answers; but     *)
(* not the files of a scan that raised.                                       *)
PlanSettles ==
  <>[](\A p \in Path : file[p] \in receipts \union {Gone} \/ p \in forgotten)
=============================================================================
