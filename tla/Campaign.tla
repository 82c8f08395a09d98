------------------------------ MODULE Campaign ------------------------------
(* The campaign engine, core/oas_core/campaign.py: the steps of a plan and    *)
(* the ids they depend on, executed in rounds.  A round takes all the steps   *)
(* that are ready, runs at most max_parallel of them at a time, retrying each *)
(* a bounded number of times, and ends when the last of them has ended; then  *)
(* the dependents of the failed ones are failed too.                          *)
(*                                                                            *)
(* An attempt is one call of the step executor: it ends well, or badly (an    *)
(* error, the step's timeout, or the evaluator's verdict, alike here).  Events *)
(* and governance issues do not steer the campaign; the results handed from   *)
(* step to step are left out.                                                 *)
EXTENDS Naturals, FiniteSets

CONSTANTS
  Step,          \* the steps of the plan
  Plans,         \* the plans considered: functions from Step to sets of ids
  Retries,       \* Step -> max_retries
  MaxParallel

ASSUME StepsFinite == IsFiniteSet(Step)
ASSUME RetriesAssumption == Retries \in [Step -> Nat]
ASSUME ParallelAssumption == MaxParallel \in Nat \ {0}
ASSUME PlansAssumption == \A p \in Plans : DOMAIN p = Step

VARIABLES
  deps,          \* Step -> the ids it depends on; some may name no step
  phase,         \* "check", "select", "round", "done" or "rejected"
  status,        \* Step -> its status
  tries,         \* Step -> attempts that have ended
  round,         \* the steps of the round that have not ended
  outcome        \* what the campaign reports

vars == <<deps, phase, status, tries, round, outcome>>

TypeOK ==
  /\ deps \in Plans
  /\ phase \in {"check", "select", "round", "done", "rejected"}
  /\ status \in [Step -> {"pending", "running", "completed", "failed"}]
  /\ tries \in [Step -> Nat] /\ \A s \in Step : tries[s] <= Retries[s] + 1
  /\ round \subseteq Step
  /\ outcome \in {"none", "completed", "partial", "failed"}

Init ==
  /\ deps \in Plans
  /\ phase = "check"
  /\ status = [s \in Step |-> "pending"]
  /\ tries = [s \in Step |-> 0]
  /\ round = {}
  /\ outcome = "none"

In(st) == {s \in Step : status[s] = st}

----------------------------------------------------------------------------
(* Kahn's algorithm visits every step unless some steps depend on each other  *)
(* in a circle: a set of steps of which each depends on one of the set.  Ids  *)
(* that name no step do not count.                                            *)
Cyclic == \E S \in SUBSET Step : S # {} /\ \A s \in S : deps[s] \intersect S # {}

Check ==
  /\ phase = "check"
  /\ phase' = IF Cyclic THEN "rejected" ELSE "select"
  /\ UNCHANGED <<deps, status, tries, round, outcome>>

(* Mutant of Ready: only a failed dependency holds a step back.               *)
ReadyUnlessFailed ==
  {s \in In("pending") : deps[s] \intersect In("failed") = {}}

(* The steps to run next, found before failures spread.  (That none of their  *)
(* dependencies has failed the code asks too.)                                *)
Ready == {s \in In("pending") : deps[s] \subseteq In("completed")}

(* Mutant of Doomed: only the direct dependents.                              *)
DoomedDirectly == {s \in In("pending") : deps[s] \intersect In("failed") # {}}

(* The pending steps that depend on a failed step, directly or through others *)
(* of them: the smallest set closed under depending.                          *)
Closed(S) == \A s \in In("pending") :
               deps[s] \intersect (In("failed") \union S) # {} => s \in S

Doomed == {s \in In("pending") : \A S \in SUBSET In("pending") : Closed(S) => s \in S}

Report ==
  IF In("completed") = Step THEN "completed"
  ELSE IF In("completed") # {} THEN "partial" ELSE "failed"

(* One turn of the loop, up to the start of the round.                        *)
Select ==
  /\ phase = "select"
  /\ status' = [s \in Step |-> IF s \in Doomed THEN "failed" ELSE status[s]]
  /\ round' = Ready
  /\ phase' = IF Ready = {} THEN "done" ELSE "round"
  /\ outcome' = IF Ready = {} THEN Report ELSE "none"
  /\ UNCHANGED <<deps, tries>>

(* Mutants of Start: without the semaphore; a step keeps its permit.          *)
StartUnbounded(s) ==
  /\ s \in round /\ status[s] = "pending"
  /\ status' = [status EXCEPT ![s] = "running"]
  /\ UNCHANGED <<deps, phase, tries, round, outcome>>

StartPermitKept(s) ==
  /\ s \in round /\ status[s] = "pending"
  /\ Cardinality({x \in Step : status[x] # "pending"}) < MaxParallel
  /\ status' = [status EXCEPT ![s] = "running"]
  /\ UNCHANGED <<deps, phase, tries, round, outcome>>

(* A step of the round starts when the semaphore lets it in ...               *)
Start(s) ==
  /\ s \in round /\ status[s] = "pending"
  /\ Cardinality(In("running")) < MaxParallel
  /\ status' = [status EXCEPT ![s] = "running"]
  /\ UNCHANGED <<deps, phase, tries, round, outcome>>

Leave(s, st) ==
  /\ status' = [status EXCEPT ![s] = st]
  /\ round' = round \ {s}

(* ... and leaves it when an attempt has gone well or the last one badly; it  *)
(* keeps its place while it waits to retry.                                   *)
Succeed(s) ==
  /\ status[s] = "running"
  /\ tries' = [tries EXCEPT ![s] = @ + 1]
  /\ Leave(s, "completed")
  /\ UNCHANGED <<deps, phase, outcome>>

Fail(s) ==
  /\ status[s] = "running"
  /\ tries' = [tries EXCEPT ![s] = @ + 1]
  /\ IF tries[s] < Retries[s] THEN UNCHANGED <<status, round>> ELSE Leave(s, "failed")
  /\ UNCHANGED <<deps, phase, outcome>>

(* gather returns when every step of the round has ended.                     *)
EndRound ==
  /\ phase = "round" /\ round = {}
  /\ phase' = "select"
  /\ UNCHANGED <<deps, status, tries, round, outcome>>

Next == \/ Check \/ Select \/ EndRound
        \/ \E s \in Step : Start(s) \/ Succeed(s) \/ Fail(s)

(* The event loop goes on with what can go on, and an attempt ends: by its    *)
(* timeout if by nothing else.                                                *)
Fairness ==
  /\ WF_vars(Check) /\ WF_vars(Select) /\ WF_vars(EndRound)
  /\ \A s \in Step : WF_vars(Start(s)) /\ WF_vars(Succeed(s) \/ Fail(s))

Spec == Init /\ [][Next]_vars
FairSpec == Spec /\ Fairness

----------------------------------------------------------------------------
(* No step is attempted before all it depends on has completed, and what      *)
(* depends on a failed step never is.                                         *)
DependenciesFirst ==
  \A s \in Step : status[s] \in {"running", "completed"} \/ tries[s] > 0
                    => deps[s] \subseteq In("completed")

(* The pending steps that wait for an id that names no step, directly or      *)
(* through others.                                                            *)
Stuck == {s \in In("pending") : \A S \in SUBSET Step :
            (\A x \in Step : deps[x] \ Step # {} \/ deps[x] \intersect S # {} => x \in S)
              => s \in S}

(* When the campaign ends nothing runs; a failure has reached all dependents; *)
(* each failed step has used up its attempts or depends on a failed one; and  *)
(* what still waits, waits for an id that names no step.                      *)
EndIsAccounted ==
  phase = "done" =>
    /\ In("running") = {} /\ In("pending") = Stuck
    /\ \A s \in Step : deps[s] \intersect In("failed") # {} => status[s] = "failed"
    /\ \A s \in In("failed") : \/ tries[s] = Retries[s] + 1
                               \/ deps[s] \intersect In("failed") # {}
    /\ outcome = "completed" => In("completed") = Step

(* A campaign ends, whatever its plan and however its attempts go.            *)
Ends == <>(phase \in {"done", "rejected"})

(* Rounds, retries and the cascade implement the graph of steps.              *)
StateOf == [pending |-> "waiting", running |-> "running",
            completed |-> "succeeded", failed |-> "failed"]
G == INSTANCE StepGraph WITH state <- [s \in Step |-> StateOf[status[s]]]
ImplementsGraph == G!Spec
=============================================================================
