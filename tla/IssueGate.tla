----------------------------- MODULE IssueGate -----------------------------
(* What the issue execution lock promises the agents of a company, without   *)
(* runs, rows or handlers (doc/plans/issue-run-orchestration-plan.md, Rules  *)
(* A to C): at any time at most one agent executes an issue, the others wait *)
(* in the order they came, and whoever leaves hands the issue over.          *)
EXTENDS Naturals, Sequences

CONSTANTS Agent, Issue, NoAgent

VARIABLES
  phase,    \* Issue -> "free", "held", or "ending" (the holder is over, not yet gone)
  holder,   \* Issue -> the agent executing it, NoAgent if free
  waiting   \* Issue -> the agents waiting, oldest first

gate == <<phase, holder, waiting>>

Init ==
  /\ phase = [s \in Issue |-> "free"]
  /\ holder = [s \in Issue |-> NoAgent]
  /\ waiting = [s \in Issue |-> <<>>]

(* A wake finds nobody executing the issue.  One that arrives while the last *)
(* holder is going away overtakes the agents that wait.                      *)
Enter(s, a) ==
  /\ phase[s] # "held"
  /\ phase' = [phase EXCEPT ![s] = "held"]
  /\ holder' = [holder EXCEPT ![s] = a]
  /\ waiting' = waiting

(* A wake finds the issue held, and its agent does not wait for it yet.  The *)
(* holder itself may wait, for the comments that follow its execution.       *)
Wait(s, a) ==
  /\ phase[s] = "held"
  /\ \A i \in 1..Len(waiting[s]) : waiting[s][i] # a
  /\ waiting' = [waiting EXCEPT ![s] = Append(@, a)]
  /\ UNCHANGED <<phase, holder>>

Finish(s) ==
  /\ phase[s] = "held"
  /\ phase' = [phase EXCEPT ![s] = "ending"]
  /\ UNCHANGED <<holder, waiting>>

(* The holder goes: the issue is free and nobody waits any more, or it passes *)
(* to a waiting agent and those before it, who may not run, are dropped.      *)
HandOver(s) ==
  /\ phase[s] = "ending"
  /\ \/ /\ phase' = [phase EXCEPT ![s] = "free"]
        /\ holder' = [holder EXCEPT ![s] = NoAgent]
        /\ waiting' = [waiting EXCEPT ![s] = <<>>]
     \/ \E i \in 1..Len(waiting[s]) :
          /\ phase' = [phase EXCEPT ![s] = "held"]
          /\ holder' = [holder EXCEPT ![s] = waiting[s][i]]
          /\ waiting' = [waiting EXCEPT ![s] = SubSeq(@, i + 1, Len(@))]

Next == \E s \in Issue : Finish(s) \/ HandOver(s)
                         \/ \E a \in Agent : Enter(s, a) \/ Wait(s, a)

Spec == Init /\ [][Next]_gate
=============================================================================
