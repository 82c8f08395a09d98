----------------------------- MODULE StepGraph -----------------------------
(* What a campaign promises, without batches, retries or a semaphore: a step  *)
(* runs only after all it depends on has succeeded, fails of itself only      *)
(* while it runs, and is given up when something it depends on has failed.    *)
EXTENDS Naturals, FiniteSets

CONSTANTS Step, MaxParallel

VARIABLES
  deps,    \* Step -> the ids it depends on
  state    \* Step -> "waiting", "running", "succeeded", "failed"

graph == <<deps, state>>

In(st) == {s \in Step : state[s] = st}

Init == state = [s \in Step |-> "waiting"]

Start(s) ==
  /\ state[s] = "waiting"
  /\ deps[s] \subseteq In("succeeded")
  /\ Cardinality(In("running")) < MaxParallel
  /\ state' = [state EXCEPT ![s] = "running"]
  /\ deps' = deps

End(s, how) ==
  /\ state[s] = "running"
  /\ state' = [state EXCEPT ![s] = how]
  /\ deps' = deps

(* Steps are given up together, each for a step it depends on.                *)
GiveUp(S) ==
  /\ S # {} /\ S \subseteq In("waiting")
  /\ \A s \in S : deps[s] \intersect (In("failed") \union S) # {}
  /\ state' = [s \in Step |-> IF s \in S THEN "failed" ELSE state[s]]
  /\ deps' = deps

Next == \/ \E s \in Step : Start(s) \/ End(s, "succeeded") \/ End(s, "failed")
        \/ \E S \in SUBSET Step : GiveUp(S)

Spec == Init /\ [][Next]_graph
=============================================================================
