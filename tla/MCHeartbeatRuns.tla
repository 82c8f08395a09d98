-------------------------- MODULE MCHeartbeatRuns --------------------------
(* Instances of HeartbeatRuns for TLC.                                       *)
EXTENDS HeartbeatRuns, TLC

OneEach == [a \in Agent |-> 1]
TwoEach == [a \in Agent |-> 2]

Handlers == Permutations(Handler)
Symmetry == Permutations(Agent) \union Handlers
=============================================================================
