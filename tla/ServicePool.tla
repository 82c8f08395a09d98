---------------------------- MODULE ServicePool ----------------------------
(* What the workspace services promise the runs, without the maps, rows,     *)
(* timers and statements by which it is kept: a run uses services only when  *)
(* it has one for each key it asks for, shares none that is not to be        *)
(* shared, loses none to another run or to a timer, and leaves all behind.   *)
EXTENDS Naturals, Sequences

CONSTANTS Run, Service, NoKey,
          Wants   \* Run -> keys of the services it asks for

VARIABLES
  pool,     \* Service -> its key, state, users and whether its process lives
  stage,    \* Run -> "acquiring", "using", "releasing" or "done"
  failed    \* Run -> has a statement of its own failed

vars == <<pool, stage, failed>>

Init ==
  /\ pool = [i \in Service |-> [key |-> NoKey, state |-> "absent", users |-> {},
                                alive |-> FALSE]]
  /\ stage = [r \in Run |-> "acquiring"]
  /\ failed = [r \in Run |-> FALSE]

Asks(r, k) == \E n \in 1..Len(Wants[r]) : Wants[r][n] = k

(* The run has a service with the key, or had one that is gone.              *)
Served(r, k) ==
  \E i \in Service : /\ pool[i].key = k
                     /\ \/ pool[i].state = "registered" /\ r \in pool[i].users
                        \/ pool[i].state = "gone"

Becomes(i, state, users, alive) ==
  pool' = [pool EXCEPT ![i] = [key |-> pool[i].key, state |-> state, users |-> users,
                               alive |-> alive]]

----------------------------------------------------------------------------
(* A service is started for a run, and in the end admitted with that run as  *)
(* its only user.                                                            *)
Launch(i, r) ==
  /\ stage[r] = "acquiring" /\ pool[i].state = "absent"
  /\ \E n \in 1..Len(Wants[r]) :
       pool' = [pool EXCEPT ![i] = [key |-> Wants[r][n], state |-> "starting",
                                    users |-> {}, alive |-> TRUE]]
  /\ UNCHANGED <<stage, failed>>

Admit(i, r) ==
  /\ stage[r] = "acquiring" /\ pool[i].state = "starting" /\ Asks(r, pool[i].key)
  /\ Becomes(i, "registered", {r}, pool[i].alive)
  /\ UNCHANGED <<stage, failed>>

(* Others that ask for its key join, while it is there.                      *)
Join(i, r) ==
  /\ stage[r] = "acquiring" /\ pool[i].state = "registered"
  /\ pool[i].key # NoKey /\ Asks(r, pool[i].key)
  /\ Becomes(i, "registered", pool[i].users \union {r}, pool[i].alive)
  /\ UNCHANGED <<stage, failed>>

(* Only a run that is done using leaves.                                     *)
Leave(i, r) ==
  /\ stage[r] = "releasing" /\ pool[i].state = "registered"
  /\ Becomes(i, "registered", pool[i].users \ {r}, pool[i].alive)
  /\ UNCHANGED <<stage, failed>>

(* A service is stopped when it has no users; its process may end any time.  *)
Stop(i) ==
  /\ pool[i].state = "registered" /\ pool[i].users = {}
  /\ Becomes(i, "gone", {}, pool[i].alive)
  /\ UNCHANGED <<stage, failed>>

Exit(i) ==
  /\ pool[i].alive
  /\ \/ pool[i].state = "registered" /\ Becomes(i, "gone", {}, FALSE)
     \/ pool[i].state # "registered" /\ Becomes(i, pool[i].state, pool[i].users, FALSE)
  /\ UNCHANGED <<stage, failed>>

----------------------------------------------------------------------------
Begin(r) ==
  /\ stage[r] = "acquiring"
  /\ \A n \in 1..Len(Wants[r]) : Served(r, Wants[r][n])
  /\ stage' = [stage EXCEPT ![r] = "using"]
  /\ UNCHANGED <<pool, failed>>

(* A service does not come up, or a statement fails: what the run has is     *)
(* given back.                                                               *)
Abandon(r) ==
  /\ stage[r] = "acquiring"
  /\ stage' = [stage EXCEPT ![r] = "releasing"]
  /\ \/ /\ \E i \in Service :
             pool[i].state = "starting" /\ Becomes(i, "gone", {}, pool[i].alive)
        /\ UNCHANGED failed
     \/ failed' = [failed EXCEPT ![r] = TRUE] /\ UNCHANGED pool

End(r) ==
  /\ stage[r] = "using"
  /\ stage' = [stage EXCEPT ![r] = "releasing"]
  /\ UNCHANGED <<pool, failed>>

(* It is done when it uses none any more, or when one of its statements      *)
(* fails: then leases may remain.                                            *)
Finish(r) ==
  /\ stage[r] = "releasing"
  /\ stage' = [stage EXCEPT ![r] = "done"]
  /\ \/ (failed[r] \/ \A i \in Service : r \notin pool[i].users) /\ UNCHANGED failed
     \/ failed' = [failed EXCEPT ![r] = TRUE]
  /\ UNCHANGED pool

Next ==
  \/ \E r \in Run : \/ Begin(r) \/ Abandon(r) \/ End(r) \/ Finish(r)
                    \/ \E i \in Service : \/ Launch(i, r) \/ Admit(i, r)
                                          \/ Join(i, r) \/ Leave(i, r)
  \/ \E i \in Service : Stop(i) \/ Exit(i)

Spec == Init /\ [][Next]_vars
=============================================================================
