--------------------------- MODULE CampaignProofs ---------------------------
(* Theorems about Campaign, for any plan, any number of steps and retries and *)
(* any width of the semaphore.                                                *)
EXTENDS Campaign, TLAPS

USE RetriesAssumption

(* Running steps are in the round, what is in the round has not ended, and    *)
(* there is a round only in its phase.                                        *)
RoundFits ==
  /\ In("running") \subseteq round
  /\ \A s \in round : status[s] \in {"pending", "running"}
  /\ phase # "round" => round = {}

(* Attempts are counted for steps that have started.                          *)
TriesFit ==
  \A s \in Step : /\ status[s] = "pending" => tries[s] = 0
                  /\ status[s] = "running" => tries[s] <= Retries[s]

(* What is in the round has its dependencies, started or not.                 *)
RoundIsReady == \A s \in round : deps[s] \subseteq In("completed")

(* A step fails of itself after its last attempt, or for one it depends on.   *)
FailuresHaveCauses ==
  \A s \in In("failed") : \/ tries[s] = Retries[s] + 1
                          \/ deps[s] \intersect In("failed") # {}

(* What starts has passed the check for cycles.                               *)
PassedCheck == phase \notin {"check", "rejected"} => ~Cyclic

IInv == /\ TypeOK /\ RoundFits /\ TriesFit /\ RoundIsReady /\ DependenciesFirst
        /\ FailuresHaveCauses /\ PassedCheck /\ EndIsAccounted

-----------------------------------------------------------------------------
(* The cascade: Doomed is defined as the smallest closed set of pending       *)
(* steps.  It is closed ...                                                   *)
LEMMA DoomedIsClosed == Closed(Doomed)
<1> SUFFICES ASSUME NEW s \in In("pending"),
                    deps[s] \intersect (In("failed") \union Doomed) # {},
                    NEW S \in SUBSET In("pending"), Closed(S)
             PROVE  s \in S
  BY DEF Closed, Doomed
<1>1. Doomed \subseteq S
  BY DEF Doomed
<1> QED
  BY <1>1 DEF Closed

(* ... and no step is in it without a reason: without the steps that have     *)
(* none it would still be closed.                                             *)
LEMMA DoomedHaveCauses ==
  ASSUME NEW s \in Doomed
  PROVE  deps[s] \intersect (In("failed") \union Doomed) # {}
<1> SUFFICES ASSUME deps[s] \intersect (In("failed") \union Doomed) = {}
             PROVE  FALSE
  OBVIOUS
<1> DEFINE S == Doomed \ {s}
<1>1. S \in SUBSET In("pending")
  BY DEF Doomed
<1>2. Closed(S)
  <2> SUFFICES ASSUME NEW x \in In("pending"),
                      deps[x] \intersect (In("failed") \union S) # {}
               PROVE  x \in Doomed /\ x # s
    BY DEF Closed
  <2> QED
    BY DoomedIsClosed DEF Closed
<1>3. s \in S
  BY <1>1, <1>2 DEF Doomed
<1> QED
  BY <1>3

(* What Select does to the steps, by status.                                  *)
LEMMA SelectDoes ==
  ASSUME TypeOK, Select
  PROVE  /\ In("failed")' = In("failed") \union Doomed
         /\ In("pending")' = In("pending") \ Doomed
         /\ In("running")' = In("running")
         /\ In("completed")' = In("completed")
         /\ Doomed \subseteq In("pending")
BY DEF Select, In, Doomed, TypeOK

(* A step in the round has all its dependencies, so no failure dooms it.      *)
LEMMA ReadyIsNotDoomed ==
  ASSUME NEW s \in Ready
  PROVE  s \notin Doomed
BY DoomedHaveCauses DEF Ready, In, Doomed

-----------------------------------------------------------------------------
(* Initially.                                                                 *)
LEMMA InitIInv == Init => IInv
BY DEF Init, IInv, TypeOK, RoundFits, TriesFit, RoundIsReady, DependenciesFirst,
       FailuresHaveCauses, PassedCheck, EndIsAccounted, In

(* What the steps of a round do to the statuses: they only go on.             *)
LEMMA MovesDo ==
  ASSUME IInv, NEW s \in Step, Start(s) \/ Succeed(s) \/ Fail(s)
  PROVE  /\ TypeOK'
         /\ s \in round /\ phase = "round" /\ phase' = "round" /\ deps' = deps
         /\ round' \subseteq round
         /\ \A x \in Step \ {s} : status'[x] = status[x] /\ tries'[x] = tries[x]
                                  /\ (x \in round => x \in round')
         /\ status[s] \in {"pending", "running"}
         /\ \/ s \in round' /\ status'[s] = "running" /\ tries'[s] <= Retries[s]
            \/ s \notin round' /\ status'[s] = "completed"
            \/ s \notin round' /\ status'[s] = "failed" /\ tries'[s] = Retries[s] + 1
<1> USE DEF IInv, TypeOK, RoundFits, TriesFit, In
<1>1. CASE Start(s)
  BY <1>1 DEF Start
<1>2. CASE Succeed(s)
  BY <1>2 DEF Succeed, Leave
<1>3. CASE Fail(s)
  <2>1. CASE tries[s] < Retries[s]
    BY <1>3, <2>1 DEF Fail
  <2>2. CASE ~(tries[s] < Retries[s])
    <3>1. tries[s] = Retries[s]
      BY <1>3, <2>2 DEF Fail
    <3> QED
      BY <1>3, <2>2, <3>1 DEF Fail, Leave
  <2> QED
    BY <2>1, <2>2
<1> QED
  BY <1>1, <1>2, <1>3

LEMMA MovesKeepIInv ==
  ASSUME IInv, NEW s \in Step, Start(s) \/ Succeed(s) \/ Fail(s)
  PROVE  IInv'
<1> USE DEF IInv
<1>1. TypeOK' /\ deps' = deps /\ phase' = "round"
  BY MovesDo
<1>2. RoundFits'
  BY MovesDo DEF RoundFits, In, TypeOK
<1>3. TriesFit'
  BY MovesDo DEF TriesFit, TypeOK
<1>4. In("completed") \subseteq In("completed")' /\ In("failed") \subseteq In("failed")'
  BY MovesDo DEF In
<1>5. RoundIsReady'
  BY <1>1, <1>4, MovesDo DEF RoundIsReady
<1>6. DependenciesFirst'
  <2> SUFFICES ASSUME NEW x \in Step,
                      status'[x] \in {"running", "completed"} \/ tries'[x] > 0
               PROVE  deps[x] \subseteq In("completed")
    BY <1>1, <1>4 DEF DependenciesFirst
  <2>1. CASE x = s
    BY <2>1, MovesDo DEF RoundIsReady
  <2>2. CASE x # s
    BY <2>2, MovesDo DEF DependenciesFirst
  <2> QED
    BY <2>1, <2>2
<1>7. FailuresHaveCauses'
  BY <1>1, <1>4, MovesDo DEF FailuresHaveCauses, In
<1>8. PassedCheck' /\ EndIsAccounted'
  BY <1>1, MovesDo DEF PassedCheck, EndIsAccounted, Cyclic
<1> QED
  BY <1>1, <1>2, <1>3, <1>5, <1>6, <1>7, <1>8

(* When no step is ready the pending ones that are not doomed wait for an id  *)
(* that names no step: the others would each depend on one of them.           *)
LEMMA EndAccounted ==
  ASSUME IInv, Select, Ready = {}, FailuresHaveCauses'
  PROVE  EndIsAccounted'
<1> USE DEF IInv
<1>1. deps' = deps /\ phase = "select" /\ round = {} /\ In("running") = {}
  BY DEF Select, RoundFits
<1>2. In("running")' = {}
  BY <1>1, SelectDoes
<1>3. \A s \in Step : deps[s] \intersect In("failed")' # {} => status'[s] = "failed"
  <2> SUFFICES ASSUME NEW s \in Step, deps[s] \intersect In("failed")' # {},
                      status[s] # "failed"
               PROVE  s \in Doomed
    BY SelectDoes DEF In
  <2>1. status[s] # "completed"
    BY SelectDoes DEF DependenciesFirst, In
  <2>2. s \in In("pending")
    BY <1>1, <2>1 DEF In, TypeOK
  <2> QED
    BY <2>2, SelectDoes, DoomedIsClosed DEF Closed
<1>4. In("pending")' = Stuck'
  <2> SUFFICES ASSUME NEW s \in In("pending")', NEW S \in SUBSET Step,
                      \A x \in Step : deps[x] \ Step # {} \/ deps[x] \intersect S # {}
                                        => x \in S,
                      s \notin S
               PROVE  FALSE
    BY <1>1 DEF Stuck
  <2> DEFINE T == In("pending")' \ S
  <2>1. ASSUME NEW x \in T PROVE deps[x] \intersect T # {}
    <3>1. x \in Step /\ deps[x] \subseteq Step /\ deps[x] \intersect S = {}
      BY <2>1 DEF In
    <3>2. x \in In("pending") /\ ~(deps[x] \subseteq In("completed"))
      BY <2>1, SelectDoes DEF Ready
    <3>3. PICK d \in deps[x] : d \notin In("completed")
      BY <3>2
    <3>4. d \notin In("failed")'
      BY <1>3, <2>1, <3>1, <3>3 DEF In
    <3>5. d \in In("pending")'
      BY <1>2, <3>1, <3>3, <3>4, SelectDoes, TypeOK DEF In, TypeOK
    <3> QED
      BY <3>1, <3>3, <3>5
  <2>2. T \in SUBSET Step /\ s \in T
    BY DEF In
  <2>3. Cyclic
    BY <2>1, <2>2 DEF Cyclic
  <2> QED
    BY <1>1, <2>3 DEF PassedCheck
<1>5. \A s \in In("failed")' : \/ tries'[s] = Retries[s] + 1
                               \/ deps[s] \intersect In("failed")' # {}
  BY <1>1 DEF FailuresHaveCauses
<1>6. outcome' = "completed" => In("completed")' = Step
  BY SelectDoes DEF Select, Report
<1> QED
  BY <1>1, <1>2, <1>3, <1>4, <1>5, <1>6 DEF EndIsAccounted

LEMMA SelectKeepsIInv == IInv /\ Select => IInv'
<1> SUFFICES ASSUME IInv, Select PROVE IInv'
  OBVIOUS
<1> USE DEF IInv
<1>1. /\ deps' = deps /\ tries' = tries /\ round' = Ready /\ phase = "select"
      /\ phase' = (IF Ready = {} THEN "done" ELSE "round")
  BY DEF Select
<1>2. TypeOK'
  BY DEF Select, TypeOK, Ready, In, Report
<1>3. RoundFits'
  <2>1. In("running")' = {}
    BY <1>1, SelectDoes DEF RoundFits
  <2>2. \A s \in Ready : status'[s] = "pending"
    BY ReadyIsNotDoomed, SelectDoes DEF Ready, In
  <2> QED
    BY <1>1, <2>1, <2>2 DEF RoundFits
<1>4. TriesFit'
  <2> SUFFICES ASSUME NEW s \in Step
               PROVE  status'[s] \in {"pending", "running"} => status'[s] = status[s]
    BY <1>1 DEF TriesFit
  <2> QED
    BY SelectDoes DEF Select, In
<1>5. RoundIsReady'
  BY <1>1, SelectDoes DEF RoundIsReady, Ready
<1>6. DependenciesFirst'
  <2> SUFFICES ASSUME NEW s \in Step,
                      status'[s] \in {"running", "completed"} \/ tries[s] > 0
               PROVE  deps[s] \subseteq In("completed")
    BY <1>1, SelectDoes DEF DependenciesFirst
  <2> QED
    BY DEF Select, DependenciesFirst
<1>7. FailuresHaveCauses'
  BY <1>1, SelectDoes, DoomedHaveCauses DEF FailuresHaveCauses
<1>8. PassedCheck'
  BY <1>1 DEF PassedCheck, Cyclic
<1>9. EndIsAccounted'
  <2>1. CASE Ready = {}
    BY <1>7, <2>1, EndAccounted
  <2>2. CASE Ready # {}
    BY <1>1, <2>2 DEF EndIsAccounted
  <2> QED
    BY <2>1, <2>2
<1> QED
  BY <1>2, <1>3, <1>4, <1>5, <1>6, <1>7, <1>8, <1>9

(* Every step keeps the invariant.                                            *)
LEMMA NextIInv == IInv /\ [Next]_vars => IInv'
<1> SUFFICES ASSUME IInv, [Next]_vars PROVE IInv'
  OBVIOUS
<1> USE DEF IInv, TypeOK, RoundFits, TriesFit, RoundIsReady, DependenciesFirst,
            FailuresHaveCauses, PassedCheck, EndIsAccounted, In, Stuck, Cyclic
<1>1. CASE Check
  BY <1>1 DEF Check
<1>2. CASE EndRound
  BY <1>2 DEF EndRound
<1>3. CASE Select
  BY <1>3, SelectKeepsIInv
<1>4. ASSUME NEW s \in Step, Start(s) \/ Succeed(s) \/ Fail(s) PROVE IInv'
  BY <1>4, MovesKeepIInv
<1>5. CASE UNCHANGED vars
  BY <1>5 DEF vars
<1> QED
  BY <1>1, <1>2, <1>3, <1>4, <1>5 DEF Next

LEMMA Invariant == Spec => []IInv
BY InitIInv, NextIInv, PTL DEF Spec

(* Statuses, attempts and the round stay well formed: no step is tried more   *)
(* often than max_retries allows.                                             *)
THEOREM TypeCorrect == Spec => []TypeOK
<1>1. IInv => TypeOK
  BY DEF IInv
<1> QED
  BY <1>1, Invariant, PTL

(* No step is attempted before everything that it depends on has completed.   *)
THEOREM DependenciesComeFirst == Spec => []DependenciesFirst
<1>1. IInv => DependenciesFirst
  BY DEF IInv
<1> QED
  BY <1>1, Invariant, PTL

(* When the campaign ends, the cascade has reached every dependent of a       *)
(* failure and only those, and only steps behind an unknown id still wait.    *)
THEOREM EndAccountsForAll == Spec => []EndIsAccounted
<1>1. IInv => EndIsAccounted
  BY DEF IInv
<1> QED
  BY <1>1, Invariant, PTL

-----------------------------------------------------------------------------
(* The refinement: rounds, retries and the cascade implement StepGraph.       *)

LEMMA Mapped ==
  ASSUME TypeOK
  PROVE  /\ G!In("waiting") = In("pending")
         /\ G!In("running") = In("running")
         /\ G!In("succeeded") = In("completed")
         /\ G!In("failed") = In("failed")
BY DEF TypeOK, G!In, In, StateOf

LEMMA StatesOf ==
  /\ StateOf["pending"] = "waiting" /\ StateOf["running"] = "running"
  /\ StateOf["completed"] = "succeeded" /\ StateOf["failed"] = "failed"
BY DEF StateOf

(* One step's change of status is one change of the mapped state.             *)
LEMMA MappedMove ==
  ASSUME TypeOK, NEW s \in Step, NEW v, NEW w,
         status' = [status EXCEPT ![s] = v], StateOf[v] = w
  PROVE  [x \in Step |-> StateOf[status[x]]]'
           = [[x \in Step |-> StateOf[status[x]]] EXCEPT ![s] = w]
BY DEF TypeOK

LEMMA InitImplements == Init => G!Init
BY DEF Init, G!Init, StateOf

(* Select gives up the doomed steps, if there are any.                        *)
LEMMA SelectImplements ==
  ASSUME IInv, TypeOK', Select
  PROVE  [G!Next]_G!graph
<1> USE DEF IInv
<1>1. deps' = deps
  BY DEF Select
<1> DEFINE new == [s \in Step |-> StateOf[status'[s]]]
           old == [s \in Step |-> StateOf[status[s]]]
<1>2. new = [s \in Step |-> IF s \in Doomed THEN "failed" ELSE old[s]]
  BY DEF Select, TypeOK, StateOf
<1>3. CASE Doomed = {}
  BY <1>1, <1>2, <1>3 DEF G!graph
<1>4. CASE Doomed # {}
  <2>1. PICK D \in SUBSET Step : D = Doomed
    BY DEF Doomed, In
  <2>2. D \subseteq G!In("waiting")
    BY <2>1, Mapped, SelectDoes
  <2>3. \A s \in D : deps[s] \intersect (G!In("failed") \union D) # {}
    BY <2>1, Mapped, DoomedHaveCauses
  <2>4. G!GiveUp(D)
    BY <1>1, <1>2, <1>4, <2>1, <2>2, <2>3 DEF G!GiveUp
  <2> QED
    BY <2>4 DEF G!Next
<1> QED
  BY <1>3, <1>4

(* What starts may start in the graph: it has its dependencies.               *)
LEMMA StartImplements ==
  ASSUME TypeOK, RoundIsReady, NEW s \in Step, Start(s)
  PROVE  G!Start(s)
<1>1. /\ status[s] = "pending" /\ s \in round /\ deps' = deps
      /\ status' = [status EXCEPT ![s] = "running"]
      /\ StateOf["running"] = "running"
  BY StatesOf DEF Start
<1>2. [x \in Step |-> StateOf[status[x]]]'
        = [[x \in Step |-> StateOf[status[x]]] EXCEPT ![s] = "running"]
  BY <1>1, MappedMove
<1>3. [x \in Step |-> StateOf[status[x]]][s] = "waiting"
  BY <1>1, StatesOf
<1>4. deps[s] \subseteq G!In("succeeded")
  BY <1>1, Mapped DEF RoundIsReady
<1>5. G!Cardinality(G!In("running")) = Cardinality(G!In("running"))
  BY DEF G!Cardinality, Cardinality
<1>6. G!Cardinality(G!In("running")) < MaxParallel
  BY <1>5, Mapped DEF Start
<1> QED
  BY <1>1, <1>2, <1>3, <1>4, <1>6 DEF G!Start

LEMMA EndImplements ==
  ASSUME TypeOK, NEW s \in Step, NEW v, NEW w, status[s] = "running",
         status' = [status EXCEPT ![s] = v], StateOf[v] = w, deps' = deps
  PROVE  G!End(s, w)
<1>1. [x \in Step |-> StateOf[status[x]]]'
        = [[x \in Step |-> StateOf[status[x]]] EXCEPT ![s] = w]
  BY MappedMove
<1>2. [x \in Step |-> StateOf[status[x]]][s] = "running"
  BY StatesOf
<1> QED
  BY <1>1, <1>2 DEF G!End

(* An attempt that is repeated changes nothing in the graph.                  *)
LEMMA MovesImplement ==
  ASSUME TypeOK, RoundIsReady, NEW s \in Step, Start(s) \/ Succeed(s) \/ Fail(s)
  PROVE  [G!Next]_G!graph
<1>1. CASE Start(s)
  BY <1>1, StartImplements DEF G!Next
<1>2. CASE Succeed(s)
  <2>1. G!End(s, "succeeded")
    BY <1>2, StatesOf, EndImplements DEF Succeed, Leave
  <2> QED
    BY <2>1 DEF G!Next
<1>3. CASE Fail(s) /\ tries[s] < Retries[s]
  BY <1>3 DEF Fail, G!graph
<1>4. CASE Fail(s) /\ ~(tries[s] < Retries[s])
  <2>1. G!End(s, "failed")
    BY <1>4, StatesOf, EndImplements DEF Fail, Leave
  <2> QED
    BY <2>1 DEF G!Next
<1> QED
  BY <1>1, <1>2, <1>3, <1>4

LEMMA NextImplements == IInv /\ IInv' /\ [Next]_vars => [G!Next]_G!graph
<1> SUFFICES ASSUME IInv, IInv', [Next]_vars PROVE [G!Next]_G!graph
  OBVIOUS
<1>1. TypeOK'
  BY DEF IInv
<1>2. CASE Check \/ EndRound \/ UNCHANGED vars
  BY <1>2 DEF Check, EndRound, vars, G!graph
<1>3. CASE Select
  BY <1>1, <1>3, SelectImplements
<1>4. ASSUME NEW s \in Step, Start(s) \/ Succeed(s) \/ Fail(s) PROVE [G!Next]_G!graph
  BY <1>4, MovesImplement DEF IInv
<1> QED
  BY <1>2, <1>3, <1>4 DEF Next

(* A campaign, with its rounds, retries, semaphore and cascade, does what the *)
(* graph of its steps allows.                                                 *)
THEOREM CampaignImplementsGraph == Spec => ImplementsGraph
BY InitImplements, NextImplements, Invariant, PTL DEF Spec, ImplementsGraph, G!Spec
=============================================================================
