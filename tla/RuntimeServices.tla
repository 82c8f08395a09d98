-------------------------- MODULE RuntimeServices --------------------------
(* The workspace services of running agents,                                 *)
(* paperclip/server/src/services/workspace-runtime.ts: dev servers and other *)
(* child processes a run starts, or shares with the runs that need the same, *)
(* and that are stopped when nobody leases them any more.                    *)
(*                                                                           *)
(* Everything here is memory of the one server process.  A run acquires its  *)
(* services before its adapter starts and releases them when it has          *)
(* returned (heartbeat.ts); other runs and callbacks step in at every await, *)
(* which is where a pc of call changes.                                      *)
(*                                                                           *)
(* Abstracted: a reuse key is a member of Key (scope, name and environment); *)
(* an ephemeral service has NoKey.  The rows in which services are persisted *)
(* steer nothing while the server runs: writing one is a statement that      *)
(* takes time and may fail.                                                  *)
EXTENDS Naturals, Sequences, FiniteSets

CONSTANTS
  Run,
  Key, NoKey,
  Wants,         \* Run -> keys of the services its workspace asks for, in order
  Policy,        \* Key -> stopPolicy.type of the service
  FixedPort,     \* keys of services that do not ask for a port of their own
  MayFail,       \* TRUE: a statement on the database may fail
  MaxServices    \* bound: processes started in a behaviour

Policies == {"on_run_finish", "idle_timeout", "manual"}

ASSUME WantsAssumption == Wants \in [Run -> Seq(Key \union {NoKey})]
ASSUME PolicyAssumption == Policy \in [Key -> Policies]
ASSUME KeyAssumption == NoKey \notin Key /\ FixedPort \subseteq Key
ASSUME ServiceBound == MaxServices \in Nat /\ MayFail \in BOOLEAN

Service == 1..MaxServices

VARIABLES
  service,   \* Service -> its record and its child process
  byKey,     \* Key -> runtimeServicesByReuseKey (0: no entry)
  call       \* Run -> where its acquisition, use or release of services is

vars == <<service, byKey, call>>

(* state: "starting" until readiness, "registered" in runtimeServicesById,   *)
(* "gone" when dropped from it; alive: the child process has not exited.     *)
Record == [key : Key \union {NoKey},
           state : {"absent", "starting", "registered", "gone"},
           alive : BOOLEAN,
           leases : SUBSET Run,
           timer : BOOLEAN]

(* held: runtimeServiceLeasesByRun; failed: a statement of the call failed.   *)
Call == [pc : {"ensure", "ready", "persist", "using", "release", "releasing",
               "stopping", "done"},
         todo : Seq(Key \union {NoKey}),
         held : Seq(Service),
         current : 0..MaxServices,
         failed : BOOLEAN]

TypeOK ==
  /\ service \in [Service -> Record]
  /\ byKey \in [Key -> 0..MaxServices]
  /\ call \in [Run -> Call]

Init ==
  /\ service = [i \in Service |-> [key |-> NoKey, state |-> "absent", alive |-> FALSE,
                                   leases |-> {}, timer |-> FALSE]]
  /\ byKey = [k \in Key |-> 0]
  /\ call = [r \in Run |-> [pc |-> "ensure", todo |-> Wants[r], held |-> <<>>,
                            current |-> 0, failed |-> FALSE]]

-----------------------------------------------------------------------------
Registered(i) == i \in Service /\ service[i].state = "registered"

At(r, pc) == call[r].pc = pc

Goto(r, pc) == call' = [call EXCEPT ![r].pc = pc]

(* Its last lease gone, a service stops at once, after a while, or never.    *)
StopPolicy(i) == IF service[i].key = NoKey THEN "on_run_finish" ELSE Policy[service[i].key]

(* What is left of a record that is dropped: its child, until it exits.      *)
Gone(i, alive) == [service[i] EXCEPT !.state = "gone", !.alive = alive, !.timer = FALSE,
                                     !.leases = {}]

(* stopRuntimeService: the record is dropped, with the entry of its key, and *)
(* the child is told to terminate.                                           *)
Stop(i) ==
  /\ service' = [service EXCEPT ![i] = Gone(i, service[i].alive)]
  /\ byKey' = [k \in Key |-> IF k = service[i].key THEN 0 ELSE byKey[k]]

-----------------------------------------------------------------------------
(* ensureRuntimeServicesForRun, one service after the other.                 *)

Reusable(k) == IF k \in Key /\ Registered(byKey[k]) THEN byKey[k] ELSE 0

(* Mutant of Reuse: the idle timer goes on.                                  *)
ReuseAndLetTimerRun(r) ==
  /\ At(r, "ensure") /\ call[r].todo # <<>>
  /\ LET i == Reusable(Head(call[r].todo)) IN
     /\ i # 0
     /\ service' = [service EXCEPT ![i].leases = @ \union {r}]
     /\ call' = [call EXCEPT ![r].pc = "persist", ![r].current = i]
  /\ UNCHANGED byKey

(* A running service with the key is leased.                                 *)
Reuse(r) ==
  /\ At(r, "ensure") /\ call[r].todo # <<>>
  /\ LET i == Reusable(Head(call[r].todo)) IN
     /\ i # 0
     /\ service' = [service EXCEPT ![i].leases = @ \union {r}, ![i].timer = FALSE]
     /\ call' = [call EXCEPT ![r].pc = "persist", ![r].current = i]
  /\ UNCHANGED byKey

(* There is none: a child process is started.                                *)
Start(r) ==
  /\ At(r, "ensure") /\ call[r].todo # <<>>
  /\ Reusable(Head(call[r].todo)) = 0
  /\ \E i \in Service :
       /\ service[i].state = "absent"
       /\ \A j \in Service : j < i => service[j].state # "absent"
       /\ service' = [service EXCEPT ![i].state = "starting", ![i].alive = TRUE,
                                     ![i].key = Head(call[r].todo)]
       /\ call' = [call EXCEPT ![r].pc = "ready", ![r].current = i]
  /\ UNCHANGED byKey

(* The service's url answers: its own child does, or with a fixed port any   *)
(* process of that service.                                                  *)
Answers(i) ==
  \/ service[i].alive
  \/ /\ service[i].key \in FixedPort
     /\ \E j \in Service : service[j].key = service[i].key /\ service[j].alive

(* Mutant of Ready: the run that starts a service does not lease it.         *)
ReadyWithoutLease(r) ==
  /\ At(r, "ready")
  /\ LET i == call[r].current IN
     /\ Answers(i)
     /\ service' = [service EXCEPT ![i].state = "registered"]
     /\ byKey' = [k \in Key |-> IF k = service[i].key THEN i ELSE byKey[k]]
  /\ Goto(r, "persist")

(* waitForReadiness returns: the record is registered, under its key too.    *)
Ready(r) ==
  /\ At(r, "ready")
  /\ LET i == call[r].current IN
     /\ Answers(i)
     /\ service' = [service EXCEPT ![i].state = "registered", ![i].leases = {r}]
     /\ byKey' = [k \in Key |-> IF k = service[i].key THEN i ELSE byKey[k]]
  /\ Goto(r, "persist")

(* ... or times out: the child is killed, what the run holds is released.    *)
NotReady(r) ==
  /\ At(r, "ready")
  /\ LET i == call[r].current IN
     service' = [service EXCEPT ![i] = Gone(i, service[i].alive)]
  /\ Goto(r, "release")
  /\ UNCHANGED byKey

(* Mutant of Acquired: the service is not noted as the run's.                *)
AcquiredUnnoted(r) ==
  /\ At(r, "persist")
  /\ call' = [call EXCEPT ![r].pc = "ensure", ![r].todo = Tail(@)]
  /\ UNCHANGED <<service, byKey>>

(* The row is written: the service is the run's, on to the next one.         *)
Acquired(r) ==
  /\ At(r, "persist")
  /\ call' = [call EXCEPT ![r].pc = "ensure", ![r].todo = Tail(@),
                          ![r].held = Append(@, call[r].current)]
  /\ UNCHANGED <<service, byKey>>

(* All services are there: the adapter runs.                                 *)
Use(r) ==
  /\ At(r, "ensure") /\ call[r].todo = <<>>
  /\ Goto(r, "using")
  /\ UNCHANGED <<service, byKey>>

-----------------------------------------------------------------------------
(* releaseRuntimeServicesForRun, one service after the other.                *)

AdapterReturns(r) ==
  /\ At(r, "using")
  /\ Goto(r, "release")
  /\ UNCHANGED <<service, byKey>>

(* The lease is given up; a service that is gone is passed over.             *)
GiveUp(r) ==
  /\ At(r, "release") /\ call[r].held # <<>>
  /\ LET i == Head(call[r].held) IN
     \/ /\ Registered(i)
        /\ service' = [service EXCEPT ![i].leases = @ \ {r}]
        /\ call' = [call EXCEPT ![r].pc = "releasing", ![r].current = i]
     \/ /\ ~Registered(i)
        /\ call' = [call EXCEPT ![r].held = Tail(@)]
        /\ service' = service
  /\ UNCHANGED byKey

(* The row is written: an unleased service is stopped, or its idle timer     *)
(* starts, or it is left running.                                            *)
Retire(r) ==
  /\ At(r, "releasing")
  /\ LET i    == call[r].current
         last == Registered(i) /\ service[i].leases = {}
     IN
     \/ /\ last /\ StopPolicy(i) = "on_run_finish"
        /\ Stop(i)
        /\ Goto(r, "stopping")
     \/ /\ ~(last /\ StopPolicy(i) = "on_run_finish")
        /\ service' = [service EXCEPT ![i].timer =
                         IF last THEN StopPolicy(i) = "idle_timeout" ELSE @]
        /\ call' = [call EXCEPT ![r].pc = "release", ![r].held = Tail(@)]
        /\ UNCHANGED byKey

Retired(r) ==
  /\ At(r, "stopping")
  /\ call' = [call EXCEPT ![r].pc = "release", ![r].held = Tail(@)]
  /\ UNCHANGED <<service, byKey>>

Done(r) ==
  /\ At(r, "release") /\ call[r].held = <<>>
  /\ Goto(r, "done")
  /\ UNCHANGED <<service, byKey>>

(* A statement fails: an acquisition gives back what the run holds so far,   *)
(* a release is abandoned.                                                   *)
StatementFails(r) ==
  /\ MayFail
  /\ call[r].pc \in {"persist", "releasing", "stopping"}
  /\ call' = [call EXCEPT ![r].pc = IF @ = "persist" THEN "release" ELSE "done",
                          ![r].failed = TRUE]
  /\ UNCHANGED <<service, byKey>>

-----------------------------------------------------------------------------
(* Callbacks.                                                                *)

IdleTimeout(i) ==
  /\ service[i].timer
  /\ Stop(i)
  /\ UNCHANGED call

(* Mutant of ChildExits: the entry of the key stays.                         *)
ChildExitsKeyStays(i) ==
  /\ service[i].alive
  /\ service' = [service EXCEPT ![i] = IF Registered(i) THEN Gone(i, FALSE)
                                        ELSE [@ EXCEPT !.alive = FALSE]]
  /\ UNCHANGED <<byKey, call>>

(* The child process ends, by itself or because it was told to.  Only the    *)
(* child of a registered service has a listener.                             *)
ChildExits(i) ==
  /\ service[i].alive
  /\ service' = [service EXCEPT ![i] = IF Registered(i) THEN Gone(i, FALSE)
                                        ELSE [@ EXCEPT !.alive = FALSE]]
  /\ byKey' = [k \in Key |-> IF Registered(i) /\ byKey[k] = i THEN 0 ELSE byKey[k]]
  /\ UNCHANGED call

-----------------------------------------------------------------------------
Step(r) ==
  \/ Reuse(r) \/ Start(r) \/ Ready(r) \/ NotReady(r) \/ Acquired(r) \/ Use(r)
  \/ AdapterReturns(r) \/ GiveUp(r) \/ Retire(r) \/ Retired(r) \/ Done(r)
  \/ StatementFails(r)

Next == (\E r \in Run : Step(r)) \/ (\E i \in Service : IdleTimeout(i) \/ ChildExits(i))

(* Statements, adapters and readiness checks return, and timers fire.        *)
Fairness ==
  /\ \A r \in Run : WF_vars(Step(r))
  /\ \A i \in Service : WF_vars(IdleTimeout(i))

Spec == Init /\ [][Next]_vars
FairSpec == Spec /\ Fairness

-----------------------------------------------------------------------------
(* A service that a run has leased is stopped by nobody: neither by another  *)
(* run that gives up its lease, nor by the idle timer of a time when nobody  *)
(* had leased it.  It goes only when its child process exits.                *)
LeasedServiceKept ==
  [][\A i \in Service :
       Registered(i) /\ ~Registered(i)' /\ service[i].leases # {} => ChildExits(i)]_vars

(* The index by key leads only to services that are registered under it.     *)
KeyLeadsToService ==
  \A k \in Key : byKey[k] # 0 => Registered(byKey[k]) /\ service[byKey[k]].key = k

(* No lease outlives its run: whoever leases a registered service will give  *)
(* it up, unless a statement of its own has failed.                          *)
LeaseIsGivenUp ==
  \A i \in Service : Registered(i) => \A r \in service[i].leases :
    \/ \E n \in 1..Len(call[r].held) : call[r].held[n] = i
    \/ At(r, "persist") /\ call[r].current = i
    \/ call[r].failed

(* A service without leases is on its way out, unless its policy is to stay: *)
(* its idle timer runs, or some release is about to look at it.              *)
UnleasedServiceEnds ==
  \A i \in Service : Registered(i) /\ service[i].leases = {} /\ StopPolicy(i) # "manual" =>
    \/ service[i].timer
    \/ \E r \in Run : At(r, "releasing") /\ call[r].current = i
    \/ \E r \in Run : call[r].failed

(* Every registered service that is not meant to stay is stopped at last.    *)
ServiceStops ==
  \A i \in Service :
    Registered(i) /\ StopPolicy(i) # "manual"
      ~> ~Registered(i) \/ \E r \in Run : call[r].failed

(* A process is started only where no service with the key is running.       *)
StartedOnlyIfNone ==
  [][\A r \in Run : Start(r) =>
       ~\E i \in Service : Registered(i) /\ service[i].alive
                             /\ service[i].key \in Key
                             /\ service[i].key = Head(call[r].todo)]_vars

(* To the runs all this is a pool of services.                               *)
Stage(r) == IF call[r].pc \in {"ensure", "ready", "persist"} THEN "acquiring"
            ELSE IF call[r].pc \in {"using", "done"} THEN call[r].pc ELSE "releasing"

Users(i) == IF Registered(i) THEN service[i].leases ELSE {}

Slots == [i \in Service |-> [key |-> service[i].key, state |-> service[i].state,
                             users |-> Users(i), alive |-> service[i].alive]]
Stages == [r \in Run |-> Stage(r)]
Failures == [r \in Run |-> call[r].failed]

Pool == INSTANCE ServicePool WITH pool <- Slots, stage <- Stages, failed <- Failures

(* Whatever is awaited in between, the maps, leases, timers and listeners    *)
(* keep what the runs count on: a run's adapter starts only with a service   *)
(* of its own for each it asks for, one without a key has a single run, none *)
(* that is leased is stopped but by its own exit, and a run ends without     *)
(* leases unless a statement of its own has failed.                          *)
ImplementsPool == Pool!Spec
=============================================================================
