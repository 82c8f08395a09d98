----------------------- MODULE RuntimeServicesProofs -----------------------
(* Theorems about RuntimeServices, for any number of runs, keys and          *)
(* services, any stop policies, and with statements that fail.               *)
EXTENDS RuntimeServices, TLAPS

USE WantsAssumption, PolicyAssumption, KeyAssumption, ServiceBound

(* A call that is about a service names one, and the item of its list that   *)
(* asks for it is still there.                                               *)
Fits(c) ==
  /\ c.pc \in {"ready", "persist", "releasing", "stopping"} => c.current \in Service
  /\ c.pc \in {"ready", "persist"} => c.todo # <<>>
  /\ c.pc \in {"releasing", "stopping"} => c.held # <<>>

CallsFit == \A r \in Run : Fits(call[r])

(* A run that waits for readiness waits for a process of its own.            *)
StartsItsOwn ==
  \A r \in Run : At(r, "ready") =>
    /\ service[call[r].current].state = "starting"
    /\ \A q \in Run : At(q, "ready") /\ call[q].current = call[r].current => q = r

(* An idle timer belongs to a registered service that nobody leases.         *)
TimerIdles ==
  \A i \in Service : service[i].timer => Registered(i) /\ service[i].leases = {}

(* A run that is releasing a service has given up its lease on the first of  *)
(* those it holds.                                                           *)
ReleasesFirst ==
  \A r \in Run : call[r].pc \in {"releasing", "stopping"} =>
    Head(call[r].held) = call[r].current /\ r \notin service[call[r].current].leases

TypeInv == TypeOK /\ CallsFit
IndexInv == StartsItsOwn /\ TimerIdles /\ KeyLeadsToService
LeaseInv == ReleasesFirst /\ LeaseIsGivenUp /\ UnleasedServiceEnds

-----------------------------------------------------------------------------
(* Operations on the lists of a call.                                        *)

(* What is left of a list are members of it, all but the first.              *)
LEMMA TailMembers ==
  ASSUME NEW S, NEW s \in Seq(S), s # <<>>
  PROVE  /\ Tail(s) \in Seq(S) /\ Head(s) \in S
         /\ \A x : (\E n \in 1..Len(s) : s[n] = x) /\ x # Head(s)
                     => \E n \in 1..Len(Tail(s)) : Tail(s)[n] = x
<1>1. Tail(s) \in Seq(S) /\ Head(s) \in S /\ Len(s) \in Nat \ {0}
      /\ Len(Tail(s)) = Len(s) - 1 /\ Head(s) = s[1]
      /\ \A n \in 1..(Len(s) - 1) : Tail(s)[n] = s[n + 1]
  OBVIOUS
<1>2. ASSUME NEW n \in 1..Len(s), s[n] # Head(s)
      PROVE  n - 1 \in 1..Len(Tail(s)) /\ Tail(s)[n - 1] = s[n]
  BY <1>1, <1>2
<1> QED
  BY <1>1, <1>2

(* Appending keeps the members of a list and adds one.                       *)
LEMMA AppendMembers ==
  ASSUME NEW S, NEW s \in Seq(S), NEW e \in S
  PROVE  /\ Append(s, e) \in Seq(S)
         /\ \E n \in 1..Len(Append(s, e)) : Append(s, e)[n] = e
         /\ \A x : (\E n \in 1..Len(s) : s[n] = x)
                     => \E n \in 1..Len(Append(s, e)) : Append(s, e)[n] = x
<1>1. Append(s, e) \in Seq(S) /\ Len(s) \in Nat /\ Len(Append(s, e)) = Len(s) + 1
      /\ Append(s, e)[Len(s) + 1] = e
      /\ \A n \in 1..Len(s) : Append(s, e)[n] = s[n]
  OBVIOUS
<1> QED
  BY <1>1

(* A reusable service is a registered one.                                   *)
LEMMA ReusableRegistered ==
  ASSUME TypeOK, NEW k, Reusable(k) # 0
  PROVE  k \in Key /\ Reusable(k) \in Service /\ Registered(Reusable(k))
BY DEF TypeOK, Reusable, Registered
-----------------------------------------------------------------------------
(* Types.                                                                    *)

(* A step that moves one call to a well formed state, and leaves the records *)
(* and the index well formed, preserves all types.                           *)
LEMMA OneCallMoves ==
  ASSUME TypeInv, NEW r \in Run, NEW c \in Call, Fits(c),
         call' = [call EXCEPT ![r] = c],
         service' \in [Service -> Record], byKey' \in [Key -> 0..MaxServices]
  PROVE  TypeInv'
BY DEF TypeInv, TypeOK, CallsFit

(* A change of one record or two fields of it.                               *)
LEMMA OneRecordChanges ==
  ASSUME TypeOK, NEW i \in Service, NEW s \in Record,
         service' = [service EXCEPT ![i] = s]
  PROVE  service' \in [Service -> Record]
BY DEF TypeOK

(* Changes of a record, one field at a time.                                 *)
LEMMA RecordFields ==
  ASSUME NEW s \in Record, NEW b \in BOOLEAN, NEW runs \in SUBSET Run,
         NEW k \in Key \union {NoKey},
         NEW st \in {"absent", "starting", "registered", "gone"}
  PROVE  /\ [s EXCEPT !.state = st] \in Record
         /\ [s EXCEPT !.alive = b] \in Record
         /\ [s EXCEPT !.timer = b] \in Record
         /\ [s EXCEPT !.leases = runs] \in Record
         /\ [s EXCEPT !.key = k] \in Record
BY DEF Record

(* A call moves on to a service.                                             *)
LEMMA CallAbout ==
  ASSUME NEW c \in Call, NEW i \in Service,
         NEW pc \in {"ready", "persist", "releasing"},
         pc \in {"ready", "persist"} => c.todo # <<>>,
         pc = "releasing" => c.held # <<>>
  PROVE  /\ [c EXCEPT !.pc = pc, !.current = i] \in Call
         /\ Fits([c EXCEPT !.pc = pc, !.current = i])
<1>1. i \in 0..MaxServices
  BY DEF Service
<1>2. [c EXCEPT !.pc = pc, !.current = i] \in Call
  BY <1>1 DEF Call
<1> QED
  BY <1>2 DEF Call, Fits

LEMMA RecordTyped ==
  ASSUME TypeOK, NEW i \in Service
  PROVE  /\ service[i] \in Record
         /\ service[i].leases \in SUBSET Run
         /\ service[i].alive \in BOOLEAN /\ service[i].timer \in BOOLEAN
<1>1. service[i] \in Record
  BY DEF TypeOK
<1> QED
  BY <1>1 DEF Record

LEMMA GoneTyped ==
  ASSUME TypeOK, NEW i \in Service, NEW alive \in BOOLEAN
  PROVE  Gone(i, alive) \in Record
<1>1. service[i] \in Record
  BY DEF TypeOK
<1> DEFINE s1 == [service[i] EXCEPT !.state = "gone"]
           s2 == [s1 EXCEPT !.alive = alive]
           s3 == [s2 EXCEPT !.timer = FALSE]
           s4 == [s3 EXCEPT !.leases = {}]
<1>2. s1 \in Record
  BY <1>1, RecordFields
<1>3. s2 \in Record
  BY <1>2, RecordFields
<1>4. s3 \in Record
  BY <1>3, RecordFields
<1>5. s4 \in Record
  BY <1>4, RecordFields
<1> QED
  BY <1>5 DEF Gone

LEMMA StopTyped ==
  ASSUME TypeOK, NEW i \in Service, Stop(i)
  PROVE  service' \in [Service -> Record] /\ byKey' \in [Key -> 0..MaxServices]
<1>1. service[i].alive \in BOOLEAN
  BY DEF TypeOK, Record
<1>2. service' \in [Service -> Record]
  BY <1>1, GoneTyped, OneRecordChanges DEF Stop
<1> QED
  BY <1>2 DEF Stop, TypeOK

LEMMA TypesHold == Spec => []TypeInv
<1>1. Init => TypeInv
  BY DEF Init, TypeInv, TypeOK, CallsFit, Fits, Record, Call
<1>2. TypeInv /\ [Next]_vars => TypeInv'
  <2> SUFFICES ASSUME TypeInv, [Next]_vars PROVE TypeInv'
    OBVIOUS
  <2>a. TypeOK /\ CallsFit
    BY DEF TypeInv
  <2>1. ASSUME NEW r \in Run, Reuse(r) PROVE TypeInv'
    <3> DEFINE i == Reusable(Head(call[r].todo))
               c == [call[r] EXCEPT !.pc = "persist", !.current = i]
               s == [service[i] EXCEPT !.leases = @ \union {r}, !.timer = FALSE]
    <3>1. i \in Service
      BY <2>a, <2>1, ReusableRegistered DEF Reuse
    <3>2. c \in Call /\ Fits(c)
      <4>1. call[r] \in Call /\ call[r].todo # <<>>
        BY <2>a, <2>1 DEF Reuse, TypeOK
      <4> HIDE DEF i
      <4>2. [call[r] EXCEPT !.pc = "persist", !.current = i] \in Call
            /\ Fits([call[r] EXCEPT !.pc = "persist", !.current = i])
        BY <3>1, <4>1, CallAbout
      <4> QED
        BY <4>2
    <3>3. s \in Record
      <4> HIDE DEF i
      <4>1. service[i] \in Record /\ service[i].leases \union {r} \in SUBSET Run
        BY <2>a, <3>1, RecordTyped
      <4>2. [service[i] EXCEPT !.leases = service[i].leases \union {r}] \in Record
        BY <4>1, RecordFields
      <4>3. [[service[i] EXCEPT !.leases = service[i].leases \union {r}] EXCEPT !.timer = FALSE]
              \in Record
        BY <4>2, RecordFields
      <4> QED
        BY <4>3
    <3>4. call' = [call EXCEPT ![r] = c] /\ service' = [service EXCEPT ![i] = s]
      BY <2>a, <2>1, <3>1 DEF Reuse, TypeOK
    <3>5. byKey' \in [Key -> 0..MaxServices]
      BY <2>a, <2>1 DEF Reuse, TypeOK
    <3> QED
      BY <2>a, <3>1, <3>2, <3>3, <3>4, <3>5, OneRecordChanges, OneCallMoves
  <2>2. ASSUME NEW r \in Run, Start(r) PROVE TypeInv'
    <3> DEFINE k == Head(call[r].todo)
    <3>1. k \in Key \union {NoKey}
      BY <2>a, <2>2, TailMembers DEF Start, TypeOK, Call
    <3>2. PICK i \in Service :
             /\ service' = [service EXCEPT ![i].state = "starting", ![i].alive = TRUE,
                                           ![i].key = k]
             /\ call' = [call EXCEPT ![r].pc = "ready", ![r].current = i]
      BY <2>2 DEF Start
    <3> DEFINE c == [call[r] EXCEPT !.pc = "ready", !.current = i]
               s == [service[i] EXCEPT !.state = "starting", !.alive = TRUE, !.key = k]
    <3>3. c \in Call /\ Fits(c)
      <4>1. call[r] \in Call /\ call[r].todo # <<>>
        BY <2>a, <2>2 DEF Start, TypeOK
      <4> QED
        BY <4>1, CallAbout
    <3>4. s \in Record
      <4> HIDE DEF k
      <4> DEFINE s1 == [service[i] EXCEPT !.state = "starting"]
                 s2 == [s1 EXCEPT !.alive = TRUE]
                 s3 == [s2 EXCEPT !.key = k]
      <4>1. service[i] \in Record
        BY <2>a, RecordTyped
      <4>2. s1 \in Record
        BY <4>1, RecordFields
      <4>3. s2 \in Record
        BY <4>2, RecordFields
      <4>4. s3 \in Record
        BY <3>1, <4>3, RecordFields
      <4> QED
        BY <4>4
    <3>5. call' = [call EXCEPT ![r] = c] /\ service' = [service EXCEPT ![i] = s]
      BY <2>a, <3>2 DEF TypeOK
    <3>6. byKey' \in [Key -> 0..MaxServices]
      BY <2>a, <2>2 DEF Start, TypeOK
    <3> QED
      BY <2>a, <3>3, <3>4, <3>5, <3>6, OneRecordChanges, OneCallMoves
  <2>3. ASSUME NEW r \in Run, Ready(r) PROVE TypeInv'
    <3> DEFINE i == call[r].current
               c == [call[r] EXCEPT !.pc = "persist"]
               s == [service[i] EXCEPT !.state = "registered", !.leases = {r}]
    <3>1. i \in Service /\ call[r].todo # <<>>
      BY <2>a, <2>3 DEF Ready, At, CallsFit, Fits
    <3>2. c \in Call /\ Fits(c)
      BY <2>a, <3>1 DEF TypeOK, Call, Fits
    <3>3. s \in Record
      <4> HIDE DEF i
      <4> DEFINE s1 == [service[i] EXCEPT !.state = "registered"]
                 s2 == [s1 EXCEPT !.leases = {r}]
      <4>1. service[i] \in Record
        BY <2>a, <3>1, RecordTyped
      <4>2. s1 \in Record
        BY <4>1, RecordFields
      <4>3. s2 \in Record
        BY <4>2, RecordFields
      <4> QED
        BY <4>3
    <3>4. call' = [call EXCEPT ![r] = c] /\ service' = [service EXCEPT ![i] = s]
      BY <2>a, <2>3, <3>1 DEF Ready, Goto, TypeOK
    <3>5. byKey' \in [Key -> 0..MaxServices]
      BY <2>a, <2>3, <3>1 DEF Ready, TypeOK, Service
    <3> QED
      BY <2>a, <3>1, <3>2, <3>3, <3>4, <3>5, OneRecordChanges, OneCallMoves
  <2>4. ASSUME NEW r \in Run, NotReady(r) PROVE TypeInv'
    <3> DEFINE i == call[r].current
               c == [call[r] EXCEPT !.pc = "release"]
               s == Gone(i, service[i].alive)
    <3>1. i \in Service
      BY <2>a, <2>4 DEF NotReady, At, CallsFit, Fits
    <3>2. c \in Call /\ Fits(c)
      BY <2>a DEF TypeOK, Call, Fits
    <3>3. s \in Record
      <4>1. service[i].alive \in BOOLEAN
        BY <2>a, <3>1 DEF TypeOK, Record
      <4> QED
        BY <2>a, <3>1, <4>1, GoneTyped
    <3>4. call' = [call EXCEPT ![r] = c] /\ service' = [service EXCEPT ![i] = s]
      BY <2>a, <2>4 DEF NotReady, Goto, TypeOK
    <3>5. byKey' \in [Key -> 0..MaxServices]
      BY <2>a, <2>4 DEF NotReady, TypeOK
    <3> QED
      BY <2>a, <3>1, <3>2, <3>3, <3>4, <3>5, OneRecordChanges, OneCallMoves
  <2>5. ASSUME NEW r \in Run, Acquired(r) PROVE TypeInv'
    <3> DEFINE held == Append(call[r].held, call[r].current)
               c == [call[r] EXCEPT !.pc = "ensure", !.todo = Tail(@), !.held = held]
    <3>1. call[r].current \in Service /\ call[r].todo # <<>>
      BY <2>a, <2>5 DEF Acquired, At, CallsFit, Fits
    <3>2. Tail(call[r].todo) \in Seq(Key \union {NoKey})
      BY <2>a, <3>1, TailMembers DEF TypeOK, Call
    <3>3. held \in Seq(Service)
      BY <2>a, <3>1, AppendMembers DEF TypeOK, Call
    <3>4. c \in Call /\ Fits(c)
      BY <2>a, <3>2, <3>3 DEF TypeOK, Call, Fits
    <3>5. call' = [call EXCEPT ![r] = c]
      BY <2>a, <2>5 DEF Acquired, TypeOK
    <3> QED
      BY <2>a, <2>5, <3>4, <3>5, OneCallMoves DEF Acquired, TypeOK
  <2>6. ASSUME NEW r \in Run, Use(r) \/ AdapterReturns(r) \/ Done(r) PROVE TypeInv'
    <3>1. PICK pc \in {"using", "release", "done"} :
             call' = [call EXCEPT ![r] = [call[r] EXCEPT !.pc = pc]]
      BY <2>a, <2>6 DEF Use, AdapterReturns, Done, Goto, TypeOK
    <3>2. [call[r] EXCEPT !.pc = pc] \in Call /\ Fits([call[r] EXCEPT !.pc = pc])
      BY <2>a DEF TypeOK, Call, Fits
    <3> QED
      BY <2>a, <2>6, <3>1, <3>2, OneCallMoves DEF Use, AdapterReturns, Done, TypeOK
  <2>7. ASSUME NEW r \in Run, GiveUp(r) PROVE TypeInv'
    <3> DEFINE i == Head(call[r].held)
    <3>1. Tail(call[r].held) \in Seq(Service) /\ i \in Service
      BY <2>a, <2>7, TailMembers DEF GiveUp, TypeOK, Call
    <3>2. byKey' \in [Key -> 0..MaxServices]
      BY <2>a, <2>7 DEF GiveUp, TypeOK
    <3>3. CASE Registered(i)
      <4> DEFINE c == [call[r] EXCEPT !.pc = "releasing", !.current = i]
                 s == [service[i] EXCEPT !.leases = @ \ {r}]
      <4>1. c \in Call /\ Fits(c)
        <5>1. call[r] \in Call /\ call[r].held # <<>>
          BY <2>a, <2>7 DEF GiveUp, TypeOK
        <5> HIDE DEF i
        <5> QED
          BY <3>1, <5>1, CallAbout
      <4>2. s \in Record
        <5> HIDE DEF i
        <5>1. service[i] \in Record /\ service[i].leases \ {r} \in SUBSET Run
          BY <2>a, <3>1, RecordTyped
        <5>2. [service[i] EXCEPT !.leases = service[i].leases \ {r}] \in Record
          BY <5>1, RecordFields
        <5> QED
          BY <5>2
      <4>3. call' = [call EXCEPT ![r] = c] /\ service' = [service EXCEPT ![i] = s]
        BY <2>a, <2>7, <3>3 DEF GiveUp, TypeOK
      <4> QED
        BY <2>a, <3>1, <3>2, <4>1, <4>2, <4>3, OneRecordChanges, OneCallMoves
    <3>4. CASE ~Registered(i)
      <4> DEFINE c == [call[r] EXCEPT !.held = Tail(@)]
      <4>1. c \in Call /\ Fits(c)
        BY <2>a, <2>7, <3>1 DEF GiveUp, At, TypeOK, Call, Fits
      <4>2. call' = [call EXCEPT ![r] = c] /\ service' = service
        BY <2>a, <2>7, <3>4 DEF GiveUp, TypeOK
      <4> QED
        BY <2>a, <3>2, <4>1, <4>2, OneCallMoves DEF TypeOK
    <3> QED
      BY <3>3, <3>4
  <2>8. ASSUME NEW r \in Run, Retire(r) PROVE TypeInv'
    <3> DEFINE i == call[r].current
    <3>1. i \in Service /\ call[r].held # <<>>
      BY <2>a, <2>8 DEF Retire, At, CallsFit, Fits
    <3>2. Tail(call[r].held) \in Seq(Service)
      BY <2>a, <3>1, TailMembers DEF TypeOK, Call
    <3>3. CASE Stop(i) /\ Goto(r, "stopping")
      <4> DEFINE c == [call[r] EXCEPT !.pc = "stopping"]
      <4>1. c \in Call /\ Fits(c)
        BY <2>a, <3>1 DEF TypeOK, Call, Fits
      <4>2. call' = [call EXCEPT ![r] = c]
        BY <2>a, <3>3 DEF Goto, TypeOK
      <4> QED
        BY <2>a, <3>1, <3>3, <4>1, <4>2, StopTyped, OneCallMoves
    <3>4. CASE ~(Stop(i) /\ Goto(r, "stopping"))
      <4>1. PICK t \in BOOLEAN : service' = [service EXCEPT ![i] = [service[i] EXCEPT !.timer = t]]
        <5>1. service[i].timer \in BOOLEAN
          BY <2>a, <3>1 DEF TypeOK, Record
        <5> QED
          BY <2>a, <2>8, <3>4, <5>1 DEF Retire, TypeOK
      <4>2. [service[i] EXCEPT !.timer = t] \in Record
        BY <2>a, <3>1, RecordTyped, RecordFields
      <4> DEFINE c == [call[r] EXCEPT !.pc = "release", !.held = Tail(@)]
      <4>3. c \in Call /\ Fits(c)
        BY <2>a, <3>2 DEF TypeOK, Call, Fits
      <4>4. call' = [call EXCEPT ![r] = c] /\ byKey' = byKey
        BY <2>a, <2>8, <3>4 DEF Retire, TypeOK
      <4> QED
        BY <2>a, <3>1, <4>1, <4>2, <4>3, <4>4, OneRecordChanges, OneCallMoves DEF TypeOK
    <3> QED
      BY <3>3, <3>4
  <2>9. ASSUME NEW r \in Run, Retired(r) PROVE TypeInv'
    <3> DEFINE c == [call[r] EXCEPT !.pc = "release", !.held = Tail(@)]
    <3>1. call[r].held # <<>>
      BY <2>a, <2>9 DEF Retired, At, CallsFit, Fits
    <3>2. Tail(call[r].held) \in Seq(Service)
      BY <2>a, <3>1, TailMembers DEF TypeOK, Call
    <3>3. c \in Call /\ Fits(c)
      BY <2>a, <3>2 DEF TypeOK, Call, Fits
    <3>4. call' = [call EXCEPT ![r] = c]
      BY <2>a, <2>9 DEF Retired, TypeOK
    <3> QED
      BY <2>a, <2>9, <3>3, <3>4, OneCallMoves DEF Retired, TypeOK
  <2>10. ASSUME NEW r \in Run, StatementFails(r) PROVE TypeInv'
    <3>1. PICK pc \in {"release", "done"} :
             call' = [call EXCEPT ![r] = [call[r] EXCEPT !.pc = pc, !.failed = TRUE]]
      BY <2>a, <2>10 DEF StatementFails, TypeOK
    <3>2. /\ [call[r] EXCEPT !.pc = pc, !.failed = TRUE] \in Call
          /\ Fits([call[r] EXCEPT !.pc = pc, !.failed = TRUE])
      BY <2>a DEF TypeOK, Call, Fits
    <3> QED
      BY <2>a, <2>10, <3>1, <3>2, OneCallMoves DEF StatementFails, TypeOK
  <2>11. ASSUME NEW i \in Service, IdleTimeout(i) PROVE TypeInv'
    BY <2>a, <2>11, StopTyped DEF IdleTimeout, TypeInv, TypeOK, CallsFit
  <2>12. ASSUME NEW i \in Service, ChildExits(i) PROVE TypeInv'
    <3> DEFINE s == IF Registered(i) THEN Gone(i, FALSE) ELSE [service[i] EXCEPT !.alive = FALSE]
    <3>1. [service[i] EXCEPT !.alive = FALSE] \in Record
      BY <2>a, RecordTyped, RecordFields
    <3>2. s \in Record
      BY <2>a, <3>1, GoneTyped
    <3>3. service' = [service EXCEPT ![i] = s]
      BY <2>a, <2>12 DEF ChildExits, TypeOK
    <3>4. service' \in [Service -> Record]
      BY <2>a, <3>2, <3>3, OneRecordChanges
    <3>5. byKey' \in [Key -> 0..MaxServices]
      BY <2>a, <2>12 DEF ChildExits, TypeOK
    <3> QED
      BY <2>a, <2>12, <3>4, <3>5 DEF ChildExits, TypeInv, TypeOK, CallsFit
  <2>13. CASE UNCHANGED vars
    BY <2>a, <2>13 DEF vars, TypeInv, TypeOK, CallsFit
  <2> QED
    BY <2>1, <2>2, <2>3, <2>4, <2>5, <2>6, <2>7, <2>8, <2>9, <2>10, <2>11, <2>12, <2>13
    DEF Next, Step
<1> QED
  BY <1>1, <1>2, PTL DEF Spec

(* Records, calls and the index by key stay well formed.                     *)
THEOREM TypeCorrect == Spec => []TypeOK
BY TypesHold, PTL DEF TypeInv
-----------------------------------------------------------------------------
(* What each action does, without EXCEPT.                                    *)

OnlyRecord(i) == \A j \in Service : j # i => service'[j] = service[j]

OnlyCall(r) == \A q \in Run : q # r => call'[q] = call[q]

(* A run moves to pc and keeps the rest of its call.                         *)
Moves(r, pc) ==
  /\ OnlyCall(r)
  /\ call'[r].pc = pc /\ call'[r].current = call[r].current
  /\ call'[r].todo = call[r].todo
  /\ call'[r].held = call[r].held /\ call'[r].failed = call[r].failed

(* A run moves to pc, about service i.                                       *)
MovesTo(r, pc, i) ==
  /\ OnlyCall(r)
  /\ call'[r].pc = pc /\ call'[r].current = i
  /\ call'[r].todo = call[r].todo
  /\ call'[r].held = call[r].held /\ call'[r].failed = call[r].failed

(* A run goes back to the list of what it holds, without its first.          *)
Passes(r) ==
  /\ OnlyCall(r)
  /\ call'[r].pc = "release" /\ call[r].held # <<>>
  /\ call'[r].held = Tail(call[r].held) /\ call'[r].failed = call[r].failed

(* A record that is dropped.                                                 *)
Drops(i) ==
  /\ OnlyRecord(i)
  /\ service'[i].state = "gone" /\ service'[i].key = service[i].key
  /\ service'[i].leases = {} /\ ~service'[i].timer

(* A service stopped by the program itself.                                  *)
Stops(i) ==
  /\ Drops(i) /\ service'[i].alive = service[i].alive
  /\ \A k \in Key : byKey'[k] = IF k = service[i].key THEN 0 ELSE byKey[k]

LEMMA GotoMoves ==
  ASSUME TypeInv, NEW r \in Run, NEW pc, Goto(r, pc)
  PROVE  Moves(r, pc)
BY DEF TypeInv, TypeOK, Call, Goto, Moves, OnlyCall

LEMMA StopStops ==
  ASSUME TypeInv, NEW i \in Service, Stop(i)
  PROVE  Stops(i)
BY DEF TypeInv, TypeOK, Record, Stop, Gone, Stops, Drops, OnlyRecord

LEMMA ReuseDoes ==
  ASSUME TypeInv, NEW r \in Run, Reuse(r)
  PROVE  \E i \in Service :
           /\ Registered(i) /\ At(r, "ensure")
           /\ OnlyRecord(i)
           /\ service'[i].state = "registered" /\ service'[i].key = service[i].key
           /\ service'[i].leases = service[i].leases \union {r} /\ ~service'[i].timer
           /\ service'[i].alive = service[i].alive
           /\ call[r].todo # <<>>
           /\ Head(call[r].todo) \in Key /\ byKey[Head(call[r].todo)] = i
           /\ MovesTo(r, "persist", i)
           /\ byKey' = byKey
<1> DEFINE i == Reusable(Head(call[r].todo))
<1>1. /\ i \in Service /\ Registered(i) /\ call[r].todo # <<>>
      /\ Head(call[r].todo) \in Key /\ byKey[Head(call[r].todo)] = i
  BY ReusableRegistered DEF Reuse, TypeInv, Reusable
<1>2. /\ At(r, "ensure") /\ byKey' = byKey
      /\ service' = [service EXCEPT ![i].leases = @ \union {r}, ![i].timer = FALSE]
      /\ call' = [call EXCEPT ![r].pc = "persist", ![r].current = i]
  BY DEF Reuse
<1> HIDE DEF i
<1>3. /\ OnlyRecord(i)
      /\ service'[i].state = "registered" /\ service'[i].key = service[i].key
      /\ service'[i].leases = service[i].leases \union {r} /\ ~service'[i].timer
      /\ service'[i].alive = service[i].alive
  BY <1>1, <1>2 DEF TypeInv, TypeOK, Record, Registered, OnlyRecord
<1>4. MovesTo(r, "persist", i)
  BY <1>1, <1>2 DEF TypeInv, TypeOK, Call, MovesTo, OnlyCall
<1> QED
  BY <1>1, <1>2, <1>3, <1>4

LEMMA StartDoes ==
  ASSUME TypeInv, NEW r \in Run, Start(r)
  PROVE  \E i \in Service :
           /\ service[i].state = "absent" /\ At(r, "ensure")
           /\ OnlyRecord(i)
           /\ service'[i].state = "starting" /\ service'[i].alive
           /\ call[r].todo # <<>> /\ service'[i].key = Head(call[r].todo)
           /\ service'[i].leases = service[i].leases /\ service'[i].timer = service[i].timer
           /\ MovesTo(r, "ready", i)
           /\ byKey' = byKey
<1> DEFINE k == Head(call[r].todo)
<1>1. PICK i \in Service :
        /\ service[i].state = "absent"
        /\ service' = [service EXCEPT ![i].state = "starting", ![i].alive = TRUE,
                                      ![i].key = k]
        /\ call' = [call EXCEPT ![r].pc = "ready", ![r].current = i]
  BY DEF Start
<1>2. At(r, "ensure") /\ byKey' = byKey /\ call[r].todo # <<>>
  BY DEF Start
<1> HIDE DEF k
<1>3. /\ OnlyRecord(i)
      /\ service'[i].state = "starting" /\ service'[i].alive /\ service'[i].key = k
      /\ service'[i].leases = service[i].leases /\ service'[i].timer = service[i].timer
  BY <1>1 DEF TypeInv, TypeOK, Record, OnlyRecord
<1>4. MovesTo(r, "ready", i)
  BY <1>1 DEF TypeInv, TypeOK, Call, MovesTo, OnlyCall
<1> QED
  BY <1>1, <1>2, <1>3, <1>4 DEF k

LEMMA ReadyDoes ==
  ASSUME TypeInv, NEW r \in Run, Ready(r), NEW i, i = call[r].current
  PROVE  /\ At(r, "ready") /\ i \in Service
         /\ OnlyRecord(i)
         /\ service'[i].state = "registered" /\ service'[i].key = service[i].key
         /\ service'[i].leases = {r} /\ service'[i].timer = service[i].timer
         /\ service'[i].alive = service[i].alive
         /\ Moves(r, "persist")
         /\ \A k \in Key : byKey'[k] = IF k = service[i].key THEN i ELSE byKey[k]
<1>1. At(r, "ready") /\ i \in Service
  BY DEF Ready, At, TypeInv, CallsFit, Fits
<1>2. /\ service' = [service EXCEPT ![i].state = "registered", ![i].leases = {r}]
      /\ byKey' = [k \in Key |-> IF k = service[i].key THEN i ELSE byKey[k]]
      /\ Goto(r, "persist")
  BY DEF Ready
<1>3. /\ OnlyRecord(i)
      /\ service'[i].state = "registered" /\ service'[i].key = service[i].key
      /\ service'[i].leases = {r} /\ service'[i].timer = service[i].timer
      /\ service'[i].alive = service[i].alive
  BY <1>1, <1>2 DEF TypeInv, TypeOK, Record, OnlyRecord
<1> QED
  BY <1>1, <1>2, <1>3, GotoMoves

LEMMA NotReadyDoes ==
  ASSUME TypeInv, NEW r \in Run, NotReady(r), NEW i, i = call[r].current
  PROVE  /\ At(r, "ready") /\ i \in Service
         /\ Drops(i) /\ service'[i].alive = service[i].alive
         /\ Moves(r, "release") /\ byKey' = byKey
<1>1. At(r, "ready") /\ i \in Service
  BY DEF NotReady, At, TypeInv, CallsFit, Fits
<1>2. service' = [service EXCEPT ![i] = Gone(i, service[i].alive)]
      /\ Goto(r, "release") /\ byKey' = byKey
  BY DEF NotReady
<1>3. Drops(i) /\ service'[i].alive = service[i].alive
  BY <1>1, <1>2 DEF TypeInv, TypeOK, Record, Gone, Drops, OnlyRecord
<1> QED
  BY <1>1, <1>2, <1>3, GotoMoves

LEMMA GiveUpDoes ==
  ASSUME TypeInv, NEW r \in Run, GiveUp(r), NEW i, i = Head(call[r].held)
  PROVE  /\ At(r, "release") /\ call[r].held # <<>> /\ i \in Service /\ byKey' = byKey
         /\ \/ /\ Registered(i)
               /\ OnlyRecord(i)
               /\ service'[i].state = "registered" /\ service'[i].key = service[i].key
               /\ service'[i].leases = service[i].leases \ {r}
               /\ service'[i].timer = service[i].timer
               /\ service'[i].alive = service[i].alive
               /\ MovesTo(r, "releasing", i)
            \/ ~Registered(i) /\ Passes(r) /\ service' = service
<1>1. At(r, "release") /\ call[r].held # <<>> /\ byKey' = byKey
  BY DEF GiveUp
<1>2. i \in Service
  BY <1>1, TailMembers DEF TypeInv, TypeOK, Call
<1>3. CASE /\ Registered(i)
           /\ service' = [service EXCEPT ![i].leases = @ \ {r}]
           /\ call' = [call EXCEPT ![r].pc = "releasing", ![r].current = i]
  <2>1. /\ OnlyRecord(i)
        /\ service'[i].state = "registered" /\ service'[i].key = service[i].key
        /\ service'[i].leases = service[i].leases \ {r}
        /\ service'[i].timer = service[i].timer
        /\ service'[i].alive = service[i].alive
    BY <1>2, <1>3 DEF TypeInv, TypeOK, Record, Registered, OnlyRecord
  <2>2. MovesTo(r, "releasing", i)
    BY <1>3 DEF TypeInv, TypeOK, Call, MovesTo, OnlyCall
  <2> QED
    BY <1>1, <1>2, <1>3, <2>1, <2>2
<1>4. CASE /\ ~Registered(i)
           /\ call' = [call EXCEPT ![r].held = Tail(@)]
           /\ service' = service
  <2>1. Passes(r)
    BY <1>1, <1>4 DEF TypeInv, TypeOK, Call, At, Passes, OnlyCall
  <2> QED
    BY <1>1, <1>2, <1>4, <2>1
<1> QED
  BY <1>3, <1>4 DEF GiveUp

LEMMA RetireDoes ==
  ASSUME TypeInv, NEW r \in Run, Retire(r), NEW i, i = call[r].current
  PROVE  /\ At(r, "releasing") /\ i \in Service
         /\ \/ /\ Registered(i) /\ service[i].leases = {}
               /\ Stops(i) /\ Moves(r, "stopping")
            \/ /\ OnlyRecord(i)
               /\ service'[i].state = service[i].state /\ service'[i].key = service[i].key
               /\ service'[i].leases = service[i].leases
               /\ service'[i].alive = service[i].alive
               /\ service'[i].timer # service[i].timer
                     => Registered(i) /\ service[i].leases = {}
               /\ Registered(i) /\ service[i].leases = {} /\ StopPolicy(i) # "manual"
                     => service'[i].timer
               /\ Passes(r)
               /\ byKey' = byKey
<1> DEFINE last == Registered(i) /\ service[i].leases = {}
<1>1. At(r, "releasing") /\ i \in Service /\ call[r].held # <<>>
  BY DEF Retire, At, TypeInv, CallsFit, Fits
<1>2. CASE last /\ Stop(i) /\ Goto(r, "stopping")
  BY <1>1, <1>2, StopStops, GotoMoves
<1>3. CASE /\ ~(last /\ StopPolicy(i) = "on_run_finish")
           /\ service' = [service EXCEPT ![i].timer =
                            IF last THEN StopPolicy(i) = "idle_timeout" ELSE @]
           /\ call' = [call EXCEPT ![r].pc = "release", ![r].held = Tail(@)]
           /\ byKey' = byKey
  <2>1. /\ OnlyRecord(i)
        /\ service'[i].state = service[i].state /\ service'[i].key = service[i].key
        /\ service'[i].leases = service[i].leases
        /\ service'[i].alive = service[i].alive
        /\ service'[i].timer = IF last THEN StopPolicy(i) = "idle_timeout"
                                       ELSE service[i].timer
    BY <1>1, <1>3 DEF TypeInv, TypeOK, Record, OnlyRecord
  <2>2. StopPolicy(i) \in Policies
    BY <1>1 DEF StopPolicy, Policies, TypeInv, TypeOK, Record
  <2>3. last /\ StopPolicy(i) # "manual" => service'[i].timer
    BY <1>3, <2>1, <2>2 DEF Policies
  <2>4. Passes(r)
    BY <1>1, <1>3 DEF TypeInv, TypeOK, Call, Passes, OnlyCall
  <2> QED
    BY <1>1, <1>3, <2>1, <2>3, <2>4
<1> QED
  BY <1>2, <1>3 DEF Retire

LEMMA ChildExitsDoes ==
  ASSUME TypeInv, NEW i \in Service, ChildExits(i)
  PROVE  /\ call' = call /\ service[i].alive /\ ~service'[i].alive
         /\ \/ /\ Registered(i) /\ Drops(i)
               /\ \A k \in Key : byKey'[k] = IF byKey[k] = i THEN 0 ELSE byKey[k]
            \/ /\ ~Registered(i) /\ OnlyRecord(i)
               /\ service'[i].state = service[i].state /\ service'[i].key = service[i].key
               /\ service'[i].leases = service[i].leases
               /\ service'[i].timer = service[i].timer
               /\ \A k \in Key : byKey'[k] = byKey[k]
<1>1. CASE Registered(i)
  BY <1>1 DEF ChildExits, TypeInv, TypeOK, Record, Gone, Drops, OnlyRecord
<1>2. CASE ~Registered(i)
  BY <1>2 DEF ChildExits, TypeInv, TypeOK, Record, OnlyRecord
<1> QED
  BY <1>1, <1>2
-----------------------------------------------------------------------------
(* The index by key and the idle timers.                                     *)

(* Steps that touch no record and no index and leave every run that waits    *)
(* for readiness where it was.                                               *)
LEMMA IndexKept ==
  ASSUME TypeInv, IndexInv, service' = service, byKey' = byKey,
         \A q \in Run : call'[q].pc = "ready" =>
            call[q].pc = "ready" /\ call'[q].current = call[q].current
  PROVE  IndexInv'
BY DEF IndexInv, StartsItsOwn, TimerIdles, KeyLeadsToService, Registered, At

(* Runs wait for readiness as before, and their processes are starting.      *)
WaitsKept ==
  \A q \in Run : call'[q].pc = "ready" =>
    /\ call[q].pc = "ready" /\ call'[q].current = call[q].current
    /\ service'[call[q].current] = service[call[q].current]

LEMMA StartsKept ==
  ASSUME IndexInv, WaitsKept
  PROVE  StartsItsOwn'
<1>1. ASSUME NEW q \in Run, call'[q].pc = "ready"
      PROVE  /\ call[q].pc = "ready" /\ call'[q].current = call[q].current
             /\ service'[call'[q].current].state = "starting"
  BY <1>1 DEF IndexInv, StartsItsOwn, WaitsKept, At
<1>2. ASSUME NEW q \in Run, NEW r \in Run, call'[q].pc = "ready", call'[r].pc = "ready",
             call'[q].current = call'[r].current
      PROVE  q = r
  BY <1>1, <1>2 DEF IndexInv, StartsItsOwn, At
<1> QED
  BY <1>1, <1>2 DEF StartsItsOwn, At

(* A registered service is stopped by the program itself.                    *)
LEMMA IndexAfterStop ==
  ASSUME TypeInv, IndexInv, NEW i \in Service, Registered(i), Stops(i),
         \A q \in Run : call'[q].pc = "ready" =>
            call[q].pc = "ready" /\ call'[q].current = call[q].current
  PROVE  IndexInv'
<1>1. StartsItsOwn'
  <2>1. \A q \in Run : At(q, "ready") => call[q].current \in Service /\ call[q].current # i
    BY DEF IndexInv, StartsItsOwn, Registered, TypeInv, CallsFit, Fits, At
  <2> QED
    BY <2>1, StartsKept DEF WaitsKept, Stops, Drops, OnlyRecord, At
<1>2. TimerIdles'
  BY DEF IndexInv, TimerIdles, Stops, Drops, OnlyRecord, Registered
<1>3. KeyLeadsToService'
  <2> SUFFICES ASSUME NEW k \in Key, byKey'[k] # 0
               PROVE  Registered(byKey[k])' /\ service'[byKey'[k]].key = k
    BY DEF KeyLeadsToService, Registered
  <2>1. k # service[i].key /\ byKey'[k] = byKey[k]
    BY DEF Stops
  <2>2. Registered(byKey[k]) /\ service[byKey[k]].key = k
    BY <2>1 DEF IndexInv, KeyLeadsToService
  <2>3. byKey[k] \in Service /\ byKey[k] # i
    BY <2>1, <2>2 DEF Registered
  <2>4. service'[byKey[k]] = service[byKey[k]]
    BY <2>3 DEF Stops, Drops, OnlyRecord
  <2> QED
    BY <2>1, <2>2, <2>4 DEF Registered
<1> QED
  BY <1>1, <1>2, <1>3 DEF IndexInv

LEMMA IndexHolds == Spec => []IndexInv
<1>1. Init => IndexInv
  BY DEF Init, IndexInv, StartsItsOwn, TimerIdles, KeyLeadsToService, At
<1>2. TypeInv /\ IndexInv /\ [Next]_vars => IndexInv'
  <2> SUFFICES ASSUME TypeInv, IndexInv, [Next]_vars PROVE IndexInv'
    OBVIOUS
  <2>a. StartsItsOwn /\ TimerIdles /\ KeyLeadsToService
    BY DEF IndexInv
  <2>b. \A q \in Run : At(q, "ready") => call[q].current \in Service
    BY DEF TypeInv, CallsFit, Fits, At
  <2>c. \A q \in Run : At(q, "ready") => service[call[q].current].state = "starting"
    BY <2>a DEF StartsItsOwn
  <2>1. ASSUME NEW r \in Run, Reuse(r) PROVE IndexInv'
    <3>1. PICK i \in Service :
           /\ Registered(i) /\ At(r, "ensure")
           /\ OnlyRecord(i)
           /\ service'[i].state = "registered" /\ service'[i].key = service[i].key
           /\ service'[i].leases = service[i].leases \union {r} /\ ~service'[i].timer
           /\ MovesTo(r, "persist", i)
           /\ byKey' = byKey
      BY <2>1, ReuseDoes
    <3>2. StartsItsOwn'
      BY <2>b, <3>1, <2>c, StartsKept DEF WaitsKept, At, Registered, OnlyRecord, MovesTo, OnlyCall
    <3>3. TimerIdles'
      BY <2>a, <3>1 DEF TimerIdles, Registered, OnlyRecord
    <3>4. KeyLeadsToService'
      BY <2>a, <3>1 DEF KeyLeadsToService, Registered, OnlyRecord
    <3> QED
      BY <3>2, <3>3, <3>4 DEF IndexInv
  <2>2. ASSUME NEW r \in Run, Start(r) PROVE IndexInv'
    <3>1. PICK i \in Service :
           /\ service[i].state = "absent" /\ At(r, "ensure")
           /\ OnlyRecord(i)
           /\ service'[i].state = "starting"
           /\ service'[i].leases = service[i].leases /\ service'[i].timer = service[i].timer
           /\ MovesTo(r, "ready", i)
           /\ byKey' = byKey
      BY <2>2, StartDoes
    <3>2. StartsItsOwn'
      <4>1. ASSUME NEW q \in Run, q # r, call'[q].pc = "ready"
            PROVE  /\ call[q].pc = "ready" /\ call'[q].current = call[q].current
                   /\ call[q].current # i
                   /\ service'[call'[q].current].state = "starting"
        BY <2>b, <2>c, <3>1, <4>1 DEF At, OnlyRecord, MovesTo, OnlyCall
      <4>2. call'[r].current = i /\ service'[i].state = "starting"
        BY <3>1 DEF MovesTo
      <4>3. ASSUME NEW p \in Run, NEW q \in Run, call'[p].pc = "ready", call'[q].pc = "ready",
                   call'[p].current = call'[q].current
            PROVE  p = q
        BY <2>a, <4>1, <4>2, <4>3 DEF StartsItsOwn, At
      <4> QED
        BY <4>1, <4>2, <4>3 DEF StartsItsOwn, At
    <3>3. TimerIdles'
      BY <2>a, <3>1 DEF TimerIdles, Registered, OnlyRecord
    <3>4. KeyLeadsToService'
      BY <2>a, <3>1 DEF KeyLeadsToService, Registered, OnlyRecord
    <3> QED
      BY <3>2, <3>3, <3>4 DEF IndexInv
  <2>3. ASSUME NEW r \in Run, Ready(r) PROVE IndexInv'
    <3> DEFINE i == call[r].current
    <3>1. /\ At(r, "ready") /\ i \in Service
          /\ OnlyRecord(i)
          /\ service'[i].state = "registered" /\ service'[i].key = service[i].key
          /\ service'[i].leases = {r} /\ service'[i].timer = service[i].timer
          /\ Moves(r, "persist")
          /\ \A k \in Key : byKey'[k] = IF k = service[i].key THEN i ELSE byKey[k]
      BY <2>3, ReadyDoes
    <3>2. service[i].state = "starting" /\ ~Registered(i) /\ ~service[i].timer
      BY <2>a, <3>1 DEF StartsItsOwn, TimerIdles, Registered
    <3>3. StartsItsOwn'
      <4> HIDE DEF i
      <4>1. \A q \in Run : q # r /\ At(q, "ready") => call[q].current # i
        BY <2>a, <3>1 DEF StartsItsOwn, i
      <4> QED
        BY <2>b, <3>1, <4>1, StartsKept DEF WaitsKept, At, OnlyRecord, Moves, OnlyCall
    <3>4. TimerIdles'
      BY <2>a, <3>1, <3>2 DEF TimerIdles, Registered, OnlyRecord
    <3>5. KeyLeadsToService'
      BY <2>a, <3>1, <3>2 DEF KeyLeadsToService, Registered, OnlyRecord
    <3> QED
      BY <3>3, <3>4, <3>5 DEF IndexInv
  <2>4. ASSUME NEW r \in Run, NotReady(r) PROVE IndexInv'
    <3> DEFINE i == call[r].current
    <3>1. /\ At(r, "ready") /\ i \in Service
          /\ Drops(i) /\ Moves(r, "release") /\ byKey' = byKey
      BY <2>4, NotReadyDoes
    <3>2. ~Registered(i)
      BY <2>a, <3>1 DEF StartsItsOwn, Registered
    <3>3. StartsItsOwn'
      <4> HIDE DEF i
      <4>1. \A q \in Run : q # r /\ At(q, "ready") => call[q].current # i
        BY <2>a, <3>1 DEF StartsItsOwn, i
      <4> QED
        BY <2>b, <3>1, <4>1, StartsKept DEF WaitsKept, At, Drops, OnlyRecord, Moves, OnlyCall
    <3>4. TimerIdles'
      BY <2>a, <3>1 DEF TimerIdles, Registered, Drops, OnlyRecord
    <3>5. KeyLeadsToService'
      BY <2>a, <3>1, <3>2 DEF KeyLeadsToService, Registered, Drops, OnlyRecord
    <3> QED
      BY <3>3, <3>4, <3>5 DEF IndexInv
  <2>5. ASSUME NEW r \in Run,
               Acquired(r) \/ Use(r) \/ AdapterReturns(r) \/ Retired(r) \/ Done(r)
                 \/ StatementFails(r)
        PROVE  IndexInv'
    <3>1. /\ service' = service /\ byKey' = byKey
          /\ OnlyCall(r) /\ call'[r].pc # "ready"
      BY <2>5 DEF Acquired, Use, AdapterReturns, Retired, Done, StatementFails, Goto,
                  TypeInv, TypeOK, Call, OnlyCall
    <3> QED
      BY <3>1, IndexKept DEF OnlyCall
  <2>6. ASSUME NEW r \in Run, GiveUp(r) PROVE IndexInv'
    <3> DEFINE i == Head(call[r].held)
    <3>1. /\ i \in Service /\ byKey' = byKey
          /\ \/ /\ Registered(i)
                /\ OnlyRecord(i)
                /\ service'[i].state = "registered" /\ service'[i].key = service[i].key
                /\ service'[i].leases = service[i].leases \ {r}
                /\ service'[i].timer = service[i].timer
                /\ MovesTo(r, "releasing", i)
             \/ ~Registered(i) /\ Passes(r) /\ service' = service
      BY <2>6, GiveUpDoes
    <3> HIDE DEF i
    <3>2. CASE Registered(i)
      <4>1. StartsItsOwn'
        BY <2>b, <2>c, <3>1, <3>2, StartsKept
        DEF WaitsKept, At, Registered, OnlyRecord, MovesTo, OnlyCall
      <4>2. TimerIdles'
        BY <2>a, <3>1, <3>2 DEF TimerIdles, Registered, OnlyRecord
      <4>3. KeyLeadsToService'
        BY <2>a, <3>1, <3>2 DEF KeyLeadsToService, Registered, OnlyRecord
      <4> QED
        BY <4>1, <4>2, <4>3 DEF IndexInv
    <3>3. CASE ~Registered(i)
      BY <3>1, <3>3, IndexKept DEF Passes, OnlyCall
    <3> QED
      BY <3>2, <3>3
  <2>7. ASSUME NEW r \in Run, Retire(r) PROVE IndexInv'
    <3> DEFINE i == call[r].current
    <3>1. /\ i \in Service
          /\ \/ /\ Registered(i) /\ service[i].leases = {}
                /\ Stops(i) /\ Moves(r, "stopping")
             \/ /\ OnlyRecord(i)
                /\ service'[i].state = service[i].state /\ service'[i].key = service[i].key
                /\ service'[i].leases = service[i].leases
                /\ service'[i].timer # service[i].timer
                      => Registered(i) /\ service[i].leases = {}
                /\ Passes(r)
                /\ byKey' = byKey
      BY <2>7, RetireDoes
    <3> HIDE DEF i
    <3>2. CASE Registered(i) /\ Stops(i) /\ Moves(r, "stopping")
      BY <3>1, <3>2, IndexAfterStop DEF Moves, OnlyCall
    <3>3. CASE ~(Registered(i) /\ Stops(i) /\ Moves(r, "stopping"))
      <4>1. StartsItsOwn'
        <5>1. ASSUME NEW q \in Run, call'[q].pc = "ready"
              PROVE  /\ call[q].pc = "ready" /\ call'[q].current = call[q].current
                     /\ service'[call'[q].current].state = "starting"
          BY <2>b, <2>c, <3>1, <3>3, <5>1 DEF At, OnlyRecord, Passes, OnlyCall
        <5>2. ASSUME NEW p \in Run, NEW q \in Run, call'[p].pc = "ready",
                     call'[q].pc = "ready", call'[p].current = call'[q].current
              PROVE  p = q
          BY <2>a, <5>1, <5>2 DEF StartsItsOwn, At
        <5> QED
          BY <5>1, <5>2 DEF StartsItsOwn, At
      <4>2. TimerIdles'
        BY <2>a, <3>1, <3>3 DEF TimerIdles, Registered, OnlyRecord
      <4>3. KeyLeadsToService'
        <5>1. \A j \in Service : service'[j].state = service[j].state
                                   /\ service'[j].key = service[j].key
          BY <3>1, <3>3 DEF OnlyRecord
        <5>2. byKey' = byKey
          BY <3>1, <3>3
        <5> QED
          BY <2>a, <5>1, <5>2 DEF KeyLeadsToService, Registered
      <4> QED
        BY <4>1, <4>2, <4>3 DEF IndexInv
    <3> QED
      BY <3>2, <3>3
  <2>8. ASSUME NEW i \in Service, IdleTimeout(i) PROVE IndexInv'
    <3>1. Registered(i) /\ Stops(i) /\ call' = call
      BY <2>a, <2>8, StopStops DEF IdleTimeout, TimerIdles
    <3> QED
      BY <3>1, IndexAfterStop
  <2>9. ASSUME NEW i \in Service, ChildExits(i) PROVE IndexInv'
    <3>1. /\ call' = call
          /\ \/ /\ Registered(i) /\ Drops(i)
                /\ \A k \in Key : byKey'[k] = IF byKey[k] = i THEN 0 ELSE byKey[k]
             \/ /\ ~Registered(i) /\ OnlyRecord(i)
                /\ service'[i].state = service[i].state /\ service'[i].key = service[i].key
                /\ service'[i].leases = service[i].leases
                /\ service'[i].timer = service[i].timer
                /\ \A k \in Key : byKey'[k] = byKey[k]
      BY <2>9, ChildExitsDoes
    <3>2. StartsItsOwn'
      BY <2>a, <2>b, <3>1 DEF StartsItsOwn, At, Registered, Drops, OnlyRecord
    <3>3. TimerIdles'
      BY <2>a, <3>1 DEF TimerIdles, Registered, Drops, OnlyRecord
    <3>4. KeyLeadsToService'
      BY <2>a, <3>1 DEF KeyLeadsToService, Registered, Drops, OnlyRecord
    <3> QED
      BY <3>2, <3>3, <3>4 DEF IndexInv
  <2>10. CASE UNCHANGED vars
    BY <2>10, IndexKept DEF vars
  <2> QED
    BY <2>1, <2>2, <2>3, <2>4, <2>5, <2>6, <2>7, <2>8, <2>9, <2>10 DEF Next, Step
<1> QED
  BY <1>1, <1>2, TypesHold, PTL DEF Spec

(* The index by key leads only to services registered under it, however the  *)
(* starts, releases, timers and exits of services with one key interleave.   *)
THEOREM IndexIsSound == Spec => []KeyLeadsToService
BY IndexHolds, PTL DEF IndexInv

(* No run and no timer stops a service that a run has leased.                *)
THEOREM LeasedAreKept == Spec => LeasedServiceKept
<1> DEFINE Kept == \A i \in Service :
      Registered(i) /\ ~Registered(i)' /\ service[i].leases # {} => ChildExits(i)
<1>1. TypeInv /\ IndexInv /\ [Next]_vars => [Kept]_vars
  <2> SUFFICES ASSUME TypeInv, IndexInv, Next, NEW i \in Service,
                      Registered(i), ~Registered(i)', service[i].leases # {}
               PROVE  ChildExits(i)
    BY DEF vars
  <2>1. ASSUME NEW r \in Run, Reuse(r) PROVE FALSE
    BY <2>1, ReuseDoes DEF Registered, OnlyRecord
  <2>2. ASSUME NEW r \in Run, Start(r) PROVE FALSE
    BY <2>2, StartDoes DEF Registered, OnlyRecord
  <2>3. ASSUME NEW r \in Run, Ready(r) PROVE FALSE
    BY <2>3, ReadyDoes DEF Registered, OnlyRecord
  <2>4. ASSUME NEW r \in Run, NotReady(r) PROVE FALSE
    <3>1. At(r, "ready") /\ Drops(call[r].current)
      BY <2>4, NotReadyDoes
    <3>2. i # call[r].current
      BY <3>1 DEF IndexInv, StartsItsOwn, Registered
    <3> QED
      BY <3>1, <3>2 DEF Registered, Drops, OnlyRecord
  <2>5. ASSUME NEW r \in Run, GiveUp(r) PROVE FALSE
    BY <2>5, GiveUpDoes DEF Registered, OnlyRecord
  <2>6. ASSUME NEW r \in Run, Retire(r) PROVE FALSE
    BY <2>6, RetireDoes DEF Registered, Stops, Drops, OnlyRecord
  <2>7. ASSUME NEW r \in Run,
               Acquired(r) \/ Use(r) \/ AdapterReturns(r) \/ Retired(r) \/ Done(r)
                 \/ StatementFails(r)
        PROVE  FALSE
    BY <2>7 DEF Acquired, Use, AdapterReturns, Retired, Done, StatementFails, Registered
  <2>8. ASSUME NEW j \in Service, IdleTimeout(j) PROVE FALSE
    <3>1. Stops(j) /\ service[j].leases = {}
      BY <2>8, StopStops DEF IdleTimeout, IndexInv, TimerIdles
    <3> QED
      BY <3>1 DEF Registered, Stops, Drops, OnlyRecord
  <2>9. ASSUME NEW j \in Service, ChildExits(j) PROVE ChildExits(i)
    <3>1. OnlyRecord(j)
      BY <2>9, ChildExitsDoes DEF Drops
    <3>2. i = j
      BY <3>1 DEF Registered, OnlyRecord
    <3> QED
      BY <2>9, <3>2
  <2> QED
    BY <2>1, <2>2, <2>3, <2>4, <2>5, <2>6, <2>7, <2>8, <2>9 DEF Next, Step
<1> QED
  BY <1>1, TypesHold, IndexHolds, PTL DEF Spec, LeasedServiceKept
-----------------------------------------------------------------------------
(* Leases.                                                                   *)

InHeld(c, i) == \E n \in 1..Len(c.held) : c.held[n] = i

LEMMA TailHeld ==
  ASSUME NEW r \in Run, call[r].held \in Seq(Service), call[r].held # <<>>,
         call'[r].held = Tail(call[r].held), NEW j \in Service, j # Head(call[r].held),
         InHeld(call[r], j)
  PROVE  InHeld(call[r], j)'
<1>1. \E n \in 1..Len(Tail(call[r].held)) : Tail(call[r].held)[n] = j
  BY TailMembers DEF InHeld
<1> QED
  BY <1>1 DEF InHeld

(* Why a registered service that r leases will be given up by r.             *)
WillGiveUp(r, i) == InHeld(call[r], i) \/ (At(r, "persist") /\ call[r].current = i)
                      \/ call[r].failed

(* Why a registered service without leases will be stopped.                  *)
WillEnd(i) ==
  \/ StopPolicy(i) = "manual"
  \/ service[i].timer
  \/ \E r \in Run : At(r, "releasing") /\ call[r].current = i
  \/ \E r \in Run : call[r].failed

(* The parts of the invariant, said of one run or one service.               *)
GivesUpFirst(r) ==
  call[r].pc \in {"releasing", "stopping"} =>
    Head(call[r].held) = call[r].current /\ r \notin service[call[r].current].leases

LeasesEnd(i) == Registered(i) => \A r \in Run : r \in service[i].leases => WillGiveUp(r, i)

UnleasedEnds(i) == Registered(i) /\ service[i].leases = {} => WillEnd(i)

LEMMA LeaseParts ==
  ASSUME TypeOK, LeaseInv
  PROVE  /\ \A r \in Run : GivesUpFirst(r)
         /\ \A i \in Service : LeasesEnd(i) /\ UnleasedEnds(i)
<1>1. \A r \in Run : GivesUpFirst(r)
  BY DEF LeaseInv, ReleasesFirst, GivesUpFirst
<1>2. \A i \in Service : LeasesEnd(i)
  BY DEF LeaseInv, LeaseIsGivenUp, LeasesEnd, WillGiveUp, InHeld
<1>3. \A i \in Service : UnleasedEnds(i)
  BY DEF LeaseInv, UnleasedServiceEnds, UnleasedEnds, WillEnd
<1> QED
  BY <1>1, <1>2, <1>3

LEMMA LeaseWhole ==
  ASSUME TypeInv',
         \A r \in Run : GivesUpFirst(r)',
         \A i \in Service : LeasesEnd(i)',
         \A i \in Service : UnleasedEnds(i)'
  PROVE  LeaseInv'
<1>1. \A i \in Service : service'[i].leases \subseteq Run
  BY DEF TypeInv, TypeOK, Record
<1>2. ReleasesFirst'
  BY DEF ReleasesFirst, GivesUpFirst
<1>3. LeaseIsGivenUp'
  BY <1>1 DEF LeaseIsGivenUp, LeasesEnd, WillGiveUp, InHeld
<1>4. UnleasedServiceEnds'
  BY DEF UnleasedServiceEnds, UnleasedEnds, WillEnd
<1> QED
  BY <1>2, <1>3, <1>4 DEF LeaseInv

(* A step of run r as the other runs see it: they get no lease, ...          *)
LEMMA FirstKept ==
  ASSUME TypeInv, \A q \in Run : GivesUpFirst(q), NEW r \in Run, OnlyCall(r),
         \A q \in Run, j \in Service : q # r /\ q \in service'[j].leases
                                         => q \in service[j].leases,
         GivesUpFirst(r)'
  PROVE  \A q \in Run : GivesUpFirst(q)'
<1>1. ASSUME NEW q \in Run, q # r PROVE GivesUpFirst(q)'
  <2>1. call'[q] = call[q]
    BY <1>1 DEF OnlyCall
  <2>2. call[q].pc \in {"releasing", "stopping"} => call[q].current \in Service
    BY DEF TypeInv, CallsFit, Fits
  <2>3. GivesUpFirst(q)
    OBVIOUS
  <2> QED
    BY <1>1, <2>1, <2>2, <2>3 DEF GivesUpFirst
<1> QED
  BY <1>1

(* ... they still give up those they have, ...                               *)
LEMMA LeasesKept ==
  ASSUME \A j \in Service : LeasesEnd(j), NEW r \in Run, OnlyCall(r),
         \A q \in Run, j \in Service :
           q # r /\ Registered(j)' /\ q \in service'[j].leases
             => Registered(j) /\ q \in service[j].leases,
         \A j \in Service :
           Registered(j)' /\ r \in service'[j].leases => WillGiveUp(r, j)'
  PROVE  \A j \in Service : LeasesEnd(j)'
<1>1. ASSUME NEW q \in Run, NEW j \in Service, q # r,
             Registered(j)', q \in service'[j].leases
      PROVE  WillGiveUp(q, j)'
  <2>1. call'[q] = call[q]
    BY <1>1 DEF OnlyCall
  <2>2. WillGiveUp(q, j)
    BY <1>1 DEF LeasesEnd
  <2> QED
    BY <2>1, <2>2 DEF WillGiveUp, InHeld, At
<1> QED
  BY <1>1 DEF LeasesEnd

(* ... and what was on its way out still is.                                 *)
LEMMA EndsKept ==
  ASSUME \A j \in Service : UnleasedEnds(j), NEW r \in Run, OnlyCall(r),
         call[r].failed => call'[r].failed,
         \A j \in Service : Registered(j)' /\ service'[j].leases = {} =>
           \/ WillEnd(j)'
           \/ /\ Registered(j) /\ service[j].leases = {} /\ service'[j].key = service[j].key
              /\ service[j].timer => service'[j].timer
              /\ ~(At(r, "releasing") /\ call[r].current = j)
  PROVE  \A j \in Service : UnleasedEnds(j)'
<1>1. ASSUME NEW j \in Service, Registered(j)', service'[j].leases = {}, ~WillEnd(j)'
      PROVE  FALSE
  <2>1. /\ Registered(j) /\ service[j].leases = {} /\ service'[j].key = service[j].key
        /\ service[j].timer => service'[j].timer
        /\ ~(At(r, "releasing") /\ call[r].current = j)
    BY <1>1
  <2>2. WillEnd(j)
    BY <2>1 DEF UnleasedEnds
  <2>3. CASE StopPolicy(j) = "manual"
    BY <1>1, <2>1, <2>3 DEF WillEnd, StopPolicy
  <2>4. CASE service[j].timer
    BY <1>1, <2>1, <2>4 DEF WillEnd
  <2>5. ASSUME NEW q \in Run, At(q, "releasing"), call[q].current = j PROVE FALSE
    <3>1. call'[q] = call[q]
      BY <2>1, <2>5 DEF OnlyCall
    <3> QED
      BY <1>1, <2>5, <3>1 DEF WillEnd, At
  <2>6. ASSUME NEW q \in Run, call[q].failed PROVE FALSE
    <3>1. call'[q].failed
      BY <2>6 DEF OnlyCall
    <3> QED
      BY <1>1, <3>1 DEF WillEnd
  <2> QED
    BY <2>2, <2>3, <2>4, <2>5, <2>6 DEF WillEnd
<1> QED
  BY <1>1 DEF UnleasedEnds

(* A callback drops a record or changes nothing that leases are about.       *)
LEMMA CallbackKeeps ==
  ASSUME TypeInv, TypeInv', LeaseInv, call' = call,
         \A j \in Service :
           /\ service'[j].leases \subseteq service[j].leases
           /\ Registered(j)' => /\ Registered(j) /\ service'[j].key = service[j].key
                                /\ service'[j].leases = service[j].leases
                                /\ service'[j].timer = service[j].timer
  PROVE  LeaseInv'
<1>a. /\ \A r \in Run : GivesUpFirst(r)
      /\ \A i \in Service : LeasesEnd(i) /\ UnleasedEnds(i)
  BY LeaseParts DEF TypeInv
<1>1. ASSUME NEW q \in Run PROVE GivesUpFirst(q)'
  <2>1. call[q].pc \in {"releasing", "stopping"} => call[q].current \in Service
    BY DEF TypeInv, CallsFit, Fits
  <2>2. GivesUpFirst(q)
    BY <1>a
  <2> QED
    BY <2>1, <2>2 DEF GivesUpFirst
<1>2. ASSUME NEW j \in Service PROVE LeasesEnd(j)'
  <2>1. LeasesEnd(j)
    BY <1>a
  <2> QED
    BY <2>1 DEF LeasesEnd, WillGiveUp, InHeld, At
<1>3. ASSUME NEW j \in Service PROVE UnleasedEnds(j)'
  <2>1. UnleasedEnds(j)
    BY <1>a
  <2> QED
    BY <2>1 DEF UnleasedEnds, WillEnd, StopPolicy, At
<1> QED
  BY <1>1, <1>2, <1>3, LeaseWhole

LEMMA LeasesHold == Spec => []LeaseInv
<1>1. Init => LeaseInv
  BY DEF Init, LeaseInv, ReleasesFirst, LeaseIsGivenUp, UnleasedServiceEnds, Registered
<1>2. TypeInv /\ TypeInv' /\ IndexInv /\ LeaseInv /\ [Next]_vars => LeaseInv'
  <2> SUFFICES ASSUME TypeInv, TypeInv', IndexInv, LeaseInv, [Next]_vars PROVE LeaseInv'
    OBVIOUS
  <2>a. /\ \A r \in Run : GivesUpFirst(r)
        /\ \A i \in Service : LeasesEnd(i)
        /\ \A i \in Service : UnleasedEnds(i)
    BY LeaseParts DEF TypeInv
  <2>1. ASSUME NEW r \in Run, Reuse(r) PROVE LeaseInv'
    <3>1. PICK i \in Service :
           /\ Registered(i) /\ At(r, "ensure")
           /\ OnlyRecord(i)
           /\ service'[i].state = "registered" /\ service'[i].key = service[i].key
           /\ service'[i].leases = service[i].leases \union {r} /\ ~service'[i].timer
           /\ MovesTo(r, "persist", i)
           /\ byKey' = byKey
      BY <2>1, ReuseDoes
    <3>2. \A q \in Run : GivesUpFirst(q)'
      BY <2>a, <3>1, FirstKept DEF OnlyRecord, MovesTo, GivesUpFirst
    <3>3. \A j \in Service : LeasesEnd(j)'
      <4>1. ASSUME NEW j \in Service, Registered(j)', r \in service'[j].leases
            PROVE  WillGiveUp(r, j)'
        <5>1. CASE j = i
          BY <3>1, <5>1 DEF WillGiveUp, At, MovesTo
        <5>2. CASE j # i
          <6>1. WillGiveUp(r, j) /\ ~At(r, "persist")
            BY <2>a, <3>1, <4>1, <5>2 DEF LeasesEnd, Registered, OnlyRecord, At
          <6> QED
            BY <3>1, <6>1 DEF WillGiveUp, InHeld, MovesTo
        <5> QED
          BY <5>1, <5>2
      <4>2. OnlyCall(r)
        BY <3>1 DEF MovesTo
      <4>3. \A q \in Run, j \in Service :
              q # r /\ Registered(j)' /\ q \in service'[j].leases
                => Registered(j) /\ q \in service[j].leases
        BY <3>1 DEF Registered, OnlyRecord
      <4> QED
        BY <2>a, <4>1, <4>2, <4>3, LeasesKept
    <3>4. \A j \in Service : UnleasedEnds(j)'
      <4>1. OnlyCall(r) /\ (call[r].failed => call'[r].failed) /\ ~At(r, "releasing")
        BY <3>1 DEF MovesTo, At
      <4>2. ASSUME NEW j \in Service, Registered(j)', service'[j].leases = {}
            PROVE  /\ Registered(j) /\ service[j].leases = {} /\ service'[j].key = service[j].key
                   /\ service[j].timer => service'[j].timer
        BY <3>1, <4>2 DEF Registered, OnlyRecord
      <4> QED
        BY <2>a, <4>1, <4>2, EndsKept
    <3> QED
      BY <3>2, <3>3, <3>4, LeaseWhole
  <2>2. ASSUME NEW r \in Run, Start(r) PROVE LeaseInv'
    <3>1. PICK i \in Service :
           /\ service[i].state = "absent" /\ At(r, "ensure")
           /\ OnlyRecord(i)
           /\ service'[i].state = "starting"
           /\ service'[i].leases = service[i].leases /\ service'[i].timer = service[i].timer
           /\ MovesTo(r, "ready", i)
           /\ byKey' = byKey
      BY <2>2, StartDoes
    <3>2. \A j \in Service : service'[j].leases = service[j].leases
      BY <3>1 DEF OnlyRecord
    <3>3. ASSUME NEW j \in Service, Registered(j)'
          PROVE  Registered(j) /\ service'[j] = service[j]
      BY <3>1, <3>3 DEF Registered, OnlyRecord
    <3>4. \A q \in Run : GivesUpFirst(q)'
      BY <2>a, <3>1, <3>2, FirstKept DEF MovesTo, GivesUpFirst
    <3>5. \A j \in Service : LeasesEnd(j)'
      <4>1. ASSUME NEW j \in Service, Registered(j)', r \in service'[j].leases
            PROVE  WillGiveUp(r, j)'
        <5>1. WillGiveUp(r, j) /\ ~At(r, "persist")
          BY <2>a, <3>1, <3>3, <4>1 DEF LeasesEnd, At
        <5> QED
          BY <3>1, <5>1 DEF WillGiveUp, InHeld, MovesTo
      <4>2. OnlyCall(r)
        BY <3>1 DEF MovesTo
      <4> QED
        BY <2>a, <3>3, <4>1, <4>2, LeasesKept
    <3>6. \A j \in Service : UnleasedEnds(j)'
      <4>1. OnlyCall(r) /\ (call[r].failed => call'[r].failed) /\ ~At(r, "releasing")
        BY <3>1 DEF MovesTo, At
      <4> QED
        BY <2>a, <3>3, <4>1, EndsKept
    <3> QED
      BY <3>4, <3>5, <3>6, LeaseWhole
  <2>3. ASSUME NEW r \in Run, Ready(r) PROVE LeaseInv'
    <3> DEFINE i == call[r].current
    <3>1. /\ At(r, "ready") /\ i \in Service
          /\ OnlyRecord(i)
          /\ service'[i].state = "registered" /\ service'[i].key = service[i].key
          /\ service'[i].leases = {r} /\ service'[i].timer = service[i].timer
          /\ Moves(r, "persist")
      BY <2>3, ReadyDoes
    <3>2. call'[r].current = i /\ call'[r].pc = "persist" /\ OnlyCall(r)
          /\ call'[r].held = call[r].held /\ call'[r].failed = call[r].failed
      BY <3>1 DEF Moves
    <3> HIDE DEF i
    <3>3. \A q \in Run : GivesUpFirst(q)'
      BY <2>a, <3>1, <3>2, FirstKept DEF OnlyRecord, GivesUpFirst
    <3>4. \A j \in Service : LeasesEnd(j)'
      <4>1. ASSUME NEW j \in Service, Registered(j)', r \in service'[j].leases
            PROVE  WillGiveUp(r, j)'
        <5>1. CASE j = i
          BY <3>2, <5>1 DEF WillGiveUp, At
        <5>2. CASE j # i
          <6>1. WillGiveUp(r, j) /\ ~At(r, "persist")
            BY <2>a, <3>1, <4>1, <5>2 DEF LeasesEnd, Registered, OnlyRecord, At
          <6> QED
            BY <3>2, <6>1 DEF WillGiveUp, InHeld
        <5> QED
          BY <5>1, <5>2
      <4>2. \A q \in Run, j \in Service :
              q # r /\ Registered(j)' /\ q \in service'[j].leases
                => Registered(j) /\ q \in service[j].leases
        BY <3>1 DEF Registered, OnlyRecord
      <4> QED
        BY <2>a, <3>2, <4>1, <4>2, LeasesKept
    <3>5. \A j \in Service : UnleasedEnds(j)'
      <4>1. ~At(r, "releasing")
        BY <3>1 DEF At
      <4>2. ASSUME NEW j \in Service, Registered(j)', service'[j].leases = {}
            PROVE  Registered(j) /\ service'[j] = service[j]
        BY <3>1, <4>2 DEF Registered, OnlyRecord
      <4> QED
        BY <2>a, <3>2, <4>1, <4>2, EndsKept
    <3> QED
      BY <3>3, <3>4, <3>5, LeaseWhole
  <2>4. ASSUME NEW r \in Run, NotReady(r) PROVE LeaseInv'
    <3> DEFINE i == call[r].current
    <3>1. At(r, "ready") /\ i \in Service /\ Drops(i) /\ Moves(r, "release")
      BY <2>4, NotReadyDoes
    <3> HIDE DEF i
    <3>2. \A j \in Service : service'[j].leases \subseteq service[j].leases
      BY <3>1 DEF Drops, OnlyRecord
    <3>3. ASSUME NEW j \in Service, Registered(j)'
          PROVE  Registered(j) /\ service'[j] = service[j]
      BY <3>1, <3>3 DEF Registered, Drops, OnlyRecord
    <3>4. \A q \in Run : GivesUpFirst(q)'
      BY <2>a, <3>1, <3>2, FirstKept DEF Moves, GivesUpFirst
    <3>5. \A j \in Service : LeasesEnd(j)'
      <4>1. ASSUME NEW j \in Service, Registered(j)', r \in service'[j].leases
            PROVE  WillGiveUp(r, j)'
        <5>1. WillGiveUp(r, j) /\ ~At(r, "persist")
          BY <2>a, <3>1, <3>3, <4>1 DEF LeasesEnd, At
        <5> QED
          BY <3>1, <5>1 DEF WillGiveUp, InHeld, Moves
      <4>2. OnlyCall(r)
        BY <3>1 DEF Moves
      <4> QED
        BY <2>a, <3>3, <4>1, <4>2, LeasesKept
    <3>6. \A j \in Service : UnleasedEnds(j)'
      <4>1. OnlyCall(r) /\ (call[r].failed => call'[r].failed) /\ ~At(r, "releasing")
        BY <3>1 DEF Moves, At
      <4> QED
        BY <2>a, <3>3, <4>1, EndsKept
    <3> QED
      BY <3>4, <3>5, <3>6, LeaseWhole
  <2>5. ASSUME NEW r \in Run, Acquired(r) PROVE LeaseInv'
    <3>1. /\ At(r, "persist") /\ service' = service /\ OnlyCall(r)
          /\ call'[r].pc = "ensure" /\ call'[r].failed = call[r].failed
          /\ call'[r].held = Append(call[r].held, call[r].current)
      BY <2>5 DEF Acquired, OnlyCall, TypeInv, TypeOK, Call
    <3>2. call[r].held \in Seq(Service) /\ call[r].current \in Service
      BY <3>1 DEF TypeInv, TypeOK, Call, CallsFit, Fits, At
    <3>3. InHeld(call'[r], call[r].current)
      <4> DEFINE s == call[r].held
                 e == call[r].current
      <4>1. \E n \in 1..Len(Append(s, e)) : Append(s, e)[n] = e
        <5>1. s \in Seq(Service) /\ e \in Service
          BY <3>2
        <5> HIDE DEF s, e
        <5> QED
          BY <5>1, AppendMembers
      <4> QED
        BY <3>1, <4>1 DEF InHeld
    <3>a. \A j : InHeld(call[r], j) => InHeld(call[r], j)'
      BY <3>1, <3>2, AppendMembers DEF InHeld
    <3>4. \A q \in Run : GivesUpFirst(q)'
      BY <2>a, <3>1, FirstKept DEF GivesUpFirst
    <3>5. \A j \in Service : LeasesEnd(j)'
      <4>1. call'[r].current = call[r].current
        BY <2>5 DEF Acquired, TypeInv, TypeOK, Call
      <4>2. ASSUME NEW j \in Service, Registered(j)', r \in service'[j].leases
            PROVE  WillGiveUp(r, j)'
        <5>1. WillGiveUp(r, j)
          BY <2>a, <3>1, <4>2 DEF LeasesEnd, Registered
        <5>2. InHeld(call[r], j)' \/ call'[r].failed
          BY <3>1, <3>3, <3>a, <4>1, <5>1 DEF WillGiveUp, InHeld
        <5> QED
          BY <5>2 DEF WillGiveUp
      <4> QED
        BY <2>a, <3>1, <4>2, LeasesKept DEF Registered
    <3>6. \A j \in Service : UnleasedEnds(j)'
      BY <2>a, <3>1, EndsKept DEF Registered, At
    <3> QED
      BY <3>4, <3>5, <3>6, LeaseWhole
  <2>6. ASSUME NEW r \in Run, NEW pc \in {"using", "release", "done"},
               ~At(r, "persist"), ~At(r, "releasing"), Moves(r, pc), service' = service
        PROVE  LeaseInv'
    <3>1. OnlyCall(r)
      BY <2>6 DEF Moves
    <3>2. \A q \in Run : GivesUpFirst(q)'
      BY <2>a, <2>6, <3>1, FirstKept DEF GivesUpFirst, Moves
    <3>3. \A j \in Service : LeasesEnd(j)'
      <4>1. ASSUME NEW j \in Service, Registered(j)', r \in service'[j].leases
            PROVE  WillGiveUp(r, j)'
        <5>1. WillGiveUp(r, j)
          BY <2>a, <2>6, <4>1 DEF LeasesEnd, Registered
        <5> QED
          BY <2>6, <5>1 DEF WillGiveUp, InHeld, Moves
      <4> QED
        BY <2>a, <2>6, <3>1, <4>1, LeasesKept DEF Registered
    <3>4. \A j \in Service : UnleasedEnds(j)'
      BY <2>a, <2>6, <3>1, EndsKept DEF Registered, Moves
    <3> QED
      BY <3>2, <3>3, <3>4, LeaseWhole
  <2>7. ASSUME NEW r \in Run, Use(r) \/ AdapterReturns(r) \/ Done(r) PROVE LeaseInv'
    <3>1. PICK pc \in {"using", "release", "done"} : Goto(r, pc)
      BY <2>7 DEF Use, AdapterReturns, Done
    <3>2. ~At(r, "persist") /\ ~At(r, "releasing") /\ service' = service
      BY <2>7 DEF Use, AdapterReturns, Done, At
    <3> QED
      BY <2>6, <3>1, <3>2, GotoMoves
  <2>8. ASSUME NEW r \in Run, Passes(r), service' = service,
               ~At(r, "persist"), ~At(r, "releasing"),
               \A j \in Service : Registered(j) /\ r \in service[j].leases
                                    => j # Head(call[r].held)
        PROVE  LeaseInv'
    <3>1. OnlyCall(r) /\ call[r].held \in Seq(Service)
      BY <2>8 DEF Passes, TypeInv, TypeOK, Call
    <3>2. \A q \in Run : GivesUpFirst(q)'
      BY <2>a, <2>8, <3>1, FirstKept DEF GivesUpFirst, Passes
    <3>3. \A j \in Service : LeasesEnd(j)'
      <4>1. ASSUME NEW j \in Service, Registered(j)', r \in service'[j].leases
            PROVE  WillGiveUp(r, j)'
        <5>1. WillGiveUp(r, j) /\ j # Head(call[r].held)
          BY <2>a, <2>8, <4>1 DEF LeasesEnd, Registered
        <5>2. InHeld(call[r], j) => InHeld(call[r], j)'
          BY <2>8, <3>1, <5>1, TailHeld DEF Passes
        <5> QED
          BY <2>8, <5>1, <5>2 DEF WillGiveUp, Passes
      <4> QED
        BY <2>a, <2>8, <3>1, <4>1, LeasesKept DEF Registered
    <3>4. \A j \in Service : UnleasedEnds(j)'
      BY <2>a, <2>8, <3>1, EndsKept DEF Registered, Passes
    <3> QED
      BY <3>2, <3>3, <3>4, LeaseWhole
  <2>9. ASSUME NEW r \in Run, GiveUp(r) PROVE LeaseInv'
    <3> DEFINE i == Head(call[r].held)
    <3>1. /\ At(r, "release") /\ call[r].held # <<>> /\ i \in Service
          /\ \/ /\ Registered(i)
                /\ OnlyRecord(i)
                /\ service'[i].state = "registered" /\ service'[i].key = service[i].key
                /\ service'[i].leases = service[i].leases \ {r}
                /\ service'[i].timer = service[i].timer
                /\ MovesTo(r, "releasing", i)
             \/ ~Registered(i) /\ Passes(r) /\ service' = service
      BY <2>9, GiveUpDoes
    <3>2. CASE ~Registered(i)
      BY <2>8, <3>1, <3>2 DEF At
    <3>3. CASE Registered(i)
      <4>1. /\ OnlyCall(r) /\ call'[r].pc = "releasing" /\ call'[r].current = i
            /\ call'[r].held = call[r].held /\ call'[r].failed = call[r].failed
        BY <3>1, <3>3 DEF MovesTo
      <4>2. GivesUpFirst(r)'
        BY <3>1, <3>3, <4>1 DEF GivesUpFirst
      <4>3. \A j \in Service :
              /\ service'[j].leases \subseteq service[j].leases
              /\ Registered(j)' => Registered(j)
        BY <3>1, <3>3 DEF OnlyRecord, Registered
      <4>4. \A q \in Run : GivesUpFirst(q)'
        BY <2>a, <4>1, <4>2, <4>3, FirstKept
      <4>5. \A j \in Service : LeasesEnd(j)'
        <5>1. ASSUME NEW j \in Service, Registered(j)', r \in service'[j].leases
              PROVE  WillGiveUp(r, j)'
          <6>1. WillGiveUp(r, j) /\ ~At(r, "persist")
            BY <2>a, <3>1, <4>3, <5>1 DEF LeasesEnd, At
          <6> QED
            BY <4>1, <6>1 DEF WillGiveUp, InHeld
        <5> QED
          BY <2>a, <4>1, <4>3, <5>1, LeasesKept
      <4>6. \A j \in Service : UnleasedEnds(j)'
        <5>2. ASSUME NEW j \in Service, Registered(j)', service'[j].leases = {}, j # i
              PROVE  /\ Registered(j) /\ service[j].leases = {}
                     /\ service'[j].key = service[j].key /\ service'[j].timer = service[j].timer
          BY <3>1, <3>3, <5>2 DEF OnlyRecord, Registered
        <5>3. ~At(r, "releasing")
          BY <3>1 DEF At
        <5>4. ASSUME NEW j \in Service, Registered(j)', service'[j].leases = {}
              PROVE  \/ WillEnd(j)'
                     \/ /\ Registered(j) /\ service[j].leases = {}
                        /\ service'[j].key = service[j].key
                        /\ service[j].timer => service'[j].timer
                        /\ ~(At(r, "releasing") /\ call[r].current = j)
          <6>1. CASE j = i
            <7>1. At(r, "releasing")' /\ call'[r].current = j
              BY <4>1, <6>1 DEF At
            <7> QED
              BY <7>1 DEF WillEnd
          <6>2. CASE j # i
            BY <5>2, <5>3, <5>4, <6>2
          <6> QED
            BY <6>1, <6>2
        <5> QED
          BY <2>a, <4>1, <5>4, EndsKept
      <4> QED
        BY <4>4, <4>5, <4>6, LeaseWhole
    <3> QED
      BY <3>2, <3>3
  <2>10. ASSUME NEW r \in Run, Retire(r) PROVE LeaseInv'
    <3> DEFINE i == call[r].current
    <3>1. /\ At(r, "releasing") /\ i \in Service
          /\ \/ /\ Registered(i) /\ service[i].leases = {}
                /\ Stops(i) /\ Moves(r, "stopping")
             \/ /\ OnlyRecord(i)
                /\ service'[i].state = service[i].state /\ service'[i].key = service[i].key
                /\ service'[i].leases = service[i].leases
                /\ service'[i].timer # service[i].timer
                      => Registered(i) /\ service[i].leases = {}
                /\ Registered(i) /\ service[i].leases = {} /\ StopPolicy(i) # "manual"
                      => service'[i].timer
                /\ Passes(r)
      BY <2>10, RetireDoes
    <3>2. Head(call[r].held) = i /\ r \notin service[i].leases
      BY <2>a, <3>1 DEF GivesUpFirst, At
    <3>3. CASE Stops(i) /\ Moves(r, "stopping")
      <4>1. /\ OnlyCall(r) /\ call'[r].pc = "stopping" /\ call'[r].current = i
            /\ call'[r].held = call[r].held /\ call'[r].failed = call[r].failed
        BY <3>3 DEF Moves
      <4> HIDE DEF i
      <4>2. /\ service'[i].state = "gone" /\ service'[i].leases = {}
            /\ \A j \in Service : j # i => service'[j] = service[j]
        BY <3>3 DEF Stops, Drops, OnlyRecord
      <4>3. \A q \in Run : GivesUpFirst(q)'
        <5>1. GivesUpFirst(r)'
          BY <3>2, <4>1, <4>2 DEF GivesUpFirst
        <5> QED
          BY <2>a, <4>1, <4>2, <5>1, FirstKept
      <4>4. ASSUME NEW j \in Service, Registered(j)'
            PROVE  j # i /\ Registered(j) /\ service'[j] = service[j]
        BY <4>2, <4>4 DEF Registered
      <4>5. \A j \in Service : LeasesEnd(j)'
        <5>1. ASSUME NEW j \in Service, Registered(j)', r \in service'[j].leases
              PROVE  WillGiveUp(r, j)'
          <6>1. WillGiveUp(r, j) /\ ~At(r, "persist")
            BY <2>a, <3>1, <4>4, <5>1 DEF LeasesEnd, At
          <6> QED
            BY <4>1, <6>1 DEF WillGiveUp, InHeld
        <5> QED
          BY <2>a, <4>1, <4>4, <5>1, LeasesKept
      <4>6. \A j \in Service : UnleasedEnds(j)'
        BY <2>a, <4>1, <4>4, EndsKept DEF i
      <4> QED
        BY <4>3, <4>5, <4>6, LeaseWhole
    <3>4. CASE ~(Stops(i) /\ Moves(r, "stopping"))
      <4>1. /\ OnlyCall(r) /\ call'[r].pc = "release" /\ call'[r].failed = call[r].failed
            /\ call[r].held \in Seq(Service) /\ call[r].held # <<>>
            /\ call'[r].held = Tail(call[r].held)
        BY <3>1, <3>4 DEF Passes, TypeInv, TypeOK, Call
      <4> HIDE DEF i
      <4>2. \A j \in Service :
              /\ service'[j].state = service[j].state /\ service'[j].key = service[j].key
              /\ service'[j].leases = service[j].leases
              /\ j # i => service'[j].timer = service[j].timer
        BY <3>1, <3>4 DEF OnlyRecord
      <4>3. \A q \in Run : GivesUpFirst(q)'
        <5>1. GivesUpFirst(r)'
          BY <4>1 DEF GivesUpFirst
        <5> QED
          BY <2>a, <4>1, <4>2, <5>1, FirstKept
      <4>4. \A j \in Service : LeasesEnd(j)'
        <5>1. ASSUME NEW j \in Service, Registered(j)', r \in service'[j].leases
              PROVE  WillGiveUp(r, j)'
          <6>1. Registered(j) /\ r \in service[j].leases
            BY <4>2, <5>1 DEF Registered
          <6>2. WillGiveUp(r, j) /\ j # Head(call[r].held) /\ ~At(r, "persist")
            BY <2>a, <3>1, <3>2, <6>1 DEF LeasesEnd, At
          <6>3. InHeld(call[r], j) => InHeld(call[r], j)'
            BY <4>1, <6>2, TailHeld
          <6> QED
            BY <4>1, <6>2, <6>3 DEF WillGiveUp
        <5>2. \A j \in Service : Registered(j)' => Registered(j)
          BY <4>2 DEF Registered
        <5> QED
          BY <2>a, <4>1, <4>2, <5>1, <5>2, LeasesKept
      <4>5. \A j \in Service : UnleasedEnds(j)'
        <5>1. ASSUME NEW j \in Service, Registered(j)', service'[j].leases = {}
              PROVE  \/ WillEnd(j)'
                     \/ /\ Registered(j) /\ service[j].leases = {}
                        /\ service'[j].key = service[j].key
                        /\ service[j].timer => service'[j].timer
                        /\ ~(At(r, "releasing") /\ call[r].current = j)
          <6>1. /\ Registered(j) /\ service[j].leases = {} /\ service'[j].key = service[j].key
                /\ j # i => service'[j].timer = service[j].timer
            BY <4>2, <5>1 DEF Registered
          <6>2. CASE j # i
            BY <6>1, <6>2 DEF i
          <6>3. CASE j = i
            <7>1. StopPolicy(j) # "manual" => service'[j].timer
              BY <3>1, <3>4, <6>1, <6>3
            <7>2. StopPolicy(j) = "manual"
                    => (IF service'[j].key = NoKey THEN "on_run_finish"
                                                   ELSE Policy[service'[j].key]) = "manual"
              BY <6>1 DEF StopPolicy
            <7> QED
              BY <7>1, <7>2 DEF WillEnd, StopPolicy
          <6> QED
            BY <6>2, <6>3
        <5> QED
          BY <2>a, <4>1, <5>1, EndsKept
      <4> QED
        BY <4>3, <4>4, <4>5, LeaseWhole
    <3> QED
      BY <3>3, <3>4
  <2>11. ASSUME NEW r \in Run, Retired(r) PROVE LeaseInv'
    <3>1. At(r, "stopping") /\ service' = service
      BY <2>11 DEF Retired
    <3>2. call[r].held # <<>>
      BY <3>1 DEF TypeInv, CallsFit, Fits, At
    <3>3. Passes(r)
      BY <2>11, <3>2 DEF Retired, Passes, OnlyCall, TypeInv, TypeOK, Call
    <3>4. Head(call[r].held) = call[r].current /\ r \notin service[call[r].current].leases
      BY <2>a, <3>1 DEF GivesUpFirst, At
    <3> QED
      BY <2>8, <3>1, <3>3, <3>4 DEF At
  <2>12. ASSUME NEW r \in Run, StatementFails(r) PROVE LeaseInv'
    <3>1. /\ service' = service /\ OnlyCall(r)
          /\ call'[r].pc \in {"release", "done"} /\ call'[r].failed
      BY <2>12 DEF StatementFails, OnlyCall, TypeInv, TypeOK, Call
    <3>2. \A q \in Run : GivesUpFirst(q)'
      BY <2>a, <3>1, FirstKept DEF GivesUpFirst
    <3>3. \A j \in Service : LeasesEnd(j)'
      BY <2>a, <3>1, LeasesKept DEF WillGiveUp, Registered
    <3>4. \A j \in Service : UnleasedEnds(j)'
      BY <2>a, <3>1, EndsKept DEF WillEnd
    <3> QED
      BY <3>2, <3>3, <3>4, LeaseWhole
  <2>13. ASSUME NEW i \in Service, IdleTimeout(i) PROVE LeaseInv'
    <3>1. call' = call /\ Stops(i)
      BY <2>13, StopStops DEF IdleTimeout
    <3> QED
      BY <3>1, CallbackKeeps DEF Stops, Drops, OnlyRecord, Registered
  <2>14. ASSUME NEW i \in Service, ChildExits(i) PROVE LeaseInv'
    <3>1. /\ call' = call
          /\ \/ Drops(i)
             \/ /\ OnlyRecord(i)
                /\ service'[i].state = service[i].state /\ service'[i].key = service[i].key
                /\ service'[i].leases = service[i].leases
                /\ service'[i].timer = service[i].timer
      BY <2>14, ChildExitsDoes
    <3> QED
      BY <3>1, CallbackKeeps DEF Drops, OnlyRecord, Registered
  <2>15. CASE UNCHANGED vars
    BY <2>15, CallbackKeeps DEF vars, Registered
  <2> QED
    BY <2>1, <2>2, <2>3, <2>4, <2>5, <2>7, <2>9, <2>10, <2>11, <2>12, <2>13, <2>14, <2>15
    DEF Next, Step
<1> QED
  BY <1>1, <1>2, TypesHold, IndexHolds, PTL DEF Spec

(* No lease outlives its run, except after a failed statement of that run.   *)
THEOREM LeasesAreGivenUp == Spec => []LeaseIsGivenUp
BY LeasesHold, PTL DEF LeaseInv

(* A service that nobody leases and that is not meant to stay has an idle    *)
(* timer or a release that will look at it, except after a failed statement. *)
THEOREM UnleasedServicesEnd == Spec => []UnleasedServiceEnds
BY LeasesHold, PTL DEF LeaseInv

-----------------------------------------------------------------------------
(* The services as a pool.                                                   *)

Acquires(r) == call[r].pc \in {"ensure", "ready", "persist"}

(* The run has service i for key k, or had it until it went.                 *)
Got(r, i, k) ==
  /\ service[i].key = k
  /\ service[i].state = "gone" \/ (Registered(i) /\ r \in service[i].leases)

(* While it acquires, a run holds a service for every key it has asked for   *)
(* so far, and the others are still on its list.                             *)
Granted(r) ==
  LET c == call[r] IN
  Acquires(r) =>
    /\ Len(c.held) + Len(c.todo) = Len(Wants[r])
    /\ \A n \in 1..Len(c.todo) : c.todo[n] = Wants[r][Len(c.held) + n]
    /\ \A n \in 1..Len(c.held) : Got(r, c.held[n], Wants[r][n])
    /\ c.pc = "ready" => service[c.current].key = Head(c.todo)
    /\ c.pc = "persist" => Got(r, c.current, Head(c.todo))

GrantInv == \A r \in Run : Granted(r)

LEMMA InitGrants == Init => GrantInv
<1> SUFFICES ASSUME Init, NEW r \in Run PROVE Granted(r)
  BY DEF GrantInv
<1>1. call[r].pc = "ensure" /\ call[r].todo = Wants[r] /\ call[r].held = <<>>
  BY DEF Init
<1>2. Wants[r] \in Seq(Key \union {NoKey})
  OBVIOUS
<1> QED
  BY <1>1, <1>2 DEF Granted

(* No step takes from a run that acquires what it has got, and no service    *)
(* changes its key once it is started.                                       *)
LEMMA GotKept ==
  ASSUME TypeInv, IndexInv, NEW r \in Run, Acquires(r), Next, NEW i \in Service
  PROVE  /\ \A k : Got(r, i, k) => Got(r, i, k)'
         /\ service[i].state # "absent" => service'[i].key = service[i].key
<1> DEFINE Kept == /\ \A k : Got(r, i, k) => Got(r, i, k)'
                   /\ service[i].state # "absent" => service'[i].key = service[i].key
<1>1. ASSUME NEW q \in Run, Reuse(q) PROVE Kept
  BY <1>1, ReuseDoes DEF Got, Registered, OnlyRecord
<1>2. ASSUME NEW q \in Run, Start(q) PROVE Kept
  BY <1>2, StartDoes DEF Got, Registered, OnlyRecord
<1>3. ASSUME NEW q \in Run, Ready(q) PROVE Kept
  <2>1. PICK j : j = call[q].current
    OBVIOUS
  <2>2. service[j].state = "starting"
    BY <1>3, <2>1, ReadyDoes DEF IndexInv, StartsItsOwn
  <2>3. OnlyRecord(j) /\ service'[j].key = service[j].key
    BY <1>3, <2>1, ReadyDoes
  <2> QED
    BY <2>2, <2>3 DEF Got, Registered, OnlyRecord
<1>4. ASSUME NEW q \in Run, NotReady(q) PROVE Kept
  <2>1. PICK j : j = call[q].current
    OBVIOUS
  <2>2. service[j].state = "starting"
    BY <1>4, <2>1, NotReadyDoes DEF IndexInv, StartsItsOwn
  <2>3. Drops(j)
    BY <1>4, <2>1, NotReadyDoes
  <2> QED
    BY <2>2, <2>3 DEF Got, Registered, OnlyRecord, Drops
<1>5. ASSUME NEW q \in Run, GiveUp(q) PROVE Kept
  <2>1. PICK j : j = Head(call[q].held)
    OBVIOUS
  <2>2. q # r
    BY <1>5 DEF GiveUp, At, Acquires
  <2>3. \/ service' = service
        \/ /\ OnlyRecord(j) /\ Registered(j) /\ service'[j].state = "registered"
           /\ service'[j].key = service[j].key /\ service'[j].leases = service[j].leases \ {q}
    BY <1>5, <2>1, GiveUpDoes
  <2> QED
    BY <2>2, <2>3 DEF Got, Registered, OnlyRecord
<1>6. ASSUME NEW q \in Run, Retire(q) PROVE Kept
  <2>1. PICK j : j = call[q].current
    OBVIOUS
  <2>2. \/ Drops(j)
        \/ /\ OnlyRecord(j) /\ service'[j].state = service[j].state
           /\ service'[j].key = service[j].key /\ service'[j].leases = service[j].leases
    BY <1>6, <2>1, RetireDoes DEF Stops
  <2> QED
    BY <2>2 DEF Got, Registered, OnlyRecord, Drops
<1>7. ASSUME NEW q \in Run,
             Acquired(q) \/ Use(q) \/ AdapterReturns(q) \/ Retired(q) \/ Done(q)
               \/ StatementFails(q)
      PROVE  Kept
  BY <1>7 DEF Acquired, Use, AdapterReturns, Retired, Done, StatementFails, Got, Registered
<1>8. ASSUME NEW j \in Service, IdleTimeout(j) PROVE Kept
  <2>1. Drops(j)
    BY <1>8, StopStops DEF IdleTimeout, Stops
  <2> QED
    BY <2>1 DEF Got, Registered, OnlyRecord, Drops
<1>9. ASSUME NEW j \in Service, ChildExits(j) PROVE Kept
  <2>1. \/ Drops(j)
        \/ /\ OnlyRecord(j) /\ service'[j].state = service[j].state
           /\ service'[j].key = service[j].key /\ service'[j].leases = service[j].leases
    BY <1>9, ChildExitsDoes
  <2> QED
    BY <2>1 DEF Got, Registered, OnlyRecord, Drops
<1> QED
  BY <1>1, <1>2, <1>3, <1>4, <1>5, <1>6, <1>7, <1>8, <1>9 DEF Next, Step

(* The run that acquires a service has it on its list of those it holds.     *)
LEMMA AcquiredGrants ==
  ASSUME TypeInv, NEW r \in Run, Granted(r), Acquired(r),
         \A i \in Service : \A k : Got(r, i, k) => Got(r, i, k)'
  PROVE  Granted(r)'
<1>1. /\ call[r].held \in Seq(Service) /\ call[r].todo \in Seq(Key \union {NoKey})
      /\ call[r].todo # <<>> /\ call[r].current \in Service /\ call[r].pc = "persist"
  BY DEF Acquired, At, TypeInv, TypeOK, Call, CallsFit, Fits
<1>2. /\ call'[r].pc = "ensure" /\ call'[r].todo = Tail(call[r].todo)
      /\ call'[r].held = Append(call[r].held, call[r].current)
  BY DEF Acquired, TypeInv, TypeOK, Call
<1>3. PICK held, todo, last, first, wants :
        /\ held = call[r].held /\ todo = call[r].todo /\ last = call[r].current
        /\ first = Head(todo) /\ wants = Wants[r]
  OBVIOUS
<1>4. PICK held2, todo2 : held2 = call'[r].held /\ todo2 = call'[r].todo
  OBVIOUS
<1>5. /\ Len(held) + Len(todo) = Len(wants)
      /\ \A n \in 1..Len(todo) : todo[n] = wants[Len(held) + n]
      /\ \A n \in 1..Len(held) : Got(r, held[n], wants[n])
      /\ Got(r, last, first)
  BY <1>1, <1>3 DEF Granted, Acquires
<1>6. /\ Len(todo) \in Nat \ {0} /\ Len(held) \in Nat /\ first = todo[1]
      /\ Len(todo2) = Len(todo) - 1
      /\ \A n \in 1..(Len(todo) - 1) : todo2[n] = todo[n + 1]
  <2>1. /\ todo \in Seq(Key \union {NoKey}) /\ todo # <<>> /\ todo2 = Tail(todo)
        /\ held \in Seq(Service)
    BY <1>1, <1>2, <1>3, <1>4
  <2> QED
    BY <1>3, <2>1
<1>7. /\ Len(held2) = Len(held) + 1 /\ held2[Len(held) + 1] = last /\ last \in Service
      /\ \A n \in 1..Len(held) : held2[n] = held[n] /\ held[n] \in Service
  <2>1. held \in Seq(Service) /\ last \in Service /\ held2 = Append(held, last)
    BY <1>1, <1>2, <1>3, <1>4
  <2> QED
    BY <2>1
<1>8. Len(held2) + Len(todo2) = Len(wants)
  <2>1. PICK a \in Nat, b \in Nat : a = Len(held) /\ b = Len(todo)
    BY <1>6
  <2>2. Len(held2) = a + 1 /\ Len(todo2) = b - 1 /\ Len(wants) = a + b
    BY <1>5, <1>6, <1>7, <2>1
  <2>3. (a + 1) + (b - 1) = a + b
    OBVIOUS
  <2> QED
    BY <2>2, <2>3
<1>9. \A n \in 1..Len(todo2) : todo2[n] = wants[Len(held2) + n]
  <2> TAKE n \in 1..Len(todo2)
  <2>1. n + 1 \in 1..Len(todo) /\ todo2[n] = todo[n + 1]
        /\ Len(held) + (n + 1) = Len(held2) + n
    BY <1>6, <1>7
  <2> QED
    BY <1>5, <2>1
<1>10. \A n \in 1..Len(held2) : Got(r, held2[n], wants[n])'
  <2> TAKE n \in 1..Len(held2)
  <2>1. CASE n = Len(held) + 1
    <3>1. wants[n] = first /\ held2[n] = last
      BY <1>5, <1>6, <1>7, <2>1
    <3>2. Got(r, last, first)'
      BY <1>5, <1>7
    <3> QED
      BY <3>1, <3>2
  <2>2. CASE n # Len(held) + 1
    <3>1. n \in 1..Len(held) /\ held2[n] = held[n] /\ held[n] \in Service
      BY <1>6, <1>7, <2>2
    <3>2. Got(r, held[n], wants[n])'
      BY <1>5, <3>1
    <3> QED
      BY <3>1, <3>2
  <2> QED
    BY <2>1, <2>2
<1> QED
  <2>1. /\ Len(call'[r].held) + Len(call'[r].todo) = Len(Wants[r])
        /\ \A n \in 1..Len(call'[r].todo) : call'[r].todo[n] = Wants[r][Len(call'[r].held) + n]
    BY <1>3, <1>4, <1>8, <1>9
  <2>2. \A n \in 1..Len(call[r].held)' : Got(r, call[r].held[n], Wants[r][n])'
    BY <1>3, <1>4, <1>10 DEF Got, Registered
  <2> QED
    BY <1>2, <2>1, <2>2 DEF Granted

LEMMA GrantKept ==
  ASSUME TypeInv, IndexInv, GrantInv, [Next]_vars
  PROVE  GrantInv'
<1>a. CASE UNCHANGED vars
  BY <1>a DEF vars, GrantInv, Granted, Acquires, Got, Registered
<1> SUFFICES ASSUME Next, NEW r \in Run, Acquires(r)' PROVE Granted(r)'
  BY <1>a DEF GrantInv, Granted
<1>1. Granted(r)
  BY DEF GrantInv
<1>2. /\ call[r].held \in Seq(Service)
      /\ \A n \in 1..Len(call[r].held) : call[r].held[n] \in Service
      /\ call[r].pc \in {"ready", "persist"} => call[r].current \in Service
  <2>1. call[r].held \in Seq(Service)
    BY DEF TypeInv, TypeOK, Call
  <2> QED
    BY <2>1 DEF TypeInv, CallsFit, Fits
<1>3. Acquires(r) => \A i \in Service :
        /\ \A k : Got(r, i, k) => Got(r, i, k)'
        /\ service[i].state # "absent" => service'[i].key = service[i].key
  BY GotKept
(* The others move, or the run stays where it is.                            *)
<1>4. ASSUME call'[r] = call[r] PROVE Granted(r)'
  <2>1. Acquires(r)
    BY <1>4 DEF Acquires
  <2>2. call[r].pc = "ready" => service'[call[r].current].key = service[call[r].current].key
    BY <1>2, <1>3, <2>1 DEF IndexInv, StartsItsOwn, At
  <2>3. ASSUME NEW n \in 1..Len(call[r].held) PROVE Got(r, call[r].held[n], Wants[r][n])'
    <3>1. PICK i \in Service : i = call[r].held[n]
      BY <1>2
    <3>2. PICK k : k = Wants[r][n]
      OBVIOUS
    <3>3. Got(r, i, k)'
      BY <1>1, <1>3, <2>1, <3>1, <3>2 DEF Granted
    <3> QED
      BY <1>4, <3>1, <3>2, <3>3 DEF Got, Registered
  <2>4. ASSUME call[r].pc = "persist" PROVE Got(r, call[r].current, Head(call[r].todo))'
    <3>1. PICK i \in Service : i = call[r].current
      BY <1>2, <2>4
    <3>2. PICK k : k = Head(call[r].todo)
      OBVIOUS
    <3>3. Got(r, i, k)'
      BY <1>1, <1>3, <2>1, <2>4, <3>1, <3>2 DEF Granted
    <3> QED
      BY <1>4, <3>1, <3>2, <3>3 DEF Got, Registered
  <2> QED
    BY <1>1, <1>4, <2>1, <2>2, <2>3, <2>4 DEF Granted
(* The run itself goes on acquiring: its lists are as they were.             *)
<1>5. ASSUME NEW pc \in {"ensure", "ready", "persist"}, Acquires(r),
             call'[r].pc = pc, call'[r].todo = call[r].todo, call'[r].held = call[r].held,
             pc = "ready" => service'[call'[r].current].key = Head(call[r].todo),
             pc = "persist" => Got(r, call[r].current, Head(call[r].todo))'
      PROVE  Granted(r)'
  <2>1. ASSUME NEW n \in 1..Len(call[r].held) PROVE Got(r, call[r].held[n], Wants[r][n])'
    <3>1. PICK i \in Service : i = call[r].held[n]
      BY <1>2
    <3>2. PICK k : k = Wants[r][n]
      OBVIOUS
    <3>3. Got(r, i, k)'
      BY <1>1, <1>3, <1>5, <3>1, <3>2 DEF Granted
    <3> QED
      BY <1>5, <3>1, <3>2, <3>3 DEF Got, Registered
  <2> QED
    BY <1>1, <1>5, <2>1 DEF Granted
<1>6. ASSUME Reuse(r) PROVE Granted(r)'
  <2>1. PICK i \in Service :
          /\ Registered(i) /\ At(r, "ensure") /\ service'[i].state = "registered"
          /\ service'[i].key = service[i].key /\ r \in service'[i].leases
          /\ Head(call[r].todo) \in Key /\ byKey[Head(call[r].todo)] = i
          /\ MovesTo(r, "persist", i)
    BY <1>6, ReuseDoes
  <2>2. service[i].key = Head(call[r].todo)
    BY <2>1 DEF IndexInv, KeyLeadsToService, Service
  <2> QED
    BY <1>5, <2>1, <2>2 DEF MovesTo, At, Acquires, Got, Registered
<1>7. ASSUME Start(r) PROVE Granted(r)'
  <2>1. PICK i \in Service :
          At(r, "ensure") /\ service'[i].key = Head(call[r].todo) /\ MovesTo(r, "ready", i)
    BY <1>7, StartDoes
  <2> QED
    BY <1>5, <2>1 DEF MovesTo, At, Acquires
<1>8. ASSUME Ready(r) PROVE Granted(r)'
  <2>1. PICK i : i = call[r].current
    OBVIOUS
  <2>2. /\ At(r, "ready") /\ i \in Service /\ service'[i].state = "registered"
        /\ service'[i].key = service[i].key /\ service'[i].leases = {r}
        /\ Moves(r, "persist")
    BY <1>8, <2>1, ReadyDoes
  <2>3. service[i].key = Head(call[r].todo)
    BY <1>1, <2>1, <2>2 DEF Granted, Acquires, At
  <2> QED
    BY <1>5, <2>1, <2>2, <2>3 DEF Moves, At, Acquires, Got, Registered
<1>9. ASSUME Acquired(r) PROVE Granted(r)'
  <2>1. Acquires(r)
    BY <1>9 DEF Acquired, At, Acquires
  <2> QED
    BY <1>1, <1>3, <1>9, <2>1, AcquiredGrants
<1>10. ASSUME NEW pc \in {"release", "using", "stopping", "done"}, Moves(r, pc) PROVE FALSE
  BY <1>10 DEF Moves, Acquires
<1>11. ASSUME Use(r) \/ AdapterReturns(r) \/ Done(r) PROVE FALSE
  BY <1>10, <1>11, GotoMoves DEF Use, AdapterReturns, Done
<1>12. ASSUME NotReady(r) PROVE FALSE
  BY <1>10, <1>12, NotReadyDoes
<1>13. ASSUME GiveUp(r) \/ Retire(r) \/ Retired(r) \/ StatementFails(r) PROVE FALSE
  <2>1. call'[r].pc \in {"release", "releasing", "stopping", "done"}
    <3>1. CASE GiveUp(r)
      BY <3>1, GiveUpDoes DEF MovesTo, Passes
    <3>2. CASE Retire(r)
      BY <3>2, RetireDoes DEF Moves, Passes
    <3>3. CASE Retired(r) \/ StatementFails(r)
      BY <3>3 DEF Retired, StatementFails, TypeInv, TypeOK, Call
    <3> QED
      BY <1>13, <3>1, <3>2, <3>3
  <2> QED
    BY <2>1 DEF Acquires
<1>14. ASSUME NEW q \in Run, q # r, Step(q) PROVE call'[r] = call[r]
  <2>1. CASE Reuse(q)
    BY <1>14, <2>1, ReuseDoes DEF MovesTo, OnlyCall
  <2>2. CASE Start(q)
    BY <1>14, <2>2, StartDoes DEF MovesTo, OnlyCall
  <2>3. CASE Ready(q)
    BY <1>14, <2>3, ReadyDoes DEF Moves, OnlyCall
  <2>4. CASE NotReady(q)
    BY <1>14, <2>4, NotReadyDoes DEF Moves, OnlyCall
  <2>5. CASE GiveUp(q)
    BY <1>14, <2>5, GiveUpDoes DEF MovesTo, Passes, OnlyCall
  <2>6. CASE Retire(q)
    BY <1>14, <2>6, RetireDoes DEF Moves, Passes, OnlyCall
  <2>7. CASE Acquired(q) \/ Use(q) \/ AdapterReturns(q) \/ Retired(q) \/ Done(q)
               \/ StatementFails(q)
    BY <1>14, <2>7 DEF Acquired, Use, AdapterReturns, Retired, Done, StatementFails, Goto,
                       TypeInv, TypeOK
  <2> QED
    BY <1>14, <2>1, <2>2, <2>3, <2>4, <2>5, <2>6, <2>7 DEF Step
<1>15. ASSUME NEW i \in Service, IdleTimeout(i) \/ ChildExits(i) PROVE call'[r] = call[r]
  BY <1>15 DEF IdleTimeout, ChildExits
<1> QED
  BY <1>4, <1>6, <1>7, <1>8, <1>9, <1>11, <1>12, <1>13, <1>14, <1>15 DEF Next, Step

LEMMA GrantsHold == Spec => []GrantInv
<1>1. TypeInv /\ IndexInv /\ GrantInv /\ [Next]_vars => GrantInv'
  BY GrantKept
<1> QED
  BY InitGrants, <1>1, TypesHold, IndexHolds, PTL DEF Spec

-----------------------------------------------------------------------------
(* Every step is a step of the pool.                                         *)

LEMMA RunMeets ==
  ASSUME NEW r \in Run,
         \/ Pool!Begin(r) \/ Pool!Abandon(r) \/ Pool!End(r) \/ Pool!Finish(r)
         \/ \E i \in Service : \/ Pool!Launch(i, r) \/ Pool!Admit(i, r)
                               \/ Pool!Join(i, r) \/ Pool!Leave(i, r)
  PROVE  Pool!Next
BY DEF Pool!Next

LEMMA CallbackMeets ==
  ASSUME NEW i \in Service, Pool!Stop(i) \/ Pool!Exit(i)
  PROVE  Pool!Next
BY DEF Pool!Next

LEMMA SlotIs ==
  ASSUME NEW i \in Service
  PROVE  /\ Slots[i].key = service[i].key /\ Slots[i].state = service[i].state
         /\ Slots[i].alive = service[i].alive
         /\ Registered(i) => Slots[i].users = service[i].leases
         /\ ~Registered(i) => Slots[i].users = {}
BY DEF Slots, Users

LEMMA SlotsKept ==
  ASSUME \A i \in Service :
           /\ service'[i].key = service[i].key /\ service'[i].state = service[i].state
           /\ service'[i].leases = service[i].leases /\ service'[i].alive = service[i].alive
  PROVE  Slots' = Slots
BY DEF Slots, Users, Registered

LEMMA SlotBecomes ==
  ASSUME NEW i \in Service, OnlyRecord(i), service'[i].key = service[i].key,
         NEW users, users = IF service'[i].state = "registered" THEN service'[i].leases ELSE {},
         NEW state, state = service'[i].state, NEW alive, alive = service'[i].alive
  PROVE  Pool!Becomes(i, state, users, alive)
<1>1. \A j \in Service : j # i => Slots[j] = Slots'[j]
  BY DEF OnlyRecord, Slots, Users, Registered
<1>2. Slots'[i] = [key |-> Slots[i].key, state |-> state, users |-> users, alive |-> alive]
  BY DEF Slots, Users, Registered
<1>3. Slots = [j \in Service |-> Slots[j]] /\ Slots' = [j \in Service |-> Slots'[j]]
  BY DEF Slots
<1>4. Slots' = [Slots EXCEPT ![i] = Slots'[i]]
  BY <1>1, <1>3
<1> QED
  BY <1>2, <1>4 DEF Pool!Becomes

LEMMA StageIs ==
  ASSUME NEW r \in Run
  PROVE  /\ Stages[r] = Stage(r) /\ Failures[r] = call[r].failed
         /\ Acquires(r) => Stage(r) = "acquiring"
         /\ At(r, "using") => Stage(r) = "using"
         /\ At(r, "done") => Stage(r) = "done"
         /\ call[r].pc \in {"release", "releasing", "stopping"} => Stage(r) = "releasing"
BY DEF Stages, Failures, Stage, Acquires, At

LEMMA StagesKept ==
  ASSUME NEW r \in Run, OnlyCall(r), Stage(r)' = Stage(r), call'[r].failed = call[r].failed
  PROVE  UNCHANGED <<Stages, Failures>>
<1>1. \A q \in Run : Stages[q] = Stages'[q] /\ Failures[q] = Failures'[q]
  BY DEF OnlyCall, Stages, Failures, Stage
<1> QED
  BY <1>1 DEF Stages, Failures

LEMMA StageBecomes ==
  ASSUME NEW r \in Run, OnlyCall(r), NEW stage, Stage(r)' = stage
  PROVE  /\ Stages' = [Stages EXCEPT ![r] = stage]
         /\ call'[r].failed = call[r].failed => Failures' = Failures
         /\ call'[r].failed => Failures' = [Failures EXCEPT ![r] = TRUE]
<1>1. /\ \A q \in Run : q # r => Stages[q] = Stages'[q] /\ Failures[q] = Failures'[q]
      /\ Stages'[r] = stage /\ Failures'[r] = call'[r].failed /\ Failures[r] = call[r].failed
  BY DEF OnlyCall, Stages, Failures, Stage
<1>2. Stages' = [Stages EXCEPT ![r] = stage]
  BY <1>1 DEF Stages
<1>3. call'[r].failed = call[r].failed => Failures' = Failures
  BY <1>1 DEF Failures
<1>4. ASSUME call'[r].failed PROVE Failures' = [Failures EXCEPT ![r] = TRUE]
  BY <1>1, <1>4 DEF Failures
<1> QED
  BY <1>2, <1>3, <1>4

LEMMA HeadIsAsked ==
  ASSUME TypeInv, GrantInv, NEW r \in Run, Acquires(r), call[r].todo # <<>>
  PROVE  Pool!Asks(r, Head(call[r].todo))
<1>1. PICK todo, held, wants :
        todo = call[r].todo /\ held = call[r].held /\ wants = Wants[r]
  OBVIOUS
<1>2. todo \in Seq(Key \union {NoKey}) /\ todo # <<>> /\ held \in Seq(Service)
  BY <1>1 DEF TypeInv, TypeOK, Call
<1>3. Len(todo) \in Nat \ {0} /\ Len(held) \in Nat /\ Head(todo) = todo[1]
  BY <1>2
<1>4. Len(held) + Len(todo) = Len(wants) /\ \A n \in 1..Len(todo) : todo[n] = wants[Len(held) + n]
  BY <1>1 DEF GrantInv, Granted
<1>5. Len(held) + 1 \in 1..Len(wants) /\ wants[Len(held) + 1] = Head(todo)
  BY <1>3, <1>4
<1> QED
  BY <1>1, <1>5 DEF Pool!Asks

(* The steps of a run.                                                       *)

LEMMA ReuseMeets ==
  ASSUME TypeInv, IndexInv, GrantInv, NEW r \in Run, Reuse(r)
  PROVE  Pool!Next
<1>1. PICK i \in Service :
        /\ Registered(i) /\ At(r, "ensure") /\ OnlyRecord(i)
        /\ service'[i].state = "registered" /\ service'[i].key = service[i].key
        /\ service'[i].leases = service[i].leases \union {r}
        /\ service'[i].alive = service[i].alive /\ call[r].todo # <<>>
        /\ Head(call[r].todo) \in Key /\ byKey[Head(call[r].todo)] = i
        /\ MovesTo(r, "persist", i)
  BY ReuseDoes
<1>2. Slots[i].key = Head(call[r].todo) /\ Slots[i].key # NoKey
  BY <1>1, SlotIs DEF IndexInv, KeyLeadsToService, Service
<1>3. Pool!Asks(r, Slots[i].key)
  BY <1>1, <1>2, HeadIsAsked DEF At, Acquires
<1>4. Pool!Becomes(i, "registered", Slots[i].users \union {r}, Slots[i].alive)
  BY <1>1, SlotIs, SlotBecomes
<1>5. Stages[r] = "acquiring" /\ UNCHANGED <<Stages, Failures>>
  BY <1>1, StageIs, StagesKept DEF MovesTo, Stage, At
<1>6. Pool!Join(i, r)
  BY <1>1, <1>2, <1>3, <1>4, <1>5, SlotIs DEF Pool!Join, Registered
<1> QED
  BY <1>6, RunMeets

LEMMA StartMeets ==
  ASSUME TypeInv, GrantInv, NEW r \in Run, Start(r)
  PROVE  Pool!Next
<1>1. PICK i \in Service :
        /\ service[i].state = "absent" /\ At(r, "ensure") /\ OnlyRecord(i)
        /\ service'[i].state = "starting" /\ service'[i].alive
        /\ call[r].todo # <<>> /\ service'[i].key = Head(call[r].todo)
        /\ MovesTo(r, "ready", i)
  BY StartDoes
<1>2. PICK n \in 1..Len(Wants[r]) : Wants[r][n] = Head(call[r].todo)
  BY <1>1, HeadIsAsked DEF Pool!Asks, At, Acquires
<1>3. \A j \in Service : j # i => Slots[j] = Slots'[j]
  BY <1>1 DEF OnlyRecord, Slots, Users, Registered
<1>4. Slots'[i] = [key |-> Wants[r][n], state |-> "starting", users |-> {}, alive |-> TRUE]
  <2>1. service'[i].alive = TRUE
    <3>1. service'[i].alive \in BOOLEAN
      BY <1>1 DEF Start, TypeInv, TypeOK, Record
    <3> QED
      BY <1>1, <3>1
  <2> QED
    BY <1>1, <1>2, <2>1 DEF Slots, Users, Registered
<1>5. Slots = [j \in Service |-> Slots[j]] /\ Slots' = [j \in Service |-> Slots'[j]]
  BY DEF Slots
<1>6. Slots' = [Slots EXCEPT ![i] = Slots'[i]]
  BY <1>3, <1>5
<1>7. Stages[r] = "acquiring" /\ UNCHANGED <<Stages, Failures>>
  BY <1>1, StageIs, StagesKept DEF MovesTo, Stage, At
<1>8. Pool!Launch(i, r)
  BY <1>1, <1>4, <1>6, <1>7, SlotIs DEF Pool!Launch
<1> QED
  BY <1>8, RunMeets

LEMMA ReadyMeets ==
  ASSUME TypeInv, IndexInv, GrantInv, NEW r \in Run, Ready(r)
  PROVE  Pool!Next
<1>1. PICK i : i = call[r].current
  OBVIOUS
<1>2. /\ At(r, "ready") /\ i \in Service /\ OnlyRecord(i)
      /\ service'[i].state = "registered" /\ service'[i].key = service[i].key
      /\ service'[i].leases = {r} /\ service'[i].alive = service[i].alive
      /\ Moves(r, "persist")
  BY <1>1, ReadyDoes
<1>3. service[i].state = "starting"
  BY <1>1, <1>2 DEF IndexInv, StartsItsOwn
<1>4. Pool!Asks(r, Slots[i].key)
  <2>1. Slots[i].key = Head(call[r].todo) /\ call[r].todo # <<>>
    BY <1>1, <1>2, SlotIs DEF GrantInv, Granted, At, Acquires, TypeInv, CallsFit, Fits
  <2> QED
    BY <1>2, <2>1, HeadIsAsked DEF At, Acquires
<1>5. Pool!Becomes(i, "registered", {r}, Slots[i].alive)
  BY <1>2, SlotIs, SlotBecomes
<1>6. Stages[r] = "acquiring" /\ UNCHANGED <<Stages, Failures>>
  BY <1>2, StageIs, StagesKept DEF Moves, Stage, At
<1>7. Pool!Admit(i, r)
  BY <1>2, <1>3, <1>4, <1>5, <1>6, SlotIs DEF Pool!Admit
<1> QED
  BY <1>2, <1>7, RunMeets

LEMMA NotReadyMeets ==
  ASSUME TypeInv, IndexInv, NEW r \in Run, NotReady(r)
  PROVE  Pool!Next
<1>1. PICK i : i = call[r].current
  OBVIOUS
<1>2. /\ At(r, "ready") /\ i \in Service
      /\ Drops(i) /\ service'[i].alive = service[i].alive /\ Moves(r, "release")
  BY <1>1, NotReadyDoes
<1>3. service[i].state = "starting"
  BY <1>1, <1>2 DEF IndexInv, StartsItsOwn
<1>4. Pool!Becomes(i, "gone", {}, Slots[i].alive)
  BY <1>2, SlotIs, SlotBecomes DEF Drops
<1>5. Stages[r] = "acquiring"
  BY <1>2, StageIs DEF At, Acquires
<1>6. Stages' = [Stages EXCEPT ![r] = "releasing"] /\ Failures' = Failures
  <2>1. Stage(r)' = "releasing" /\ OnlyCall(r) /\ call'[r].failed = call[r].failed
    BY <1>2 DEF Moves, Stage
  <2> QED
    BY <2>1, StageBecomes
<1>7. Pool!Abandon(r)
  BY <1>2, <1>3, <1>4, <1>5, <1>6, SlotIs DEF Pool!Abandon
<1> QED
  BY <1>7, RunMeets

(* A run that has worked off its list has a service for every key it wants.  *)
LEMMA AllServed ==
  ASSUME TypeInv, GrantInv, NEW r \in Run, Acquires(r), call[r].todo = <<>>
  PROVE  \A n \in 1..Len(Wants[r]) : Pool!Served(r, Wants[r][n])
<1>1. Len(call[r].held) \in Nat /\ \A n \in 1..Len(call[r].held) : call[r].held[n] \in Service
  <2>1. call[r].held \in Seq(Service)
    BY DEF TypeInv, TypeOK, Call
  <2> QED
    BY <2>1
<1>2. Len(call[r].held) + 0 = Len(Wants[r])
      /\ \A n \in 1..Len(call[r].held) : Got(r, call[r].held[n], Wants[r][n])
  BY DEF GrantInv, Granted
<1>3. ASSUME NEW i \in Service, NEW k, Got(r, i, k) PROVE Pool!Served(r, k)
  BY <1>3, SlotIs DEF Got, Pool!Served, Registered
<1> QED
  BY <1>1, <1>2, <1>3

LEMMA UseMeets ==
  ASSUME TypeInv, GrantInv, NEW r \in Run, Use(r)
  PROVE  Pool!Next
<1>1. At(r, "ensure") /\ call[r].todo = <<>> /\ service' = service /\ Moves(r, "using")
  BY GotoMoves DEF Use
<1>2. Slots' = Slots
  BY <1>1, SlotsKept
<1>3. Stages[r] = "acquiring" /\ \A n \in 1..Len(Wants[r]) : Pool!Served(r, Wants[r][n])
  BY <1>1, StageIs, AllServed DEF At, Acquires
<1>4. Stages' = [Stages EXCEPT ![r] = "using"] /\ Failures' = Failures
  <2>1. Stage(r)' = "using" /\ OnlyCall(r) /\ call'[r].failed = call[r].failed
    BY <1>1 DEF Moves, Stage
  <2> QED
    BY <2>1, StageBecomes
<1>5. Pool!Begin(r)
  BY <1>2, <1>3, <1>4 DEF Pool!Begin
<1> QED
  BY <1>5, RunMeets

LEMMA ReturnMeets ==
  ASSUME TypeInv, NEW r \in Run, AdapterReturns(r)
  PROVE  Pool!Next
<1>1. At(r, "using") /\ service' = service /\ Moves(r, "release")
  BY GotoMoves DEF AdapterReturns
<1>2. Slots' = Slots /\ Stages[r] = "using"
  BY <1>1, SlotsKept, StageIs
<1>3. Stages' = [Stages EXCEPT ![r] = "releasing"] /\ Failures' = Failures
  <2>1. Stage(r)' = "releasing" /\ OnlyCall(r) /\ call'[r].failed = call[r].failed
    BY <1>1 DEF Moves, Stage
  <2> QED
    BY <2>1, StageBecomes
<1>4. Pool!End(r)
  BY <1>2, <1>3 DEF Pool!End
<1> QED
  BY <1>4, RunMeets

LEMMA GiveUpMeets ==
  ASSUME TypeInv, NEW r \in Run, GiveUp(r)
  PROVE  Pool!Next \/ UNCHANGED Pool!vars
<1>1. PICK i : i = Head(call[r].held)
  OBVIOUS
<1>2. /\ At(r, "release") /\ i \in Service
      /\ \/ /\ Registered(i) /\ OnlyRecord(i)
            /\ service'[i].state = "registered" /\ service'[i].key = service[i].key
            /\ service'[i].leases = service[i].leases \ {r}
            /\ service'[i].alive = service[i].alive /\ MovesTo(r, "releasing", i)
         \/ Passes(r) /\ service' = service
  BY <1>1, GiveUpDoes
<1>3. Stages[r] = "releasing" /\ UNCHANGED <<Stages, Failures>>
  <2>1. /\ OnlyCall(r) /\ call'[r].failed = call[r].failed
        /\ call'[r].pc \in {"release", "releasing"}
    BY <1>2 DEF MovesTo, Passes
  <2>2. Stage(r)' = "releasing"
    BY <2>1 DEF Stage
  <2> QED
    BY <1>2, <2>1, <2>2, StageIs, StagesKept DEF At
<1>4. CASE Passes(r) /\ service' = service
  BY <1>3, <1>4, SlotsKept DEF Pool!vars
<1>5. CASE ~(Passes(r) /\ service' = service)
  <2>1. Pool!Becomes(i, "registered", Slots[i].users \ {r}, Slots[i].alive)
    BY <1>2, <1>5, SlotIs, SlotBecomes
  <2>2. Pool!Leave(i, r)
    BY <1>2, <1>3, <1>5, <2>1, SlotIs DEF Pool!Leave, Registered
  <2> QED
    BY <1>2, <2>2, RunMeets
<1> QED
  BY <1>4, <1>5

(* A service is dropped, and nobody had leased it.                           *)
LEMMA StopMeets ==
  ASSUME NEW i \in Service, Registered(i), service[i].leases = {}, Stops(i),
         UNCHANGED <<Stages, Failures>>
  PROVE  Pool!Next
<1>1. Pool!Becomes(i, "gone", {}, Slots[i].alive)
  BY SlotIs, SlotBecomes DEF Stops, Drops
<1>2. Pool!Stop(i)
  BY <1>1, SlotIs DEF Pool!Stop, Registered
<1> QED
  BY <1>2, CallbackMeets

LEMMA RetireMeets ==
  ASSUME TypeInv, NEW r \in Run, Retire(r)
  PROVE  Pool!Next \/ UNCHANGED Pool!vars
<1>1. PICK i : i = call[r].current
  OBVIOUS
<1>2. /\ At(r, "releasing") /\ i \in Service
      /\ \/ Registered(i) /\ service[i].leases = {} /\ Stops(i) /\ Moves(r, "stopping")
         \/ /\ OnlyRecord(i) /\ service'[i].state = service[i].state
            /\ service'[i].key = service[i].key
            /\ service'[i].leases = service[i].leases
            /\ service'[i].alive = service[i].alive /\ Passes(r)
  BY <1>1, RetireDoes
<1>3. UNCHANGED <<Stages, Failures>>
  <2>1. /\ OnlyCall(r) /\ call'[r].failed = call[r].failed
        /\ call'[r].pc \in {"release", "stopping"} /\ call[r].pc = "releasing"
    BY <1>2 DEF Moves, Passes, At
  <2>2. Stage(r)' = Stage(r)
    BY <2>1 DEF Stage
  <2> QED
    BY <2>1, <2>2, StagesKept
<1>4. CASE Registered(i) /\ service[i].leases = {} /\ Stops(i)
  BY <1>2, <1>3, <1>4, StopMeets
<1>5. CASE ~(Registered(i) /\ service[i].leases = {} /\ Stops(i))
  <2>1. Slots' = Slots
    BY <1>2, <1>5, SlotsKept DEF OnlyRecord
  <2> QED
    BY <1>3, <2>1 DEF Pool!vars
<1> QED
  BY <1>4, <1>5

(* A run is done when it has no more leases: those it had were all on its    *)
(* list.                                                                     *)
LEMMA DoneMeets ==
  ASSUME TypeInv, LeaseInv, NEW r \in Run, Done(r)
  PROVE  Pool!Next
<1>1. At(r, "release") /\ call[r].held = <<>> /\ service' = service /\ Moves(r, "done")
  BY GotoMoves DEF Done
<1>2. Slots' = Slots /\ Stages[r] = "releasing"
  BY <1>1, SlotsKept, StageIs DEF At
<1>3. Stages' = [Stages EXCEPT ![r] = "done"] /\ Failures' = Failures
  <2>1. Stage(r)' = "done" /\ OnlyCall(r) /\ call'[r].failed = call[r].failed
    BY <1>1 DEF Moves, Stage
  <2> QED
    BY <2>1, StageBecomes
<1>4. Failures[r] \/ \A i \in Service : r \notin Slots[i].users
  <2>1. ASSUME NEW i \in Service, r \in Slots[i].users PROVE call[r].failed
    <3>1. Registered(i) /\ r \in service[i].leases
      BY <2>1, SlotIs
    <3>2. \/ \E n \in 1..Len(call[r].held) : call[r].held[n] = i
          \/ At(r, "persist")
          \/ call[r].failed
      BY <3>1 DEF LeaseInv, LeaseIsGivenUp
    <3> QED
      BY <1>1, <3>2 DEF At
  <2> QED
    BY <2>1, StageIs
<1>5. Pool!Finish(r)
  BY <1>2, <1>3, <1>4 DEF Pool!Finish
<1> QED
  BY <1>5, RunMeets

LEMMA FailureMeets ==
  ASSUME TypeInv, NEW r \in Run, StatementFails(r)
  PROVE  Pool!Next
<1>1. /\ service' = service /\ OnlyCall(r) /\ call'[r].failed = TRUE
      /\ call[r].pc \in {"persist", "releasing", "stopping"}
      /\ call'[r].pc = IF call[r].pc = "persist" THEN "release" ELSE "done"
  BY DEF StatementFails, OnlyCall, TypeInv, TypeOK, Call
<1>2. Slots' = Slots
  BY <1>1, SlotsKept
<1>3. CASE At(r, "persist")
  <2>1. Stage(r)' = "releasing" /\ Stages[r] = "acquiring"
    BY <1>1, <1>3, StageIs DEF Stage, At, Acquires
  <2>2. Stages' = [Stages EXCEPT ![r] = "releasing"] /\ Failures' = [Failures EXCEPT ![r] = TRUE]
    BY <1>1, <2>1, StageBecomes
  <2>3. Pool!Abandon(r)
    BY <1>2, <2>1, <2>2 DEF Pool!Abandon
  <2> QED
    BY <2>3, RunMeets
<1>4. CASE ~At(r, "persist")
  <2>1. Stage(r)' = "done" /\ Stages[r] = "releasing"
    BY <1>1, <1>4, StageIs DEF Stage, At
  <2>2. Stages' = [Stages EXCEPT ![r] = "done"] /\ Failures' = [Failures EXCEPT ![r] = TRUE]
    BY <1>1, <2>1, StageBecomes
  <2>3. Pool!Finish(r)
    BY <1>2, <2>1, <2>2 DEF Pool!Finish
  <2> QED
    BY <2>3, RunMeets
<1> QED
  BY <1>3, <1>4

(* An acquisition is noted, or the stop of a service is recorded: nothing    *)
(* the pool knows of.                                                        *)
LEMMA NoteMeets ==
  ASSUME TypeInv, NEW r \in Run, Acquired(r) \/ Retired(r)
  PROVE  UNCHANGED Pool!vars
<1>1. /\ service' = service /\ OnlyCall(r) /\ call'[r].failed = call[r].failed
      /\ \/ call[r].pc = "persist" /\ call'[r].pc = "ensure"
         \/ call[r].pc = "stopping" /\ call'[r].pc = "release"
  BY DEF Acquired, Retired, At, OnlyCall, TypeInv, TypeOK, Call
<1>2. Stage(r)' = Stage(r)
  BY <1>1 DEF Stage
<1> QED
  BY <1>1, <1>2, SlotsKept, StagesKept DEF Pool!vars

LEMMA NothingMoves ==
  ASSUME call' = call
  PROVE  UNCHANGED <<Stages, Failures>>
BY DEF Stages, Failures, Stage

LEMMA IdleMeets ==
  ASSUME TypeInv, IndexInv, NEW i \in Service, IdleTimeout(i)
  PROVE  Pool!Next
<1>1. Registered(i) /\ service[i].leases = {} /\ Stops(i) /\ call' = call
  BY StopStops DEF IdleTimeout, IndexInv, TimerIdles
<1> QED
  BY <1>1, StopMeets, NothingMoves

LEMMA ExitMeets ==
  ASSUME TypeInv, NEW i \in Service, ChildExits(i)
  PROVE  Pool!Next
<1>1. /\ call' = call /\ service[i].alive /\ ~service'[i].alive
      /\ OnlyRecord(i) /\ service'[i].key = service[i].key
      /\ \/ /\ Registered(i) /\ service'[i].state = "gone"
         \/ /\ ~Registered(i) /\ service'[i].state = service[i].state
  BY ChildExitsDoes DEF Drops
<1>2. service'[i].alive = FALSE
  <2>1. service'[i].alive \in BOOLEAN
    BY <1>1 DEF ChildExits, TypeInv, TypeOK, Record, Gone
  <2> QED
    BY <1>1, <2>1
<1>3. Slots[i].alive /\ UNCHANGED <<Stages, Failures>>
  BY <1>1, SlotIs, NothingMoves
<1>4. CASE Registered(i)
  <2>1. Pool!Becomes(i, "gone", {}, FALSE)
    BY <1>1, <1>2, <1>4, SlotBecomes
  <2> QED
    BY <1>3, <1>4, <2>1, SlotIs, CallbackMeets DEF Pool!Exit, Registered
<1>5. CASE ~Registered(i)
  <2>1. Pool!Becomes(i, Slots[i].state, Slots[i].users, FALSE)
    BY <1>1, <1>2, <1>5, SlotIs, SlotBecomes DEF Registered
  <2> QED
    BY <1>3, <1>5, <2>1, SlotIs, CallbackMeets DEF Pool!Exit, Registered
<1> QED
  BY <1>4, <1>5

(* Workspace services are a pool: a run's adapter starts only when the run   *)
(* has a service for each key it asks for, whatever other runs, timers and   *)
(* exits did while it awaited them; what is leased is stopped by nobody; and *)
(* a run ends without leases unless a statement of its own has failed.       *)
THEOREM ServicesAreAPool == Spec => ImplementsPool
<1>1. Init => Pool!Init
  BY DEF Init, Pool!Init, Slots, Users, Registered, Stages, Stage, Failures
<1>2. TypeInv /\ IndexInv /\ LeaseInv /\ GrantInv /\ [Next]_vars => [Pool!Next]_(Pool!vars)
  <2> SUFFICES ASSUME TypeInv, IndexInv, LeaseInv, GrantInv, [Next]_vars
               PROVE  Pool!Next \/ UNCHANGED Pool!vars
    OBVIOUS
  <2>1. CASE UNCHANGED vars
    BY <2>1, SlotsKept, NothingMoves DEF vars, Pool!vars
  <2>2. ASSUME NEW r \in Run, Step(r) PROVE Pool!Next \/ UNCHANGED Pool!vars
    BY <2>2, ReuseMeets, StartMeets, ReadyMeets, NotReadyMeets, UseMeets, ReturnMeets,
       GiveUpMeets, RetireMeets, DoneMeets, FailureMeets, NoteMeets DEF Step
  <2>3. ASSUME NEW i \in Service, IdleTimeout(i) \/ ChildExits(i) PROVE Pool!Next
    BY <2>3, IdleMeets, ExitMeets
  <2> QED
    BY <2>1, <2>2, <2>3 DEF Next
<1> QED
  BY <1>1, <1>2, TypesHold, IndexHolds, LeasesHold, GrantsHold, PTL
  DEF Spec, ImplementsPool, Pool!Spec
=============================================================================
