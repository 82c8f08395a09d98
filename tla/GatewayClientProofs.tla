------------------------ MODULE GatewayClientProofs ------------------------
(* Theorems about GatewayClient, for any clients, sockets, requests and       *)
(* number of attempts.                                                        *)
EXTENDS GatewayClient, FiniteSetTheorems, TLAPS

USE NoneAssumption, AttemptsAssumption

ClientState == [ws : Socket \union {None}, status : Status, shut : BOOLEAN,
                attempt : 0..MaxAttempts, timers : Nat]
SocketState == [of : Client \union {None},
                state : {"connecting", "open", "closing", "gone"}, heard : BOOLEAN,
                step : {"silent", "asked", "greeted", "refused"}, sent : SUBSET Request]
RequestState == [of : Client \union {None}, state : {"none", "pending", "settled"},
                 handler : BOOLEAN]

(* The client will hear the close of this socket.                             *)
Heard(k) == socket[k].state # "gone" /\ socket[k].heard

(* A client whose effect has been cleaned up has nothing left.                *)
OthersRest ==
  \A c \in Client : c # mounted =>
    client[c].ws = None /\ client[c].timers = 0 /\ client[c].status = "disconnected"

(* A live socket is heard, and the only heard socket is the one that the      *)
(* mounted client remembers; while there is one, no timer runs.               *)
HeardIsMine ==
  \A k \in Socket :
    /\ socket[k].state \in {"connecting", "open"} => socket[k].heard
    /\ Heard(k) => /\ mounted # None /\ socket[k].of = mounted
                   /\ client[mounted].ws = k /\ client[mounted].timers = 0

OneTimer ==
  \A c \in Client : client[c].timers > 0 => client[c].timers = 1 /\ ~client[c].shut

(* After a shutdown the client stays disconnected, whatever its socket does.  *)
ShutStaysDown ==
  \A c \in Client : client[c].shut =>
    /\ client[c].status = "disconnected"
    /\ LET k == client[c].ws IN
       k # None => socket[k].state = "gone" \/ socket[k].step = "greeted"

(* A request is on one socket and waits for its answer there.                 *)
SentOnce ==
  \A k \in Socket : \A r \in socket[k].sent :
    /\ request[r].handler /\ request[r].state # "none"
    /\ \A j \in Socket : r \in socket[j].sent => j = k

PendingIsSent ==
  \A r \in Request : request[r].state = "pending" =>
    /\ mounted # None /\ request[r].of = mounted
    /\ LET k == client[mounted].ws IN k # None /\ Heard(k) /\ r \in socket[k].sent

IInv == /\ TypeOK /\ OthersRest /\ HeardIsMine /\ OneTimer /\ ShutStaysDown
        /\ SentOnce /\ PendingIsSent /\ LineIsKept /\ StatusIsTrue

-----------------------------------------------------------------------------
LEMMA InitIInv == Init => IInv
BY DEF Init, IInv, TypeOK, NewClient, GoneSocket, Status, OthersRest, HeardIsMine, Heard,
       OneTimer, ShutStaysDown, SentOnce, PendingIsSent, LineIsKept, StatusIsTrue

(* What the operators that give a client or a socket its new state do.        *)
LEMMA BecomeDoes ==
  ASSUME TypeOK, NEW c \in Client, NEW x \in ClientState, Become(c, x)
  PROVE  /\ client' \in [Client -> ClientState] /\ client'[c] = x
         /\ \A d \in Client \ {c} : client'[d] = client[d]
         /\ request' \in [Request -> RequestState]
         /\ \A r \in Request :
              /\ request'[r].of = request[r].of /\ request'[r].handler = request[r].handler
              /\ request'[r].state = IF r \in Pending(c) /\ Settles(x.status)
                                     THEN "settled" ELSE request[r].state
<1>1. client' \in [Client -> ClientState] /\ client'[c] = x
      /\ \A d \in Client \ {c} : client'[d] = client[d]
  BY DEF TypeOK, Become, ClientState
<1>2. ASSUME NEW r \in Request
      PROVE  /\ request'[r] \in RequestState
             /\ request'[r].of = request[r].of /\ request'[r].handler = request[r].handler
             /\ request'[r].state = IF r \in Pending(c) /\ Settles(x.status)
                                    THEN "settled" ELSE request[r].state
  <2>1. request[r] \in RequestState
    BY DEF TypeOK, RequestState
  <2>2. request'[r] = IF r \in Pending(c) /\ Settles(x.status)
                      THEN [request[r] EXCEPT !.state = "settled"] ELSE request[r]
    BY DEF Become
  <2> QED
    BY <2>1, <2>2 DEF RequestState
<1>3. DOMAIN request' = Request /\ request' = [r \in Request |-> request'[r]]
  BY DEF Become
<1> QED
  BY <1>1, <1>2, <1>3

LEMMA ScheduledDoes ==
  ASSUME NEW x \in ClientState
  PROVE  LET y == Scheduled(x) IN
         /\ y \in ClientState /\ y.ws = x.ws /\ y.shut = x.shut
         /\ x.shut => y = x
         /\ ~x.shut => \/ y.status = "disconnected" /\ y.timers = x.timers
                          /\ y.attempt = MaxAttempts
                       \/ y.status = "reconnecting" /\ y.timers = x.timers + 1
<1>1. CASE x.shut
  BY <1>1 DEF Scheduled
<1>2. CASE ~x.shut /\ x.attempt >= MaxAttempts
  BY <1>2 DEF Scheduled, ClientState, Status
<1>3. CASE ~x.shut /\ ~(x.attempt >= MaxAttempts)
  <2>1. Scheduled(x) = [x EXCEPT !.status = "reconnecting", !.attempt = x.attempt + 1,
                                 !.timers = x.timers + 1]
    BY <1>3 DEF Scheduled
  <2>2. x.attempt \in Nat /\ x.attempt + 1 \in 0..MaxAttempts /\ x.timers + 1 \in Nat
    BY <1>3 DEF ClientState
  <2>3. Scheduled(x) = [ws |-> x.ws, status |-> "reconnecting", shut |-> x.shut,
                        attempt |-> x.attempt + 1, timers |-> x.timers + 1]
    BY <2>1 DEF ClientState
  <2> QED
    BY <1>3, <2>2, <2>3 DEF ClientState, Status
<1> QED
  BY <1>1, <1>2, <1>3

LEMMA ClearedDoes ==
  ASSUME NEW x \in ClientState, x.timers <= 1
  PROVE  LET y == Cleared(x) IN
         /\ y \in ClientState /\ y.timers = 0 /\ y.ws = x.ws /\ y.status = x.status
         /\ y.shut = x.shut /\ y.attempt = x.attempt
<1>1. Cleared(x) = [ws |-> x.ws, status |-> x.status, shut |-> x.shut,
                    attempt |-> x.attempt, timers |-> 0]
  BY DEF Cleared, ClientState
<1> QED
  BY <1>1 DEF ClientState

(* Dialling gives the client a socket of its own, or a timer, or ends.        *)
LEMMA DialDoes ==
  ASSUME TypeOK, NEW c \in Client, NEW x \in ClientState, x.timers = 0, ~x.shut, Dial(c, x)
  PROVE  /\ client' \in [Client -> ClientState]
         /\ \A d \in Client \ {c} : client'[d] = client[d]
         /\ request' \in [Request -> RequestState]
         /\ \A r \in Request :
              /\ request'[r].of = request[r].of /\ request'[r].handler = request[r].handler
              /\ r \notin Pending(c) => request'[r].state = request[r].state
         /\ socket' \in [Socket -> SocketState]
         /\ ~client'[c].shut
         /\ \/ \E k \in Socket :
                 /\ socket[k].state = "gone" /\ client'[c].ws = k /\ client'[c].timers = 0
                 /\ client'[c].status \in {"connecting", "reconnecting"}
                 /\ socket'[k] = [of |-> c, state |-> "connecting", heard |-> TRUE,
                                  step |-> "silent", sent |-> {}]
                 /\ \A j \in Socket \ {k} : socket'[j] = socket[j]
            \/ /\ socket' = socket /\ client'[c].ws = x.ws
               /\ \/ client'[c].status = "disconnected" /\ client'[c].timers = 0
                     /\ client'[c].attempt = MaxAttempts
                  \/ client'[c].status = "reconnecting" /\ client'[c].timers = 1
<1> DEFINE st == IF x.attempt > 0 THEN "reconnecting" ELSE "connecting"
           y == [x EXCEPT !.status = st]
<1>1. y = [ws |-> x.ws, status |-> st, shut |-> x.shut, attempt |-> x.attempt,
           timers |-> x.timers]
  BY DEF ClientState
<1>2. st \in {"connecting", "reconnecting"}
  OBVIOUS
<1>3. y \in ClientState /\ ~y.shut /\ y.timers = 0 /\ y.ws = x.ws /\ y.status = st
  BY <1>1, <1>2 DEF ClientState, Status
<1>4. \/ \E k \in Socket :
           /\ socket[k].state = "gone"
           /\ socket' = [socket EXCEPT ![k] = [of |-> c, state |-> "connecting",
                                               heard |-> TRUE, step |-> "silent",
                                               sent |-> {}]]
           /\ Become(c, [y EXCEPT !.ws = k])
      \/ UNCHANGED socket /\ Become(c, Scheduled(y))
  BY DEF Dial
<1> HIDE DEF st, y
<1>5. CASE UNCHANGED socket /\ Become(c, Scheduled(y))
  <2>1. Scheduled(y) \in ClientState
    BY <1>3, ScheduledDoes
  <2>2. /\ client' \in [Client -> ClientState] /\ client'[c] = Scheduled(y)
        /\ \A d \in Client \ {c} : client'[d] = client[d]
        /\ request' \in [Request -> RequestState]
        /\ \A r \in Request :
             /\ request'[r].of = request[r].of /\ request'[r].handler = request[r].handler
             /\ r \notin Pending(c) => request'[r].state = request[r].state
    BY <1>5, <2>1, BecomeDoes
  <2>3. socket' \in [Socket -> SocketState]
    BY <1>5 DEF TypeOK, SocketState
  <2> QED
    BY <1>3, <1>5, <2>2, <2>3, ScheduledDoes
<1>6. ASSUME NEW k \in Socket, socket[k].state = "gone",
             socket' = [socket EXCEPT ![k] = [of |-> c, state |-> "connecting",
                                              heard |-> TRUE, step |-> "silent",
                                              sent |-> {}]],
             Become(c, [y EXCEPT !.ws = k])
      PROVE  /\ client' \in [Client -> ClientState]
             /\ \A d \in Client \ {c} : client'[d] = client[d]
             /\ request' \in [Request -> RequestState]
             /\ \A r \in Request :
                  /\ request'[r].of = request[r].of /\ request'[r].handler = request[r].handler
                  /\ r \notin Pending(c) => request'[r].state = request[r].state
             /\ socket' \in [Socket -> SocketState]
             /\ ~client'[c].shut
             /\ client'[c].ws = k /\ client'[c].timers = 0
             /\ client'[c].status \in {"connecting", "reconnecting"}
             /\ socket'[k] = [of |-> c, state |-> "connecting", heard |-> TRUE,
                              step |-> "silent", sent |-> {}]
             /\ \A j \in Socket \ {k} : socket'[j] = socket[j]
  <2> DEFINE z == [y EXCEPT !.ws = k]
  <2>1. z \in ClientState /\ ~z.shut /\ z.ws = k /\ z.timers = 0 /\ z.status = st
    BY <1>3 DEF ClientState
  <2>2. Become(c, z)
    BY <1>6
  <2> HIDE DEF z
  <2>3. /\ client' \in [Client -> ClientState] /\ client'[c] = z
        /\ \A d \in Client \ {c} : client'[d] = client[d]
        /\ request' \in [Request -> RequestState]
        /\ \A r \in Request :
             /\ request'[r].of = request[r].of /\ request'[r].handler = request[r].handler
             /\ r \notin Pending(c) => request'[r].state = request[r].state
    BY <2>1, <2>2, BecomeDoes
  <2>4. [of |-> c, state |-> "connecting", heard |-> TRUE, step |-> "silent", sent |-> {}]
          \in SocketState
    BY DEF SocketState
  <2>5. socket \in [Socket -> SocketState]
    BY DEF TypeOK, SocketState
  <2>6. /\ socket' \in [Socket -> SocketState]
        /\ socket'[k] = [of |-> c, state |-> "connecting", heard |-> TRUE,
                         step |-> "silent", sent |-> {}]
        /\ \A j \in Socket \ {k} : socket'[j] = socket[j]
    BY <1>6, <2>4, <2>5
  <2> QED
    BY <1>2, <2>1, <2>3, <2>6
<1> QED
  BY <1>4, <1>5, <1>6

-----------------------------------------------------------------------------
(* Dialling keeps the invariant where nothing is heard and the client is the  *)
(* mounted one afterwards.                                                    *)
LEMMA DialKeeps ==
  ASSUME IInv, NEW c \in Client, NEW x \in ClientState, x.timers = 0, ~x.shut,
         \A k \in Socket : ~Heard(k), mounted \in {c, None}, mounted' = c,
         born' \subseteq Client, adapter' = adapter, Dial(c, x)
  PROVE  IInv'
<1> USE DEF Heard
<1>1. TypeOK /\ OthersRest /\ HeardIsMine /\ OneTimer /\ ShutStaysDown /\ SentOnce
      /\ PendingIsSent /\ LineIsKept /\ StatusIsTrue
  BY DEF IInv
<1>2. \A r \in Request : request[r].state # "pending"
  <2>1. TypeOK /\ PendingIsSent
    BY <1>1
  <2> QED
    BY <2>1 DEF TypeOK, PendingIsSent
<1>3. \A r \in Request : r \notin Pending(c)
  BY <1>2 DEF Pending
<1>4. /\ client' \in [Client -> ClientState]
      /\ \A d \in Client \ {c} : client'[d] = client[d]
      /\ request' \in [Request -> RequestState]
      /\ socket' \in [Socket -> SocketState]
      /\ ~client'[c].shut
  BY <1>1, DialDoes
<1>5. \A r \in Request : /\ request'[r].of = request[r].of
                         /\ request'[r].handler = request[r].handler
                         /\ request'[r].state = request[r].state
  BY <1>1, <1>3, DialDoes
<1>6. TypeOK'
  BY <1>1, <1>4 DEF TypeOK, ClientState, SocketState, RequestState
<1>7. (PendingIsSent)'
  BY <1>2, <1>5 DEF PendingIsSent
<1>8. ASSUME NEW k \in Socket, socket[k].state = "gone", client'[c].ws = k,
             client'[c].timers = 0,
             client'[c].status \in {"connecting", "reconnecting"},
             socket'[k] = [of |-> c, state |-> "connecting", heard |-> TRUE,
                           step |-> "silent", sent |-> {}],
             \A j \in Socket \ {k} : socket'[j] = socket[j]
      PROVE  IInv'
  <2>1. OthersRest'
    BY <1>1, <1>4 DEF OthersRest
  <2>2. HeardIsMine'
    BY <1>1, <1>4, <1>8 DEF HeardIsMine
  <2>3. OneTimer'
    BY <1>1, <1>4, <1>8 DEF OneTimer
  <2>4. ShutStaysDown'
    <3> SUFFICES ASSUME NEW d \in Client, client'[d].shut
                 PROVE  client'[d].status = "disconnected" /\ client'[d].ws = None
      BY DEF ShutStaysDown
    <3> QED
      BY <1>1, <1>4 DEF OthersRest
  <2>5. SentOnce'
    <3> SUFFICES ASSUME NEW j \in Socket, NEW r \in socket'[j].sent
                 PROVE  /\ request'[r].handler /\ request'[r].state # "none"
                        /\ \A i \in Socket : r \in socket'[i].sent => i = j
      BY DEF SentOnce
    <3>1. socket'[j] = socket[j] /\ j # k
      BY <1>8
    <3>2. r \in Request
      BY <1>4 DEF SocketState
    <3> QED
      BY <1>1, <1>5, <1>8, <3>1, <3>2 DEF SentOnce
  <2>6. LineIsKept'
    BY <1>8 DEF LineIsKept
  <2>7. StatusIsTrue'
    BY <1>1, <1>4, <1>8 DEF StatusIsTrue, OthersRest
  <2> QED
    BY <1>6, <1>7, <2>1, <2>2, <2>3, <2>4, <2>5, <2>6, <2>7 DEF IInv
<1>9. ASSUME socket' = socket,
             \/ client'[c].status = "disconnected" /\ client'[c].timers = 0
                /\ client'[c].attempt = MaxAttempts
             \/ client'[c].status = "reconnecting" /\ client'[c].timers = 1
      PROVE  IInv'
  <2>1. OthersRest'
    BY <1>1, <1>4 DEF OthersRest
  <2>2. HeardIsMine'
    BY <1>1, <1>9 DEF HeardIsMine
  <2>3. OneTimer'
    BY <1>1, <1>4, <1>9 DEF OneTimer
  <2>4. ShutStaysDown'
    <3> SUFFICES ASSUME NEW d \in Client, client'[d].shut
                 PROVE  client'[d].status = "disconnected" /\ client'[d].ws = None
      BY DEF ShutStaysDown
    <3> QED
      BY <1>1, <1>4 DEF OthersRest
  <2>5. SentOnce'
    <3> SUFFICES ASSUME NEW j \in Socket, NEW r \in socket[j].sent
                 PROVE  /\ request'[r].handler /\ request'[r].state # "none"
                        /\ \A i \in Socket : r \in socket[i].sent => i = j
      BY <1>9 DEF SentOnce
    <3>1. r \in Request
      BY <1>4, <1>9 DEF SocketState
    <3> QED
      BY <1>1, <1>5, <3>1 DEF SentOnce
  <2>6. LineIsKept'
    BY <1>9 DEF LineIsKept
  <2>7. StatusIsTrue'
    BY <1>1, <1>4, <1>9 DEF StatusIsTrue, OthersRest
  <2> QED
    BY <1>6, <1>7, <2>1, <2>2, <2>3, <2>4, <2>5, <2>6, <2>7 DEF IInv
<1> QED
  BY <1>1, <1>8, <1>9, DialDoes

LEMMA MountKeeps ==
  ASSUME IInv, NEW c \in Client, Mount(c)
  PROVE  IInv'
<1>1. NewClient \in ClientState /\ NewClient.timers = 0 /\ ~NewClient.shut
  BY DEF NewClient, ClientState, Status
<1>2. \A k \in Socket : ~Heard(k)
  BY DEF IInv, HeardIsMine, Mount
<1>3. born' \subseteq Client
  BY DEF IInv, TypeOK, Mount
<1> QED
  BY <1>1, <1>2, <1>3, DialKeeps DEF Mount

LEMMA TimerKeeps ==
  ASSUME IInv, NEW c \in Client, TimerFires(c)
  PROVE  IInv'
<1>1. client[c] \in ClientState /\ client[c].timers > 0
  BY DEF IInv, TypeOK, ClientState, TimerFires
<1>2. c = mounted /\ client[c].timers = 1 /\ ~client[c].shut
  BY <1>1 DEF IInv, OthersRest, OneTimer
<1>3. \A k \in Socket : ~Heard(k)
  BY <1>2 DEF IInv, HeardIsMine
<1> DEFINE x == [client[c] EXCEPT !.timers = @ - 1]
<1>4. x \in ClientState /\ x.timers = 0 /\ ~x.shut
  BY <1>1, <1>2 DEF ClientState
<1>5. Dial(c, x) /\ mounted' = c /\ adapter' = adapter /\ born' \subseteq Client
  BY <1>2 DEF TimerFires, IInv, TypeOK
<1> HIDE DEF x
<1> QED
  BY <1>2, <1>3, <1>4, <1>5, DialKeeps

(* The clean-up of the effect: nothing is heard any more.                     *)
LEMMA UnmountDoes ==
  ASSUME IInv, NEW c \in Client, Unmount(c)
  PROVE  /\ client' \in [Client -> ClientState]
         /\ client'[c].ws = None /\ client'[c].timers = 0
         /\ client'[c].status = "disconnected"
         /\ \A d \in Client \ {c} : client'[d] = client[d]
         /\ request' \in [Request -> RequestState]
         /\ \A r \in Request :
              /\ request'[r].of = request[r].of /\ request'[r].handler = request[r].handler
              /\ request'[r].state = IF r \in Pending(c) THEN "settled" ELSE request[r].state
         /\ socket' \in [Socket -> SocketState]
         /\ \A j \in Socket :
              /\ socket'[j].of = socket[j].of /\ socket'[j].sent = socket[j].sent
              /\ j # client[c].ws => socket'[j] = socket[j]
              /\ j = client[c].ws => /\ ~socket'[j].heard
                                     /\ socket'[j].state \in {"gone", "closing"}
<1>1. TypeOK /\ OneTimer /\ client[c] \in ClientState /\ client[c].timers <= 1
  BY DEF IInv, TypeOK, ClientState, OneTimer
<1> DEFINE y == Cleared(client[c])
           x == [y EXCEPT !.shut = TRUE, !.ws = None, !.status = "disconnected"]
<1>2. y \in ClientState /\ y.timers = 0
  BY <1>1, ClearedDoes
<1> HIDE DEF y
<1>3. x \in ClientState /\ x.ws = None /\ x.timers = 0 /\ x.status = "disconnected"
  BY <1>2 DEF ClientState, Status
<1>4. Become(c, x)
  BY DEF Unmount, y
<1> HIDE DEF x
<1>5. /\ client' \in [Client -> ClientState] /\ client'[c] = x
      /\ \A d \in Client \ {c} : client'[d] = client[d]
      /\ request' \in [Request -> RequestState]
      /\ \A r \in Request :
           /\ request'[r].of = request[r].of /\ request'[r].handler = request[r].handler
           /\ request'[r].state = IF r \in Pending(c) THEN "settled" ELSE request[r].state
  BY <1>1, <1>3, <1>4, BecomeDoes DEF Settles
<1> DEFINE Left(j) == IF j # client[c].ws THEN socket[j]
                      ELSE [socket[j] EXCEPT !.heard = FALSE,
                                             !.state = IF @ = "gone" THEN @ ELSE "closing"]
<1>6. socket' = [j \in Socket |-> Left(j)]
  BY DEF Unmount
<1>7. ASSUME NEW j \in Socket
      PROVE  /\ Left(j) \in SocketState
             /\ Left(j).of = socket[j].of /\ Left(j).sent = socket[j].sent
             /\ j # client[c].ws => Left(j) = socket[j]
             /\ j = client[c].ws => /\ ~Left(j).heard
                                    /\ Left(j).state \in {"gone", "closing"}
  <2>1. socket[j] \in SocketState
    BY <1>1 DEF TypeOK, SocketState
  <2>2. CASE socket[j].state = "gone"
    BY <2>1, <2>2 DEF SocketState
  <2>3. CASE socket[j].state # "gone"
    BY <2>1, <2>3 DEF SocketState
  <2> QED
    BY <2>2, <2>3
<1> HIDE DEF Left
<1> QED
  BY <1>3, <1>5, <1>6, <1>7

LEMMA UnmountKeeps ==
  ASSUME IInv, NEW c \in Client, Unmount(c)
  PROVE  IInv'
<1> USE DEF Heard
<1>1. TypeOK /\ OthersRest /\ HeardIsMine /\ OneTimer /\ SentOnce /\ PendingIsSent
  BY DEF IInv
<1>2. /\ client' \in [Client -> ClientState]
      /\ client'[c].ws = None /\ client'[c].timers = 0
      /\ client'[c].status = "disconnected"
      /\ \A d \in Client \ {c} : client'[d] = client[d]
      /\ request' \in [Request -> RequestState] /\ socket' \in [Socket -> SocketState]
  BY UnmountDoes
<1>3. \A j \in Socket :
        /\ socket'[j].of = socket[j].of /\ socket'[j].sent = socket[j].sent
        /\ j # client[c].ws => socket'[j] = socket[j]
        /\ j = client[c].ws => /\ ~socket'[j].heard
                               /\ socket'[j].state \in {"gone", "closing"}
  BY UnmountDoes
<1>4. \A r \in Request :
        /\ request'[r].of = request[r].of /\ request'[r].handler = request[r].handler
        /\ request'[r].state = IF r \in Pending(c) THEN "settled" ELSE request[r].state
  BY UnmountDoes
<1>5. mounted = c /\ mounted' = None /\ UNCHANGED <<born, adapter>>
  BY DEF Unmount
<1>6. TypeOK'
  BY <1>1, <1>2, <1>5 DEF TypeOK, ClientState, SocketState, RequestState
<1>7. OthersRest'
  BY <1>1, <1>2, <1>5 DEF OthersRest
<1>8. HeardIsMine'
  BY <1>1, <1>3, <1>5 DEF HeardIsMine
<1>9. OneTimer' /\ ShutStaysDown' /\ StatusIsTrue' /\ LineIsKept'
  BY <1>5, <1>7 DEF OthersRest, OneTimer, ShutStaysDown, StatusIsTrue, LineIsKept
<1>10. SentOnce'
  <2> SUFFICES ASSUME NEW j \in Socket, NEW r \in socket[j].sent
               PROVE  /\ request'[r].handler /\ request'[r].state # "none"
                      /\ \A i \in Socket : r \in socket[i].sent => i = j
    BY <1>3 DEF SentOnce
  <2>1. r \in Request
    BY <1>1 DEF TypeOK
  <2> QED
    BY <1>1, <1>4, <2>1 DEF SentOnce
<1>11. PendingIsSent'
  <2>1. ASSUME NEW r \in Request PROVE request'[r].state # "pending"
    BY <1>1, <1>4, <1>5 DEF PendingIsSent, Pending
  <2> QED
    BY <2>1 DEF PendingIsSent
<1> QED
  BY <1>6, <1>7, <1>8, <1>9, <1>10, <1>11 DEF IInv

-----------------------------------------------------------------------------
(* A socket that moves on, heard as before.                                   *)
LEMMA SocketMoves ==
  ASSUME IInv, NEW k \in Socket,
         UNCHANGED <<mounted, born, client, request, adapter>>,
         socket' \in [Socket -> SocketState],
         \A j \in Socket \ {k} : socket'[j] = socket[j],
         socket[k].state \in {"connecting", "open"},
         socket'[k].state # "gone",
         socket'[k].of = socket[k].of, socket'[k].heard = socket[k].heard,
         socket'[k].sent = socket[k].sent,
         socket'[k].step = socket[k].step \/ socket[k].step = "silent"
  PROVE  IInv'
<1> USE DEF Heard
<1>1. TypeOK /\ OthersRest /\ HeardIsMine /\ OneTimer /\ ShutStaysDown /\ SentOnce
      /\ PendingIsSent /\ LineIsKept /\ StatusIsTrue
  BY DEF IInv
<1>2. TypeOK' /\ OthersRest' /\ OneTimer'
  BY <1>1 DEF TypeOK, OthersRest, OneTimer, SocketState
<1>3. HeardIsMine'
  BY <1>1 DEF HeardIsMine
<1>4. ShutStaysDown'
  BY <1>1 DEF ShutStaysDown, TypeOK
<1>5. SentOnce'
  <2>1. \A j \in Socket : socket'[j].sent = socket[j].sent
    OBVIOUS
  <2> QED
    BY <1>1, <2>1 DEF SentOnce
<1>6. PendingIsSent'
  BY <1>1 DEF PendingIsSent, TypeOK
<1>7. LineIsKept'
  BY <1>1 DEF LineIsKept, TypeOK
<1>8. StatusIsTrue'
  <2> SUFFICES ASSUME NEW c \in Client, client[c].status \in {"connected", "error"}
               PROVE  LET w == client[c].ws IN
                      /\ w # None /\ socket'[w].state # "gone" /\ socket'[w].heard
                      /\ client[c].status = "connected" => socket'[w].step = "greeted"
                      /\ client[c].status = "error" => socket'[w].step = "refused"
    BY DEF StatusIsTrue
  <2>1. client[c].ws \in Socket
    BY <1>1 DEF StatusIsTrue, TypeOK
  <2> QED
    BY <1>1, <2>1 DEF StatusIsTrue
<1> QED
  BY <1>2, <1>3, <1>4, <1>5, <1>6, <1>7, <1>8 DEF IInv

LEMMA OpensClosingKeep ==
  ASSUME IInv, NEW k \in Socket, Opens(k) \/ Closing(k)
  PROVE  IInv'
<1>1. PICK st \in {"open", "closing"} :
        /\ socket' = [socket EXCEPT ![k].state = st]
        /\ socket[k].state \in {"connecting", "open"}
        /\ UNCHANGED <<mounted, born, client, request, adapter>>
  BY DEF Opens, Closing
<1>2. socket \in [Socket -> SocketState]
  BY DEF IInv, TypeOK, SocketState
<1>3. /\ socket' \in [Socket -> SocketState]
      /\ socket'[k] = [of |-> socket[k].of, state |-> st, heard |-> socket[k].heard,
                       step |-> socket[k].step, sent |-> socket[k].sent]
      /\ \A j \in Socket \ {k} : socket'[j] = socket[j]
  BY <1>1, <1>2 DEF SocketState
<1> QED
  BY <1>1, <1>3, SocketMoves

(* A message comes on the socket that the mounted client remembers.           *)
LEMMA OpenIsMine ==
  ASSUME IInv, NEW k \in Socket, socket[k].state = "open"
  PROVE  /\ mounted \in Client /\ socket[k].of = mounted /\ client[mounted].ws = k
         /\ client[mounted].timers = 0 /\ Heard(k)
BY DEF IInv, TypeOK, HeardIsMine, Heard

LEMMA ChallengeKeeps ==
  ASSUME IInv, NEW k \in Socket, Challenge(k)
  PROVE  IInv'
<1>1. client[socket[k].of].ws = k
  BY OpenIsMine DEF Challenge
<1>2. /\ socket' = [socket EXCEPT ![k].step = "asked"]
      /\ socket[k].state = "open" /\ socket[k].step = "silent"
      /\ UNCHANGED <<mounted, born, client, request, adapter>>
  BY <1>1 DEF Challenge
<1>3. socket \in [Socket -> SocketState]
  BY DEF IInv, TypeOK, SocketState
<1>4. /\ socket' \in [Socket -> SocketState]
      /\ socket'[k] = [of |-> socket[k].of, state |-> "open", heard |-> socket[k].heard,
                       step |-> "asked", sent |-> socket[k].sent]
      /\ \A j \in Socket \ {k} : socket'[j] = socket[j]
  BY <1>2, <1>3 DEF SocketState
<1> QED
  BY <1>2, <1>4, SocketMoves

(* The gateway's verdict on the handshake: the status says which.             *)
LEMMA VerdictKeeps ==
  ASSUME IInv, NEW k \in Socket, socket[k].state = "open", socket[k].step = "asked",
         NEW step \in {"greeted", "refused"}, socket' = [socket EXCEPT ![k].step = step],
         NEW x \in ClientState, Become(mounted, x), x.ws = k, x.timers = 0,
         x.status = IF step = "greeted" THEN "connected" ELSE "error",
         x.shut = client[mounted].shut,
         mounted' = mounted, born' = born, adapter' \in Client \union {None}
  PROVE  IInv'
<1> USE DEF Heard
<1>1. TypeOK /\ OthersRest /\ HeardIsMine /\ OneTimer /\ ShutStaysDown /\ SentOnce
      /\ PendingIsSent /\ LineIsKept /\ StatusIsTrue
  BY DEF IInv
<1>2. /\ mounted \in Client /\ socket[k].of = mounted /\ client[mounted].ws = k
      /\ socket[k].heard
  BY OpenIsMine
<1>3. /\ client' \in [Client -> ClientState] /\ client'[mounted] = x
      /\ \A d \in Client \ {mounted} : client'[d] = client[d]
      /\ request' \in [Request -> RequestState]
  BY <1>1, <1>2, BecomeDoes
<1>4. \A r \in Request :
        /\ request'[r].of = request[r].of /\ request'[r].handler = request[r].handler
        /\ request'[r].state = request[r].state
  BY <1>1, <1>2, BecomeDoes DEF Settles
<1>5. socket \in [Socket -> SocketState]
  BY <1>1 DEF TypeOK, SocketState
<1>6. /\ socket' \in [Socket -> SocketState]
      /\ socket'[k] = [of |-> mounted, state |-> "open", heard |-> TRUE,
                       step |-> step, sent |-> socket[k].sent]
      /\ \A j \in Socket \ {k} : socket'[j] = socket[j]
  BY <1>2, <1>5 DEF SocketState
<1>7. ~x.shut
  BY <1>1, <1>2 DEF ShutStaysDown
<1>8. TypeOK'
  BY <1>1, <1>3, <1>6 DEF TypeOK, ClientState, SocketState, RequestState
<1>9. OthersRest'
  BY <1>1, <1>3 DEF OthersRest
<1>10. HeardIsMine'
  BY <1>1, <1>2, <1>3, <1>6 DEF HeardIsMine
<1>11. OneTimer'
  BY <1>1, <1>3 DEF OneTimer
<1>12. ShutStaysDown'
  <2> SUFFICES ASSUME NEW d \in Client, client'[d].shut
               PROVE  client'[d].status = "disconnected" /\ client'[d].ws = None
    BY DEF ShutStaysDown
  <2> QED
    BY <1>1, <1>3, <1>7 DEF OthersRest
<1>13. SentOnce'
  <2>1. ASSUME NEW j \in Socket PROVE socket'[j].sent = socket[j].sent
    <3>1. CASE j = k
      BY <1>6, <3>1
    <3>2. CASE j # k
      BY <1>6, <3>2
    <3> QED
      BY <3>1, <3>2
  <2> QED
    BY <1>1, <1>4, <2>1 DEF SentOnce, TypeOK
<1>14. PendingIsSent'
  BY <1>1, <1>2, <1>3, <1>4, <1>6 DEF PendingIsSent
<1>15. LineIsKept'
  BY <1>2, <1>3, <1>6 DEF LineIsKept
<1>16. StatusIsTrue'
  BY <1>1, <1>2, <1>3, <1>6 DEF StatusIsTrue, OthersRest
<1> QED
  BY <1>8, <1>9, <1>10, <1>11, <1>12, <1>13, <1>14, <1>15, <1>16 DEF IInv

LEMMA ConnectedDoes ==
  ASSUME NEW y \in ClientState
  PROVE  LET x == [y EXCEPT !.attempt = 0, !.status = "connected"] IN
         /\ x \in ClientState /\ x.ws = y.ws /\ x.timers = y.timers
         /\ x.status = "connected" /\ x.shut = y.shut
<1> DEFINE z == [y EXCEPT !.attempt = 0]
<1>1. 0 \in 0..MaxAttempts
  OBVIOUS
<1>2. z \in ClientState /\ z.ws = y.ws /\ z.timers = y.timers /\ z.shut = y.shut
  BY <1>1 DEF ClientState
<1>3. [y EXCEPT !.attempt = 0, !.status = "connected"] = [z EXCEPT !.status = "connected"]
  OBVIOUS
<1> HIDE DEF z
<1>4. LET x == [z EXCEPT !.status = "connected"] IN
      /\ x \in ClientState /\ x.ws = z.ws /\ x.timers = z.timers
      /\ x.status = "connected" /\ x.shut = z.shut
  BY <1>2 DEF ClientState, Status
<1> QED
  BY <1>2, <1>3, <1>4

LEMMA HelloKeeps ==
  ASSUME IInv, NEW k \in Socket, Hello(k)
  PROVE  IInv'
<1>1. socket[k].of = mounted /\ mounted \in Client /\ client[mounted].ws = k
      /\ client[mounted].timers = 0
  BY OpenIsMine DEF Hello
<1> DEFINE x == [client[mounted] EXCEPT !.attempt = 0, !.status = "connected"]
<1>2. client[mounted] \in ClientState
  BY <1>1 DEF IInv, TypeOK, ClientState
<1>3. x \in ClientState /\ x.ws = k /\ x.timers = 0 /\ x.status = "connected"
      /\ x.shut = client[mounted].shut
  BY <1>1, <1>2, ConnectedDoes
<1>4. Become(mounted, x) /\ adapter' \in Client \union {None}
  BY <1>1 DEF Hello, IInv, TypeOK
<1> HIDE DEF x
<1> QED
  BY <1>3, <1>4, VerdictKeeps DEF Hello

LEMMA RefuseKeeps ==
  ASSUME IInv, NEW k \in Socket, Refuse(k)
  PROVE  IInv'
<1>1. socket[k].of = mounted /\ mounted \in Client /\ client[mounted].ws = k
      /\ client[mounted].timers = 0
  BY OpenIsMine DEF Refuse
<1> DEFINE x == [client[mounted] EXCEPT !.status = "error"]
<1>2. client[mounted] \in ClientState
  BY <1>1 DEF IInv, TypeOK, ClientState
<1>3. x \in ClientState /\ x.ws = k /\ x.timers = 0 /\ x.status = "error"
      /\ x.shut = client[mounted].shut
  <2>1. x = [ws |-> client[mounted].ws, status |-> "error", shut |-> client[mounted].shut,
             attempt |-> client[mounted].attempt, timers |-> client[mounted].timers]
    BY <1>2 DEF ClientState
  <2> QED
    BY <1>1, <1>2, <2>1 DEF ClientState, Status
<1>4. Become(mounted, x) /\ adapter' \in Client \union {None}
  BY <1>1 DEF Refuse, IInv, TypeOK
<1> HIDE DEF x
<1> QED
  BY <1>3, <1>4, VerdictKeeps DEF Refuse

(* A shutdown: the socket stays and is heard, the client is done with it.     *)
LEMMA ShutdownKeeps ==
  ASSUME IInv, NEW k \in Socket, Shutdown(k)
  PROVE  IInv'
<1> USE DEF Heard
<1>1. TypeOK /\ OthersRest /\ HeardIsMine /\ OneTimer /\ ShutStaysDown /\ SentOnce
      /\ PendingIsSent
  BY DEF IInv
<1>2. /\ mounted \in Client /\ socket[k].of = mounted /\ client[mounted].ws = k
      /\ client[mounted].timers = 0 /\ Heard(k)
  BY OpenIsMine DEF Shutdown
<1> DEFINE y == Cleared(client[mounted])
           x == [y EXCEPT !.shut = TRUE, !.status = "disconnected"]
<1>3. client[mounted] \in ClientState
  BY <1>1, <1>2 DEF TypeOK, ClientState
<1>4. y \in ClientState /\ y.timers = 0 /\ y.ws = k
  BY <1>2, <1>3, ClearedDoes
<1> HIDE DEF y
<1>5. x \in ClientState /\ x.timers = 0 /\ x.ws = k /\ x.status = "disconnected" /\ x.shut
  BY <1>4 DEF ClientState, Status
<1>6. Become(mounted, x) /\ socket[k].step = "greeted"
      /\ UNCHANGED <<mounted, born, socket, adapter>>
  BY <1>2 DEF Shutdown, y
<1> HIDE DEF x
<1>7. /\ client' \in [Client -> ClientState] /\ client'[mounted] = x
      /\ \A d \in Client \ {mounted} : client'[d] = client[d]
      /\ request' \in [Request -> RequestState]
  BY <1>1, <1>2, <1>5, <1>6, BecomeDoes
<1>8. \A r \in Request :
        /\ request'[r].of = request[r].of /\ request'[r].handler = request[r].handler
        /\ request'[r].state = IF r \in Pending(mounted) THEN "settled"
                               ELSE request[r].state
  BY <1>1, <1>2, <1>5, <1>6, BecomeDoes DEF Settles
<1>9. TypeOK'
  BY <1>1, <1>6, <1>7 DEF TypeOK, ClientState, RequestState
<1>10. OthersRest' /\ OneTimer'
  BY <1>1, <1>5, <1>6, <1>7 DEF OthersRest, OneTimer
<1>11. HeardIsMine'
  <2>1. client'[mounted].ws = client[mounted].ws /\ client'[mounted].timers = 0
    BY <1>2, <1>5, <1>7
  <2> QED
    BY <1>1, <1>6, <2>1 DEF HeardIsMine
<1>12. ShutStaysDown'
  <2> SUFFICES ASSUME NEW d \in Client, client'[d].shut
               PROVE  /\ client'[d].status = "disconnected"
                      /\ client'[d].ws # None => socket[client'[d].ws].step = "greeted"
    BY <1>6 DEF ShutStaysDown
  <2> QED
    BY <1>1, <1>5, <1>6, <1>7 DEF OthersRest
<1>13. SentOnce'
  <2> SUFFICES ASSUME NEW j \in Socket, NEW r \in socket[j].sent
               PROVE  /\ request'[r].handler /\ request'[r].state # "none"
                      /\ \A i \in Socket : r \in socket[i].sent => i = j
    BY <1>6 DEF SentOnce
  <2>1. r \in Request
    BY <1>1 DEF TypeOK
  <2> QED
    BY <1>1, <1>8, <2>1 DEF SentOnce
<1>14. PendingIsSent'
  <2>1. ASSUME NEW r \in Request PROVE request'[r].state # "pending"
    BY <1>1, <1>8 DEF PendingIsSent, Pending
  <2> QED
    BY <2>1 DEF PendingIsSent
<1>15. LineIsKept'
  BY <1>5, <1>6, <1>7 DEF LineIsKept
<1>16. StatusIsTrue'
  BY <1>1, <1>5, <1>6, <1>7 DEF StatusIsTrue, OthersRest
<1> QED
  BY <1>9, <1>10, <1>11, <1>12, <1>13, <1>14, <1>15, <1>16 DEF IInv

(* The end of a socket that is not heard changes nothing else.                *)
LEMMA UnheardCloseKeeps ==
  ASSUME IInv, NEW k \in Socket, Closes(k), ~socket[k].heard
  PROVE  IInv'
<1> USE DEF Heard
<1>1. TypeOK /\ OthersRest /\ HeardIsMine /\ OneTimer /\ ShutStaysDown /\ SentOnce
      /\ PendingIsSent /\ LineIsKept /\ StatusIsTrue
  BY DEF IInv
<1>2. UNCHANGED <<mounted, born, client, request, adapter>>
  BY DEF Closes
<1>3. socket \in [Socket -> SocketState] /\ socket' = [socket EXCEPT ![k].state = "gone"]
      /\ socket[k].state \in {"connecting", "open", "closing"}
  BY <1>1 DEF Closes, TypeOK, SocketState
<1>4. /\ socket' \in [Socket -> SocketState]
      /\ socket'[k] = [of |-> socket[k].of, state |-> "gone", heard |-> socket[k].heard,
                       step |-> socket[k].step, sent |-> socket[k].sent]
      /\ \A j \in Socket \ {k} : socket'[j] = socket[j]
  BY <1>3 DEF SocketState
<1>5. \A j \in Socket : Heard(j) => j # k
  OBVIOUS
<1>6. TypeOK' /\ OthersRest' /\ OneTimer'
  BY <1>1, <1>2, <1>4 DEF TypeOK, OthersRest, OneTimer, SocketState
<1>7. HeardIsMine'
  BY <1>1, <1>2, <1>4 DEF HeardIsMine
<1>8. ShutStaysDown'
  BY <1>1, <1>2, <1>4 DEF ShutStaysDown, TypeOK
<1>9. SentOnce'
  <2>1. ASSUME NEW j \in Socket PROVE socket'[j].sent = socket[j].sent
    <3>1. CASE j = k
      BY <1>4, <3>1
    <3>2. CASE j # k
      BY <1>4, <3>2
    <3> QED
      BY <3>1, <3>2
  <2> QED
    BY <1>1, <1>2, <2>1 DEF SentOnce
<1>10. PendingIsSent'
  <2> SUFFICES ASSUME NEW r \in Request, request[r].state = "pending"
               PROVE  /\ mounted # None /\ request[r].of = mounted
                      /\ LET w == client[mounted].ws IN
                         /\ w # None /\ socket'[w].state # "gone" /\ socket'[w].heard
                         /\ r \in socket'[w].sent
    BY <1>2 DEF PendingIsSent
  <2>1. /\ mounted \in Client /\ request[r].of = mounted /\ client[mounted].ws \in Socket
        /\ Heard(client[mounted].ws) /\ r \in socket[client[mounted].ws].sent
    BY <1>1 DEF PendingIsSent, TypeOK
  <2>2. client[mounted].ws # k
    BY <1>5, <2>1
  <2> QED
    BY <1>4, <2>1, <2>2
<1>11. LineIsKept'
  BY <1>1, <1>2, <1>4, <1>5 DEF LineIsKept, TypeOK
<1>12. StatusIsTrue'
  <2> SUFFICES ASSUME NEW c \in Client, client[c].status \in {"connected", "error"}
               PROVE  LET w == client[c].ws IN
                      /\ w # None /\ socket'[w].state # "gone" /\ socket'[w].heard
                      /\ client[c].status = "connected" => socket'[w].step = "greeted"
                      /\ client[c].status = "error" => socket'[w].step = "refused"
    BY <1>2 DEF StatusIsTrue
  <2>1. client[c].ws \in Socket
    BY <1>1 DEF StatusIsTrue, TypeOK
  <2>2. client[c].ws # k
    BY <1>1, <2>1 DEF StatusIsTrue, HeardIsMine, OthersRest
  <2> QED
    BY <1>1, <1>4, <2>1, <2>2 DEF StatusIsTrue
<1> QED
  BY <1>6, <1>7, <1>8, <1>9, <1>10, <1>11, <1>12 DEF IInv

(* The end of the heard socket: what is pending is rejected, and the client   *)
(* tries again unless it was told to stop.                                    *)
LEMMA HeardCloseKeeps ==
  ASSUME IInv, NEW k \in Socket, Closes(k), socket[k].heard
  PROVE  IInv'
<1> USE DEF Heard
<1>1. TypeOK /\ OthersRest /\ HeardIsMine /\ OneTimer /\ ShutStaysDown /\ SentOnce
      /\ PendingIsSent
  BY DEF IInv
<1>2. /\ mounted \in Client /\ socket[k].of = mounted /\ client[mounted].ws = k
      /\ client[mounted].timers = 0
  BY <1>1 DEF HeardIsMine, TypeOK, Closes
<1> DEFINE x == Scheduled(client[mounted])
<1>3. client[mounted] \in ClientState
  BY <1>1, <1>2 DEF TypeOK, ClientState
<1>4. /\ x \in ClientState /\ x.ws = k /\ x.shut = client[mounted].shut
      /\ x.shut => x.status = "disconnected" /\ x.timers = 0
      /\ ~x.shut => \/ x.status = "disconnected" /\ x.timers = 0
                       /\ x.attempt = MaxAttempts
                    \/ x.status = "reconnecting" /\ x.timers = 1
  BY <1>1, <1>2, <1>3, ScheduledDoes DEF ShutStaysDown
<1>5. Become(mounted, x) /\ UNCHANGED <<mounted, born, adapter>>
  BY <1>2 DEF Closes
<1> HIDE DEF x
<1>6. Settles(x.status)
  BY <1>4 DEF Settles
<1>7. /\ client' \in [Client -> ClientState] /\ client'[mounted] = x
      /\ \A d \in Client \ {mounted} : client'[d] = client[d]
      /\ request' \in [Request -> RequestState]
  BY <1>1, <1>2, <1>4, <1>5, BecomeDoes
<1>8. \A r \in Request :
        /\ request'[r].of = request[r].of /\ request'[r].handler = request[r].handler
        /\ request'[r].state = IF r \in Pending(mounted) THEN "settled"
                               ELSE request[r].state
  BY <1>1, <1>2, <1>4, <1>5, <1>6, BecomeDoes
<1>9. socket \in [Socket -> SocketState] /\ socket' = [socket EXCEPT ![k].state = "gone"]
  BY <1>1 DEF Closes, TypeOK, SocketState
<1>10. /\ socket' \in [Socket -> SocketState]
       /\ socket'[k] = [of |-> socket[k].of, state |-> "gone", heard |-> socket[k].heard,
                        step |-> socket[k].step, sent |-> socket[k].sent]
       /\ \A j \in Socket \ {k} : socket'[j] = socket[j]
  BY <1>9 DEF SocketState
<1>11. TypeOK'
  BY <1>1, <1>5, <1>7, <1>10 DEF TypeOK, ClientState, SocketState, RequestState
<1>12. OthersRest'
  BY <1>1, <1>5, <1>7 DEF OthersRest
<1>13. OneTimer'
  BY <1>1, <1>4, <1>7 DEF OneTimer
<1>14. \A j \in Socket : ~(socket'[j].state # "gone" /\ socket'[j].heard)
  BY <1>1, <1>2, <1>10 DEF HeardIsMine
<1>15. HeardIsMine'
  BY <1>1, <1>10, <1>14 DEF HeardIsMine
<1>16. ShutStaysDown'
  <2> SUFFICES ASSUME NEW d \in Client, client'[d].shut
               PROVE  /\ client'[d].status = "disconnected"
                      /\ LET w == client'[d].ws IN
                         w # None => socket'[w].state = "gone"
    BY DEF ShutStaysDown
  <2>1. CASE d = mounted
    BY <1>4, <1>7, <1>10, <2>1
  <2>2. CASE d # mounted
    BY <1>1, <1>7, <2>2 DEF OthersRest
  <2> QED
    BY <2>1, <2>2
<1>17. SentOnce'
  <2>1. ASSUME NEW j \in Socket PROVE socket'[j].sent = socket[j].sent
    <3>1. CASE j = k
      BY <1>10, <3>1
    <3>2. CASE j # k
      BY <1>10, <3>2
    <3> QED
      BY <3>1, <3>2
  <2> SUFFICES ASSUME NEW j \in Socket, NEW r \in socket[j].sent
               PROVE  /\ request'[r].handler /\ request'[r].state # "none"
                      /\ \A i \in Socket : r \in socket[i].sent => i = j
    BY <2>1 DEF SentOnce
  <2>2. r \in Request
    BY <1>1 DEF TypeOK
  <2> QED
    BY <1>1, <1>8, <2>2 DEF SentOnce
<1>18. PendingIsSent'
  <2>1. ASSUME NEW r \in Request PROVE request'[r].state # "pending"
    BY <1>1, <1>8 DEF PendingIsSent, Pending
  <2> QED
    BY <2>1 DEF PendingIsSent
<1>19. LineIsKept'
  BY <1>4, <1>5, <1>7 DEF LineIsKept
<1>20. StatusIsTrue'
  BY <1>1, <1>4, <1>5, <1>7 DEF StatusIsTrue, OthersRest
<1> QED
  BY <1>11, <1>12, <1>13, <1>15, <1>16, <1>17, <1>18, <1>19, <1>20 DEF IInv

-----------------------------------------------------------------------------
(* Requests touch neither the line nor what is shown.                         *)
LEMMA AnswerKeeps ==
  ASSUME IInv, NEW k \in Socket, NEW r \in Request, NEW ok \in BOOLEAN, Answer(k, r, ok)
  PROVE  IInv'
<1> USE DEF Heard
<1>1. TypeOK /\ OthersRest /\ HeardIsMine /\ OneTimer /\ ShutStaysDown /\ SentOnce
      /\ PendingIsSent /\ LineIsKept /\ StatusIsTrue
  BY DEF IInv
<1>2. request[r].handler /\ request[r].state # "none"
      /\ \A j \in Socket : r \in socket[j].sent => j = k
  BY <1>1 DEF SentOnce, Answer
<1>3. UNCHANGED <<mounted, born, client, adapter>>
  BY <1>2 DEF Answer
<1>4. socket \in [Socket -> SocketState] /\ request \in [Request -> RequestState]
      /\ socket' = [socket EXCEPT ![k].sent = @ \ {r}]
      /\ request' = [request EXCEPT ![r].handler = FALSE, ![r].state = "settled"]
  BY <1>1, <1>2 DEF Answer, TypeOK, SocketState, RequestState
<1>5. /\ socket' \in [Socket -> SocketState]
      /\ socket'[k] = [of |-> socket[k].of, state |-> socket[k].state,
                       heard |-> socket[k].heard, step |-> socket[k].step,
                       sent |-> socket[k].sent \ {r}]
      /\ \A j \in Socket \ {k} : socket'[j] = socket[j]
  BY <1>4 DEF SocketState
<1>6. \A j \in Socket :
        /\ socket'[j].of = socket[j].of /\ socket'[j].state = socket[j].state
        /\ socket'[j].heard = socket[j].heard /\ socket'[j].step = socket[j].step
        /\ socket'[j].sent = socket[j].sent \ {r}
  <2> TAKE j \in Socket
  <2>1. CASE j = k
    BY <1>5, <2>1
  <2>2. CASE j # k
    BY <1>2, <1>5, <2>2
  <2> QED
    BY <2>1, <2>2
<1>7. /\ request' \in [Request -> RequestState]
      /\ request'[r].state = "settled"
      /\ \A q \in Request \ {r} : request'[q] = request[q]
  BY <1>4 DEF RequestState
<1>8. TypeOK'
  BY <1>1, <1>3, <1>5, <1>7 DEF TypeOK, SocketState, RequestState
<1>9. OthersRest' /\ OneTimer'
  BY <1>1, <1>3 DEF OthersRest, OneTimer
<1>10. HeardIsMine'
  BY <1>1, <1>3, <1>6 DEF HeardIsMine
<1>11. ShutStaysDown'
  BY <1>1, <1>3, <1>6 DEF ShutStaysDown, TypeOK
<1>12. SentOnce'
  <2> SUFFICES ASSUME NEW j \in Socket, NEW q \in socket[j].sent \ {r}
               PROVE  /\ request'[q].handler /\ request'[q].state # "none"
                      /\ \A i \in Socket : q \in socket[i].sent => i = j
    BY <1>6 DEF SentOnce
  <2>1. q \in Request \ {r}
    BY <1>1 DEF TypeOK
  <2> QED
    BY <1>1, <1>7, <2>1 DEF SentOnce
<1>13. PendingIsSent'
  <2> SUFFICES ASSUME NEW q \in Request, request'[q].state = "pending"
               PROVE  /\ mounted # None /\ request'[q].of = mounted
                      /\ LET w == client[mounted].ws IN
                         /\ w # None /\ socket'[w].state # "gone" /\ socket'[w].heard
                         /\ q \in socket'[w].sent
    BY <1>3 DEF PendingIsSent
  <2>1. q # r /\ request'[q] = request[q]
    BY <1>7
  <2>2. /\ mounted \in Client /\ request[q].of = mounted /\ client[mounted].ws \in Socket
        /\ Heard(client[mounted].ws) /\ q \in socket[client[mounted].ws].sent
    BY <1>1, <2>1 DEF PendingIsSent, TypeOK
  <2> QED
    BY <1>6, <2>1, <2>2
<1>14. LineIsKept'
  BY <1>1, <1>3, <1>6 DEF LineIsKept, TypeOK
<1>15. StatusIsTrue'
  BY <1>1, <1>3, <1>6 DEF StatusIsTrue, TypeOK
<1> QED
  BY <1>8, <1>9, <1>10, <1>11, <1>12, <1>13, <1>14, <1>15 DEF IInv

LEMMA TimesOutKeeps ==
  ASSUME IInv, NEW r \in Request, TimesOut(r)
  PROVE  IInv'
<1>1. TypeOK /\ OthersRest /\ HeardIsMine /\ OneTimer /\ ShutStaysDown /\ SentOnce
      /\ PendingIsSent /\ LineIsKept /\ StatusIsTrue
  BY DEF IInv
<1>2. UNCHANGED <<mounted, born, client, socket, adapter>>
      /\ request' = [request EXCEPT ![r].state = "settled"]
  BY DEF TimesOut
<1>3. request \in [Request -> RequestState]
  BY <1>1 DEF TypeOK, RequestState
<1>4. /\ request' \in [Request -> RequestState]
      /\ request'[r] = [of |-> request[r].of, state |-> "settled",
                        handler |-> request[r].handler]
      /\ \A q \in Request \ {r} : request'[q] = request[q]
  BY <1>2, <1>3 DEF RequestState
<1>5. TypeOK'
  BY <1>1, <1>2, <1>4 DEF TypeOK, RequestState
<1>6. OthersRest' /\ HeardIsMine' /\ OneTimer' /\ ShutStaysDown' /\ LineIsKept'
      /\ StatusIsTrue'
  BY <1>1, <1>2 DEF OthersRest, HeardIsMine, Heard, OneTimer, ShutStaysDown, LineIsKept,
                    StatusIsTrue
<1>7. SentOnce'
  <2> SUFFICES ASSUME NEW j \in Socket, NEW q \in socket[j].sent
               PROVE  /\ request'[q].handler /\ request'[q].state # "none"
                      /\ \A i \in Socket : q \in socket[i].sent => i = j
    BY <1>2 DEF SentOnce
  <2>1. q \in Request
    BY <1>1 DEF TypeOK
  <2> QED
    BY <1>1, <1>4, <2>1 DEF SentOnce
<1>8. PendingIsSent'
  <2>1. ASSUME NEW q \in Request, request'[q].state = "pending"
        PROVE  q # r /\ request'[q] = request[q]
    BY <1>4, <2>1
  <2> QED
    BY <1>1, <1>2, <2>1 DEF PendingIsSent, Heard
<1> QED
  BY <1>5, <1>6, <1>7, <1>8 DEF IInv

LEMMA CallKeeps ==
  ASSUME IInv, NEW r \in Request, NEW c \in Client, Call(r, c)
  PROVE  IInv'
<1>1. TypeOK /\ OthersRest /\ HeardIsMine /\ OneTimer /\ ShutStaysDown /\ SentOnce
      /\ PendingIsSent /\ LineIsKept /\ StatusIsTrue
  BY DEF IInv
<1>2. UNCHANGED <<mounted, born, client, adapter>> /\ request[r].state = "none"
  BY DEF Call
<1>3. request \in [Request -> RequestState] /\ socket \in [Socket -> SocketState]
  BY <1>1 DEF TypeOK, RequestState, SocketState
<1>4. \A j \in Socket : r \notin socket[j].sent
  BY <1>1, <1>2 DEF SentOnce
<1>5. CASE ~Connected(c)
  <2>1. UNCHANGED socket
        /\ request' = [request EXCEPT ![r] = [of |-> c, state |-> "settled",
                                              handler |-> FALSE]]
    BY <1>5 DEF Call
  <2>2. /\ request' \in [Request -> RequestState]
        /\ request'[r].state = "settled"
        /\ \A q \in Request \ {r} : request'[q] = request[q]
    BY <1>3, <2>1 DEF RequestState
  <2>3. TypeOK'
    BY <1>1, <1>2, <2>1, <2>2 DEF TypeOK, RequestState
  <2>4. OthersRest' /\ HeardIsMine' /\ OneTimer' /\ ShutStaysDown' /\ LineIsKept'
        /\ StatusIsTrue'
    BY <1>1, <1>2, <2>1 DEF OthersRest, HeardIsMine, Heard, OneTimer, ShutStaysDown,
                            LineIsKept, StatusIsTrue
  <2>5. SentOnce'
    <3> SUFFICES ASSUME NEW j \in Socket, NEW q \in socket[j].sent
                 PROVE  /\ request'[q].handler /\ request'[q].state # "none"
                        /\ \A i \in Socket : q \in socket[i].sent => i = j
      BY <2>1 DEF SentOnce
    <3>1. q \in Request \ {r}
      BY <1>1, <1>4 DEF TypeOK
    <3> QED
      BY <1>1, <2>2, <3>1 DEF SentOnce
  <2>6. PendingIsSent'
    <3>1. ASSUME NEW q \in Request, request'[q].state = "pending"
          PROVE  q # r /\ request'[q] = request[q]
      BY <2>2, <3>1
    <3> QED
      BY <1>1, <1>2, <2>1, <3>1 DEF PendingIsSent, Heard
  <2> QED
    BY <2>3, <2>4, <2>5, <2>6 DEF IInv
<1>6. CASE Connected(c)
  <2> USE DEF Heard
  <2> DEFINE k == client[c].ws
  <2>1. c = mounted /\ k \in Socket /\ socket[k].state = "open"
    BY <1>1, <1>6 DEF Connected, OthersRest, TypeOK
  <2>2. socket[k].heard
    BY <1>1, <2>1 DEF HeardIsMine
  <2>3. /\ request' = [request EXCEPT ![r] = [of |-> c, state |-> "pending",
                                              handler |-> TRUE]]
        /\ socket' = [socket EXCEPT ![k].sent = @ \union {r}]
    BY <1>6 DEF Call
  <2>4. /\ request' \in [Request -> RequestState]
        /\ request'[r] = [of |-> c, state |-> "pending", handler |-> TRUE]
        /\ \A q \in Request \ {r} : request'[q] = request[q]
    BY <1>3, <2>3 DEF RequestState
  <2> HIDE DEF k
  <2>5. /\ socket' \in [Socket -> SocketState]
        /\ socket'[k] = [of |-> socket[k].of, state |-> socket[k].state,
                         heard |-> socket[k].heard, step |-> socket[k].step,
                         sent |-> socket[k].sent \union {r}]
        /\ \A j \in Socket \ {k} : socket'[j] = socket[j]
    BY <1>3, <2>1, <2>3 DEF SocketState
  <2>6. \A j \in Socket :
          /\ socket'[j].of = socket[j].of /\ socket'[j].state = socket[j].state
          /\ socket'[j].heard = socket[j].heard /\ socket'[j].step = socket[j].step
          /\ socket[j].sent \subseteq socket'[j].sent
          /\ r \in socket'[j].sent => j = k
          /\ \A q \in socket'[j].sent : q # r => q \in socket[j].sent
    <3> TAKE j \in Socket
    <3>1. CASE j = k
      BY <2>5, <3>1
    <3>2. CASE j # k
      BY <1>4, <2>5, <3>2
    <3> QED
      BY <3>1, <3>2
  <2>7. TypeOK'
    BY <1>1, <1>2, <2>4, <2>5 DEF TypeOK, SocketState, RequestState
  <2>8. OthersRest' /\ OneTimer'
    BY <1>1, <1>2 DEF OthersRest, OneTimer
  <2>9. HeardIsMine'
    BY <1>1, <1>2, <2>6 DEF HeardIsMine
  <2>10. ShutStaysDown'
    BY <1>1, <1>2, <2>6 DEF ShutStaysDown, TypeOK
  <2>11. SentOnce'
    <3> SUFFICES ASSUME NEW j \in Socket, NEW q \in socket'[j].sent
                 PROVE  /\ request'[q].handler /\ request'[q].state # "none"
                        /\ \A i \in Socket : q \in socket'[i].sent => i = j
      BY DEF SentOnce
    <3>1. CASE q = r
      BY <1>4, <2>4, <2>6, <3>1
    <3>2. CASE q # r
      <4>1. q \in socket[j].sent
        BY <2>6, <3>2
      <4>2. q \in Request \ {r}
        BY <1>1, <3>2, <4>1 DEF TypeOK
      <4>3. \A i \in Socket : q \in socket'[i].sent => i = j
        BY <1>1, <2>6, <3>2, <4>1 DEF SentOnce
      <4> QED
        BY <1>1, <2>4, <4>1, <4>2, <4>3 DEF SentOnce
    <3> QED
      BY <3>1, <3>2
  <2>12. PendingIsSent'
    <3> SUFFICES ASSUME NEW q \in Request, request'[q].state = "pending"
                 PROVE  /\ mounted # None /\ request'[q].of = mounted
                        /\ LET w == client[mounted].ws IN
                           /\ w # None /\ socket'[w].state # "gone" /\ socket'[w].heard
                           /\ q \in socket'[w].sent
      BY <1>2 DEF PendingIsSent
    <3>1. CASE q = r
      <4>1. client[mounted].ws = k /\ request'[q].of = mounted /\ mounted # None /\ k # None
        BY <2>1, <2>4, <3>1 DEF k
      <4>2. socket'[k].state # "gone" /\ socket'[k].heard /\ q \in socket'[k].sent
        BY <2>1, <2>2, <2>5, <3>1
      <4> QED
        BY <4>1, <4>2
    <3>2. CASE q # r
      <4>1. /\ mounted \in Client /\ request[q].of = mounted
            /\ client[mounted].ws \in Socket /\ Heard(client[mounted].ws)
            /\ q \in socket[client[mounted].ws].sent /\ request'[q] = request[q]
        BY <1>1, <2>4, <3>2 DEF PendingIsSent, TypeOK
      <4> QED
        BY <2>6, <4>1
    <3> QED
      BY <3>1, <3>2
  <2>13. LineIsKept'
    BY <1>1, <1>2, <2>6 DEF LineIsKept, TypeOK
  <2>14. StatusIsTrue'
    BY <1>1, <1>2, <2>6 DEF StatusIsTrue, TypeOK
  <2> QED
    BY <2>7, <2>8, <2>9, <2>10, <2>11, <2>12, <2>13, <2>14 DEF IInv
<1> QED
  BY <1>5, <1>6

-----------------------------------------------------------------------------
LEMMA NextKeeps == IInv /\ [Next]_vars => IInv'
<1> SUFFICES ASSUME IInv, [Next]_vars PROVE IInv'
  OBVIOUS
<1>1. ASSUME NEW c \in Client, Mount(c) \/ Unmount(c) \/ TimerFires(c) PROVE IInv'
  BY <1>1, MountKeeps, UnmountKeeps, TimerKeeps
<1>2. ASSUME NEW k \in Socket, Network(k) PROVE IInv'
  BY <1>2, OpensClosingKeep, UnheardCloseKeeps, HeardCloseKeeps, ChallengeKeeps,
     HelloKeeps, RefuseKeeps, ShutdownKeeps DEF Network
<1>3. ASSUME NEW k \in Socket, NEW r \in Request, NEW ok \in BOOLEAN, Answer(k, r, ok)
      PROVE  IInv'
  BY <1>3, AnswerKeeps
<1>4. ASSUME NEW r \in Request, TimesOut(r) PROVE IInv'
  BY <1>4, TimesOutKeeps
<1>5. ASSUME NEW r \in Request, NEW c \in Client, Call(r, c) PROVE IInv'
  BY <1>5, CallKeeps
<1>6. CASE UNCHANGED vars
  BY <1>6 DEF vars, IInv, TypeOK, OthersRest, HeardIsMine, Heard, OneTimer,
              ShutStaysDown, SentOnce, PendingIsSent, LineIsKept, StatusIsTrue
<1> QED
  BY <1>1, <1>2, <1>3, <1>4, <1>5, <1>6 DEF Next

LEMMA Invariant == Spec => []IInv
BY InitIInv, NextKeeps, PTL DEF Spec

(* Clients, sockets and requests always have their types.                     *)
THEOREM TypeCorrect == Spec => []TypeOK
<1>1. IInv => TypeOK
  BY DEF IInv
<1> QED
  BY <1>1, Invariant, PTL

LEMMA OneLineFollows == IInv => OneLine
<1> SUFFICES ASSUME IInv, NEW c \in Client
             PROVE  Cardinality(Live(c)) + client[c].timers
                      <= IF c = mounted THEN 1 ELSE 0
  BY DEF OneLine
<1>1. TypeOK /\ OthersRest /\ HeardIsMine /\ OneTimer
  BY DEF IInv
<1>2. client[c].timers \in Nat
  BY <1>1 DEF TypeOK
<1>3. \A k \in Live(c) : c = mounted /\ k = client[c].ws /\ client[c].timers = 0
  BY <1>1 DEF Live, HeardIsMine, Heard
<1>4. CASE Live(c) = {}
  BY <1>1, <1>2, <1>4, FS_EmptySet DEF OthersRest, OneTimer
<1>5. CASE Live(c) # {}
  <2>1. c = mounted /\ client[c].timers = 0 /\ Live(c) = {client[c].ws}
    BY <1>3, <1>5
  <2>2. Cardinality(Live(c)) = 1
    BY <2>1, FS_Singleton
  <2> QED
    BY <2>1, <2>2
<1> QED
  BY <1>4, <1>5

(* However sockets fail, timers fire and effects run again, a client has at   *)
(* most one live socket or reconnect timer, and none once it is cleaned up.   *)
THEOREM OneLineEach == Spec => []OneLine
BY Invariant, OneLineFollows, PTL

(* The mounted client has a line until the gateway shuts down or the attempts *)
(* are used up.                                                               *)
THEOREM TheLineIsKept == Spec => []LineIsKept
<1>1. IInv => LineIsKept
  BY DEF IInv
<1> QED
  BY <1>1, Invariant, PTL

(* The status shown is that of a socket which is there, whatever comes late.  *)
THEOREM StatusIsNeverStale == Spec => []StatusIsTrue
<1>1. IInv => StatusIsTrue
  BY DEF IInv
<1> QED
  BY <1>1, Invariant, PTL

(* A pending request is on the socket its client remembers, so that the end   *)
(* of that socket rejects it.                                                 *)
THEOREM PendingHasItsSocket == Spec => []WaitsOnItsConnection
<1>1. IInv => WaitsOnItsConnection
  BY DEF IInv, WaitsOnItsConnection, Pending, PendingIsSent, Heard
<1> QED
  BY <1>1, Invariant, PTL
-----------------------------------------------------------------------------
(* The client seen as a line: what the refinement needs besides IInv.  A      *)
(* timer runs only while the client is shown as reconnecting, requests wait   *)
(* only while it is shown as connected, and when it is shown as disconnected  *)
(* no socket but one that announced the shutdown is heard any more.           *)
BornFirst == mounted # None => mounted \in born

TimerWaits == \A c \in Client : client[c].timers > 0 => client[c].status = "reconnecting"

PendingIsUp ==
  \A r \in Request : request[r].state = "pending" => client[mounted].status = "connected"

DownIsLost ==
  \A k \in Socket : Heard(k) =>
    client[mounted].status # "disconnected" \/ client[mounted].shut

LineInv == BornFirst /\ TimerWaits /\ PendingIsUp /\ DownIsLost

Line == [c \in Client |-> Shown(c)]
Asked == [r \in Request |-> [of |-> request[r].of, state |-> request[r].state]]

LEMMA InitLineInv == Init => LineInv
BY DEF Init, NewClient, GoneSocket, LineInv, BornFirst, TimerWaits, PendingIsUp, DownIsLost,
       Heard

LEMMA InitIsALine == Init => Lines!Init
<1> SUFFICES ASSUME Init PROVE Line = [c \in Client |-> "new"]
                              /\ Asked = [r \in Request |-> [of |-> None, state |-> "none"]]
  BY DEF Lines!Init, Line, Asked
<1>1. \A c \in Client : Shown(c) = "new"
  BY DEF Init, Shown
<1>2. \A r \in Request : request[r].of = None /\ request[r].state = "none"
  BY DEF Init
<1> QED
  BY <1>1, <1>2 DEF Line, Asked

(* Where the line and what is asked on it are as before, nothing is seen.     *)
LEMMA NothingSeen ==
  ASSUME UNCHANGED <<mounted, born, client>>,
         \A r \in Request : request'[r].of = request[r].of
                            /\ request'[r].state = request[r].state
  PROVE  UNCHANGED Lines!vars
<1>1. Line' = Line
  BY DEF Line, Shown
<1>2. Asked' = Asked
  BY DEF Asked
<1> QED
  BY <1>1, <1>2 DEF Line, Asked, Lines!vars

LEMMA LineSteps ==
  ASSUME NEW c \in Client, Lines!Open(c) \/ Lines!Close(c) \/ Lines!Settle(c) \/ Lines!Lose(c)
  PROVE  Lines!Next
BY DEF Lines!Next

LEMMA RequestSteps ==
  ASSUME NEW c \in Client, NEW r \in Request, Lines!Ask(r, c) \/ Lines!Answer(r)
  PROVE  Lines!Next
BY DEF Lines!Next

(* The mounted client takes on another status.                                *)
LEMMA StatusMoves ==
  ASSUME IInv, LineInv, NEW c \in Client, mounted = c, UNCHANGED <<mounted, born>>,
         client' \in [Client -> ClientState],
         \A d \in Client \ {c} : client'[d] = client[d],
         \A r \in Request :
           /\ request'[r].of = request[r].of
           /\ request'[r].state =
                IF r \in Pending(c) /\ Settles(client'[c].status)
                THEN "settled" ELSE request[r].state,
         client'[c].timers > 0 => client'[c].status = "reconnecting",
         \A k \in Socket : Heard(k)' =>
           client'[c].status # "disconnected" \/ client'[c].shut,
         LET s == client[c].status
             t == client'[c].status
         IN  \/ ShownAs(s) = ShownAs(t) /\ ShownAs(s) # "up"
             \/ ShownAs(s) = "dialling" /\ t \in {"connected", "error", "disconnected"}
             \/ s \in {"connected", "error"} /\ t \in {"reconnecting", "disconnected"}
  PROVE  LineInv' /\ [Lines!Next]_(Lines!vars)
<1> DEFINE s == client[c].status
           t == client'[c].status
<1>1. LineInv'
  <2>1. BornFirst' /\ DownIsLost'
    BY DEF LineInv, BornFirst, DownIsLost
  <2>2. TimerWaits'
    BY DEF LineInv, TimerWaits
  <2>3. ASSUME NEW r \in Request PROVE request'[r].state # "pending"
    <3>1. request[r].state = "pending" => r \in Pending(c) /\ s = "connected"
      BY DEF IInv, PendingIsSent, LineInv, PendingIsUp, Pending
    <3>2. s = "connected" => Settles(t)
      BY DEF ShownAs, Settles
    <3> QED
      BY <3>1, <3>2
  <2> QED
    BY <2>1, <2>2, <2>3 DEF LineInv, PendingIsUp
<1>2. Line' = [Line EXCEPT ![c] = ShownAs(t)] /\ Line[c] = ShownAs(s)
  BY DEF Line, Shown
<1>3. s # "connected" => Asked' = Asked
  <2>1. ASSUME s # "connected", NEW r \in Request PROVE r \notin Pending(c)
    BY <2>1 DEF LineInv, PendingIsUp, Pending
  <2> QED
    BY <2>1 DEF Asked
<1>4. Settles(t) =>
        Asked' = [r \in Request |-> IF Asked[r] = [of |-> c, state |-> "pending"]
                                    THEN [of |-> c, state |-> "settled"] ELSE Asked[r]]
  <2> SUFFICES ASSUME Settles(t), NEW r \in Request
               PROVE  Asked'[r] = IF Asked[r] = [of |-> c, state |-> "pending"]
                                  THEN [of |-> c, state |-> "settled"] ELSE Asked[r]
    BY DEF Asked
  <2>1. Asked[r] = [of |-> c, state |-> "pending"] <=> r \in Pending(c)
    BY DEF Asked, Pending
  <2> QED
    BY <2>1 DEF Asked, Pending
<1>5. CASE ShownAs(s) = ShownAs(t) /\ ShownAs(s) # "up"
  <2>1. Line' = Line
    BY <1>2, <1>5 DEF Line
  <2>2. Asked' = Asked
    BY <1>3, <1>5 DEF ShownAs
  <2> QED
    BY <1>1, <2>1, <2>2 DEF Lines!vars, Line, Asked
<1>6. CASE ShownAs(s) = "dialling" /\ t \in {"connected", "error", "disconnected"}
  <2>1. ShownAs(t) \in {"up", "refused", "down"}
    BY <1>6 DEF ShownAs
  <2>2. Asked' = Asked
    BY <1>3, <1>6 DEF ShownAs
  <2>3. Lines!Settle(c)
    BY <1>2, <1>6, <2>1, <2>2 DEF Lines!Settle, Line, Asked
  <2>4. Lines!Next
    BY <2>3, LineSteps
  <2> QED
    BY <1>1, <2>4
<1>7. CASE s \in {"connected", "error"} /\ t \in {"reconnecting", "disconnected"}
  <2>1. ShownAs(s) \in {"up", "refused"} /\ ShownAs(t) \in {"dialling", "down"} /\ Settles(t)
    BY <1>7 DEF ShownAs, Settles
  <2>2. Lines!RejectOn(c)
    BY <1>4, <2>1 DEF Lines!RejectOn, Asked
  <2>3. Lines!Lose(c)
    BY <1>2, <2>1, <2>2 DEF Lines!Lose, Line
  <2>4. Lines!Next
    BY <2>3, LineSteps
  <2> QED
    BY <1>1, <2>4
<1> QED
  BY <1>5, <1>6, <1>7

(* A client that dials is shown as dialling, or gave up.                      *)
LEMMA DialShows ==
  ASSUME TypeOK, NEW c \in Client, NEW x \in ClientState, x.timers = 0, ~x.shut, Dial(c, x)
  PROVE  /\ client' \in [Client -> ClientState]
         /\ \A d \in Client \ {c} : client'[d] = client[d]
         /\ client'[c].status \in {"connecting", "reconnecting", "disconnected"}
         /\ client'[c].timers > 0 => client'[c].status = "reconnecting"
         /\ \A r \in Request : r \notin Pending(c) =>
              request'[r].of = request[r].of /\ request'[r].state = request[r].state
         /\ client'[c].status # "disconnected" \/ socket' = socket
<1>1. /\ client' \in [Client -> ClientState]
      /\ \A d \in Client \ {c} : client'[d] = client[d]
      /\ \A r \in Request : r \notin Pending(c) =>
           request'[r].of = request[r].of /\ request'[r].state = request[r].state
  BY DialDoes
<1>2. \/ /\ client'[c].timers = 0
         /\ client'[c].status \in {"connecting", "reconnecting"}
      \/ /\ socket' = socket
         /\ \/ client'[c].status = "disconnected" /\ client'[c].timers = 0
            \/ client'[c].status = "reconnecting"
  BY DialDoes
<1> QED
  BY <1>1, <1>2

(* The client of a new effect is a new line.                                  *)
LEMMA MountMeets ==
  ASSUME IInv, LineInv, NEW c \in Client, Mount(c)
  PROVE  LineInv' /\ [Lines!Next]_(Lines!vars)
<1>1. TypeOK /\ OthersRest /\ HeardIsMine /\ PendingIsSent
  BY DEF IInv
<1>2. /\ mounted = None /\ mounted' = c /\ c \notin born /\ born' = born \union {c}
      /\ Dial(c, NewClient)
  BY DEF Mount
<1>3. NewClient \in ClientState /\ NewClient.timers = 0 /\ ~NewClient.shut
  BY DEF NewClient, ClientState, Status
<1>4. /\ client' \in [Client -> ClientState]
      /\ \A d \in Client \ {c} : client'[d] = client[d]
      /\ client'[c].status \in {"connecting", "reconnecting", "disconnected"}
      /\ client'[c].timers > 0 => client'[c].status = "reconnecting"
  BY <1>1, <1>2, <1>3, DialShows
<1>5. \A r \in Request : r \notin Pending(c)
  BY <1>1, <1>2 DEF PendingIsSent, Pending
<1>6. \A r \in Request : request'[r].of = request[r].of /\ request'[r].state = request[r].state
  BY <1>1, <1>2, <1>3, <1>5, DialShows
<1>7. \A k \in Socket : Heard(k)' => client'[c].status # "disconnected"
  <2>1. \A k \in Socket : ~Heard(k)
    BY <1>1, <1>2 DEF HeardIsMine
  <2>2. \/ client'[c].status # "disconnected"
        \/ socket' = socket
    BY <1>1, <1>2, <1>3, DialShows
  <2> QED
    BY <2>1, <2>2 DEF Heard
<1>8. LineInv'
  <2>1. BornFirst' /\ DownIsLost'
    BY <1>2, <1>7 DEF BornFirst, DownIsLost
  <2>2. TimerWaits'
    BY <1>1, <1>2, <1>4 DEF TimerWaits, OthersRest
  <2>3. PendingIsUp'
    BY <1>1, <1>2, <1>6 DEF PendingIsUp, PendingIsSent
  <2> QED
    BY <2>1, <2>2, <2>3 DEF LineInv
<1>9. Line[c] = "new" /\ Line' = [Line EXCEPT ![c] = ShownAs(client'[c].status)]
      /\ \A d \in Client : Line[d] \in {"new", "closed"}
  BY <1>2 DEF Line, Shown
<1>10. Asked' = Asked
  BY <1>6 DEF Asked
<1>11. ShownAs(client'[c].status) \in {"dialling", "down"}
  BY <1>4 DEF ShownAs
<1>12. Lines!Open(c)
  BY <1>9, <1>10, <1>11 DEF Lines!Open, Lines!InUse, Line, Asked
<1>13. Lines!Next
  BY <1>12, LineSteps
<1> QED
  BY <1>8, <1>13

(* Its clean-up closes the line.                                              *)
LEMMA UnmountMeets ==
  ASSUME IInv, LineInv, NEW c \in Client, Unmount(c)
  PROVE  LineInv' /\ [Lines!Next]_(Lines!vars)
<1>1. mounted = c /\ mounted' = None /\ born' = born /\ c \in born
  BY DEF Unmount, LineInv, BornFirst
<1>2. /\ client'[c].timers = 0
      /\ \A d \in Client \ {c} : client'[d] = client[d]
      /\ \A r \in Request :
           /\ request'[r].of = request[r].of
           /\ request'[r].state = IF r \in Pending(c) THEN "settled" ELSE request[r].state
      /\ \A j \in Socket :
           /\ j # client[c].ws => socket'[j] = socket[j]
           /\ j = client[c].ws => ~socket'[j].heard
  BY UnmountDoes
<1>3. LineInv'
  <2>1. TimerWaits'
    BY <1>2 DEF LineInv, TimerWaits
  <2>2. ASSUME NEW r \in Request PROVE request'[r].state # "pending"
    BY <1>1, <1>2 DEF IInv, PendingIsSent, Pending
  <2>3. ASSUME NEW k \in Socket PROVE ~Heard(k)'
    BY <1>1, <1>2 DEF IInv, HeardIsMine, Heard
  <2> QED
    BY <1>1, <2>1, <2>2, <2>3 DEF LineInv, BornFirst, PendingIsUp, DownIsLost
<1>4. Line' = [Line EXCEPT ![c] = "closed"] /\ Line[c] \notin {"new", "closed"}
  BY <1>1 DEF Line, Shown, ShownAs
<1>5. Lines!RejectOn(c)
  <2>1. ASSUME NEW r \in Request
        PROVE  /\ Asked[r] = [of |-> c, state |-> "pending"] <=> r \in Pending(c)
               /\ Asked'[r] = IF r \in Pending(c) THEN [of |-> c, state |-> "settled"]
                              ELSE Asked[r]
    BY <1>2 DEF Asked, Pending
  <2>2. Asked' = [r \in Request |-> IF Asked[r] = [of |-> c, state |-> "pending"]
                                    THEN [of |-> c, state |-> "settled"] ELSE Asked[r]]
    BY <2>1 DEF Asked
  <2> QED
    BY <2>2 DEF Lines!RejectOn, Asked
<1>6. Lines!Close(c)
  BY <1>4, <1>5 DEF Lines!Close, Lines!InUse, Line
<1>7. Lines!Next
  BY <1>6, LineSteps
<1> QED
  BY <1>3, <1>7

(* The timer dials again.                                                     *)
LEMMA TimerMeets ==
  ASSUME IInv, LineInv, NEW c \in Client, TimerFires(c)
  PROVE  LineInv' /\ [Lines!Next]_(Lines!vars)
<1>1. TypeOK /\ OthersRest /\ HeardIsMine /\ OneTimer /\ PendingIsSent
  BY DEF IInv
<1>2. client[c] \in ClientState /\ client[c].timers > 0
  BY <1>1 DEF TypeOK, ClientState, TimerFires
<1>3. c = mounted /\ client[c].timers = 1 /\ ~client[c].shut
      /\ client[c].status = "reconnecting"
  BY <1>1, <1>2 DEF OthersRest, OneTimer, LineInv, TimerWaits
<1>4. \A k \in Socket : ~Heard(k)
  BY <1>1, <1>3 DEF HeardIsMine
<1>5. \A r \in Request : r \notin Pending(c)
  BY <1>1, <1>4 DEF PendingIsSent, Pending, TypeOK
<1> DEFINE x == [client[c] EXCEPT !.timers = @ - 1]
<1>6. x \in ClientState /\ x.timers = 0 /\ ~x.shut
  BY <1>2, <1>3 DEF ClientState
<1>7. Dial(c, x) /\ UNCHANGED <<mounted, born>>
  BY DEF TimerFires
<1> HIDE DEF x
<1>8. /\ client' \in [Client -> ClientState]
      /\ \A d \in Client \ {c} : client'[d] = client[d]
      /\ client'[c].status \in {"connecting", "reconnecting", "disconnected"}
      /\ client'[c].timers > 0 => client'[c].status = "reconnecting"
      /\ \A r \in Request : r \notin Pending(c) =>
           request'[r].of = request[r].of /\ request'[r].state = request[r].state
  BY <1>1, <1>6, <1>7, DialShows
<1>9. \A k \in Socket : Heard(k)' => client'[c].status # "disconnected"
  <2>1. \/ client'[c].status # "disconnected"
        \/ socket' = socket
    BY <1>1, <1>6, <1>7, DialShows
  <2> QED
    BY <1>4, <2>1 DEF Heard
<1>10. ShownAs(client[c].status) = "dialling"
  BY <1>3 DEF ShownAs
<1>11. ShownAs(client'[c].status) = "dialling" \/ client'[c].status = "disconnected"
  BY <1>8 DEF ShownAs
<1> QED
  BY <1>3, <1>5, <1>7, <1>8, <1>9, <1>10, <1>11, StatusMoves

(* A socket that opens, begins to close, is challenged or goes unheard.       *)
LEMMA SocketMeets ==
  ASSUME IInv, LineInv, NEW k \in Socket,
         \/ Opens(k) \/ Closing(k) \/ Challenge(k)
         \/ Closes(k) /\ ~socket[k].heard
  PROVE  LineInv' /\ [Lines!Next]_(Lines!vars)
<1>1. UNCHANGED <<mounted, born, client, request>>
  BY DEF Opens, Closing, Challenge, Closes
<1>2. ASSUME NEW j \in Socket, Heard(j)' PROVE Heard(j)
  <2>1. socket \in [Socket -> SocketState]
    BY DEF IInv, TypeOK, SocketState
  <2>2. CASE Challenge(k)
    <3>1. client[socket[k].of].ws = k
      BY <2>2, OpenIsMine DEF Challenge
    <3>2. socket' = [socket EXCEPT ![k].step = "asked"]
      BY <2>2, <3>1 DEF Challenge
    <3> QED
      BY <1>2, <2>1, <3>2 DEF Heard, SocketState
  <2>3. CASE ~Challenge(k)
    BY <1>2, <2>1, <2>3 DEF Heard, SocketState, Opens, Closing, Closes
  <2> QED
    BY <2>2, <2>3
<1>3. LineInv'
  BY <1>1, <1>2 DEF LineInv, BornFirst, TimerWaits, PendingIsUp, DownIsLost
<1>4. UNCHANGED Lines!vars
  BY <1>1, NothingSeen
<1> QED
  BY <1>3, <1>4

(* The end of the heard socket: the line is lost, or dialled once more, or    *)
(* was down already.                                                          *)
LEMMA HeardCloseMeets ==
  ASSUME IInv, LineInv, NEW k \in Socket, Closes(k), socket[k].heard
  PROVE  LineInv' /\ [Lines!Next]_(Lines!vars)
<1>1. TypeOK /\ HeardIsMine /\ ShutStaysDown /\ Heard(k)
  BY DEF IInv, Heard, Closes
<1>2. PICK c \in Client : mounted = c
  BY <1>1 DEF HeardIsMine, TypeOK
<1>3. socket[k].of = c /\ client[c].ws = k /\ client[c].timers = 0
  BY <1>1, <1>2 DEF HeardIsMine
<1> DEFINE x == Scheduled(client[c])
<1>4. client[c] \in ClientState
  BY <1>1 DEF TypeOK, ClientState
<1>5. /\ x \in ClientState
      /\ client[c].shut => x = client[c] /\ x.status = "disconnected"
      /\ ~client[c].shut => \/ x.status = "disconnected" /\ x.timers = 0
                            \/ x.status = "reconnecting"
  BY <1>1, <1>3, <1>4, ScheduledDoes DEF ShutStaysDown
<1>6. Become(c, x) /\ UNCHANGED <<mounted, born>>
  BY <1>3 DEF Closes
<1> HIDE DEF x
<1>7. /\ client' \in [Client -> ClientState] /\ client'[c] = x
      /\ \A d \in Client \ {c} : client'[d] = client[d]
      /\ \A r \in Request :
           /\ request'[r].of = request[r].of
           /\ request'[r].state = IF r \in Pending(c) /\ Settles(x.status)
                                  THEN "settled" ELSE request[r].state
  BY <1>1, <1>5, <1>6, BecomeDoes
<1>8. ASSUME NEW j \in Socket PROVE ~Heard(j)'
  <2>1. socket \in [Socket -> SocketState] /\ socket' = [socket EXCEPT ![k].state = "gone"]
    BY <1>1 DEF Closes, TypeOK, SocketState
  <2>2. j # k => ~Heard(j)
    BY <1>1, <1>2, <1>3 DEF HeardIsMine
  <2> QED
    BY <2>1, <2>2 DEF Heard, SocketState
<1>9. x.timers > 0 => x.status = "reconnecting"
  BY <1>3, <1>5
<1>10. client[c].status = "disconnected" => x.status = "disconnected"
  BY <1>1, <1>2, <1>5 DEF LineInv, DownIsLost
<1>11. client[c].status \in Status
  BY <1>4 DEF ClientState
<1>12. \/ ShownAs(client[c].status) = ShownAs(x.status)
          /\ ShownAs(client[c].status) # "up"
       \/ ShownAs(client[c].status) = "dialling" /\ x.status = "disconnected"
       \/ /\ client[c].status \in {"connected", "error"}
          /\ x.status \in {"reconnecting", "disconnected"}
  BY <1>5, <1>10, <1>11 DEF ShownAs, Status
<1> QED
  BY <1>2, <1>6, <1>7, <1>8, <1>9, <1>12, StatusMoves

(* The verdict of the gateway: the line was being dialled, and is up or was   *)
(* refused.                                                                   *)
LEMMA VerdictMeets ==
  ASSUME IInv, LineInv, NEW c \in Client, mounted = c, NEW k \in Socket,
         socket[k].state = "open", socket[k].step = "asked",
         NEW step \in {"greeted", "refused"}, socket' = [socket EXCEPT ![k].step = step],
         NEW x \in ClientState, Become(c, x), x.timers = 0,
         x.status \in {"connected", "error"}, UNCHANGED <<mounted, born>>
  PROVE  LineInv' /\ [Lines!Next]_(Lines!vars)
<1>1. TypeOK /\ ShutStaysDown /\ StatusIsTrue
  BY DEF IInv
<1>2. client[c].ws = k /\ Heard(k) /\ client[c] \in ClientState
  BY <1>1, OpenIsMine DEF TypeOK, ClientState
<1>3. client[c].status \in {"connecting", "reconnecting"}
  <2>1. ~client[c].shut
    BY <1>1, <1>2 DEF ShutStaysDown
  <2>2. client[c].status # "disconnected"
    BY <1>2, <2>1 DEF LineInv, DownIsLost
  <2>3. client[c].status \notin {"connected", "error"}
    BY <1>1, <1>2 DEF StatusIsTrue
  <2> QED
    BY <1>2, <2>2, <2>3 DEF ClientState, Status
<1>4. /\ client' \in [Client -> ClientState] /\ client'[c] = x
      /\ \A d \in Client \ {c} : client'[d] = client[d]
      /\ \A r \in Request :
           /\ request'[r].of = request[r].of
           /\ request'[r].state = IF r \in Pending(c) /\ Settles(x.status)
                                  THEN "settled" ELSE request[r].state
  BY <1>1, BecomeDoes
<1>5. ShownAs(client[c].status) = "dialling"
  BY <1>3 DEF ShownAs
<1> QED
  BY <1>4, <1>5, StatusMoves

LEMMA HelloMeets ==
  ASSUME IInv, LineInv, NEW k \in Socket, Hello(k)
  PROVE  LineInv' /\ [Lines!Next]_(Lines!vars)
<1>1. PICK c \in Client : mounted = c
  BY OpenIsMine DEF Hello
<1>2. socket[k].of = c /\ client[c].timers = 0
  BY <1>1, OpenIsMine DEF Hello
<1> DEFINE x == [client[c] EXCEPT !.attempt = 0, !.status = "connected"]
<1>3. client[c] \in ClientState
  BY DEF IInv, TypeOK, ClientState
<1>4. x \in ClientState /\ x.timers = 0 /\ x.status = "connected"
  BY <1>2, <1>3, ConnectedDoes
<1>5. Become(c, x)
  BY <1>2 DEF Hello
<1> HIDE DEF x
<1> QED
  BY <1>1, <1>4, <1>5, VerdictMeets DEF Hello

LEMMA RefuseMeets ==
  ASSUME IInv, LineInv, NEW k \in Socket, Refuse(k)
  PROVE  LineInv' /\ [Lines!Next]_(Lines!vars)
<1>1. PICK c \in Client : mounted = c
  BY OpenIsMine DEF Refuse
<1>2. socket[k].of = c /\ client[c].timers = 0
  BY <1>1, OpenIsMine DEF Refuse
<1> DEFINE x == [client[c] EXCEPT !.status = "error"]
<1>3. client[c] \in ClientState
  BY DEF IInv, TypeOK, ClientState
<1>4. x \in ClientState /\ x.timers = 0 /\ x.status = "error"
  <2>1. x = [ws |-> client[c].ws, status |-> "error", shut |-> client[c].shut,
             attempt |-> client[c].attempt, timers |-> client[c].timers]
    BY <1>3 DEF ClientState
  <2> QED
    BY <1>2, <1>3, <2>1 DEF ClientState, Status
<1>5. Become(c, x)
  BY <1>2 DEF Refuse
<1> HIDE DEF x
<1> QED
  BY <1>1, <1>4, <1>5, VerdictMeets DEF Refuse

(* A shutdown takes the line down, whatever it was.                           *)
LEMMA ShutdownMeets ==
  ASSUME IInv, LineInv, NEW k \in Socket, Shutdown(k)
  PROVE  LineInv' /\ [Lines!Next]_(Lines!vars)
<1>1. TypeOK
  BY DEF IInv
<1>2. PICK c \in Client : mounted = c
  BY OpenIsMine DEF Shutdown
<1>3. socket[k].of = c /\ client[c].timers = 0
  BY <1>2, OpenIsMine DEF Shutdown
<1> DEFINE y == Cleared(client[c])
           x == [y EXCEPT !.shut = TRUE, !.status = "disconnected"]
<1>4. client[c] \in ClientState
  BY <1>1 DEF TypeOK, ClientState
<1>5. y \in ClientState /\ y.timers = 0
  BY <1>3, <1>4, ClearedDoes
<1> HIDE DEF y
<1>6. x \in ClientState /\ x.timers = 0 /\ x.status = "disconnected" /\ x.shut
  BY <1>5 DEF ClientState, Status
<1>7. Become(c, x) /\ UNCHANGED <<mounted, born>>
  BY <1>3 DEF Shutdown, y
<1> HIDE DEF x
<1>8. /\ client' \in [Client -> ClientState] /\ client'[c] = x
      /\ \A d \in Client \ {c} : client'[d] = client[d]
      /\ \A r \in Request :
           /\ request'[r].of = request[r].of
           /\ request'[r].state = IF r \in Pending(c) /\ Settles(x.status)
                                  THEN "settled" ELSE request[r].state
  BY <1>1, <1>6, <1>7, BecomeDoes
<1>9. \/ ShownAs(client[c].status) = ShownAs(x.status)
         /\ ShownAs(client[c].status) # "up"
      \/ ShownAs(client[c].status) = "dialling"
      \/ client[c].status \in {"connected", "error"}
  BY <1>4, <1>6 DEF ShownAs, ClientState, Status
<1> QED
  BY <1>2, <1>6, <1>7, <1>8, <1>9, StatusMoves

(* An answer settles the request that waits for it, or comes too late.        *)
LEMMA SettlingMeets ==
  ASSUME IInv, LineInv, NEW r \in Request, UNCHANGED <<mounted, born, client>>,
         \A k \in Socket : Heard(k)' => Heard(k),
         request[r].state # "none", request'[r].of = request[r].of,
         request'[r].state = "settled",
         \A q \in Request \ {r} : request'[q] = request[q]
  PROVE  LineInv' /\ [Lines!Next]_(Lines!vars)
<1>1. LineInv'
  BY DEF LineInv, BornFirst, TimerWaits, PendingIsUp, DownIsLost
<1>2. request[r].state \in {"pending", "settled"}
  BY DEF IInv, TypeOK
<1>3. CASE request[r].state = "settled"
  BY <1>1, <1>3, NothingSeen
<1>4. CASE request[r].state = "pending"
  <2>1. Line' = Line
    BY DEF Line, Shown
  <2>2. Asked' = [Asked EXCEPT ![r].state = "settled"] /\ Asked[r].state = "pending"
    BY <1>4 DEF Asked
  <2>3. Lines!Answer(r)
    BY <2>1, <2>2 DEF Lines!Answer, Line, Asked
  <2>4. Lines!Next
    BY <2>3 DEF Lines!Next
  <2> QED
    BY <1>1, <2>4
<1> QED
  BY <1>2, <1>3, <1>4

LEMMA AnswerMeets ==
  ASSUME IInv, LineInv, NEW k \in Socket, NEW r \in Request, NEW ok \in BOOLEAN,
         Answer(k, r, ok)
  PROVE  LineInv' /\ [Lines!Next]_(Lines!vars)
<1>1. request[r].handler /\ request[r].state # "none"
  BY DEF IInv, SentOnce, Answer
<1>2. UNCHANGED <<mounted, born, client>>
      /\ request' = [request EXCEPT ![r].handler = FALSE, ![r].state = "settled"]
      /\ socket' = [socket EXCEPT ![k].sent = @ \ {r}]
  BY <1>1 DEF Answer
<1>3. request \in [Request -> RequestState] /\ socket \in [Socket -> SocketState]
  BY DEF IInv, TypeOK, RequestState, SocketState
<1>4. \A j \in Socket : Heard(j)' => Heard(j)
  BY <1>2, <1>3 DEF Heard, SocketState
<1>5. /\ request'[r].of = request[r].of /\ request'[r].state = "settled"
      /\ \A q \in Request \ {r} : request'[q] = request[q]
  BY <1>2, <1>3 DEF RequestState
<1> QED
  BY <1>1, <1>2, <1>4, <1>5, SettlingMeets

LEMMA TimesOutMeets ==
  ASSUME IInv, LineInv, NEW r \in Request, TimesOut(r)
  PROVE  LineInv' /\ [Lines!Next]_(Lines!vars)
<1>1. UNCHANGED <<mounted, born, client, socket>> /\ request[r].state = "pending"
      /\ request' = [request EXCEPT ![r].state = "settled"]
  BY DEF TimesOut
<1>2. request \in [Request -> RequestState]
  BY DEF IInv, TypeOK, RequestState
<1>3. /\ request'[r].of = request[r].of /\ request'[r].state = "settled"
      /\ \A q \in Request \ {r} : request'[q] = request[q]
  BY <1>1, <1>2 DEF RequestState
<1>4. \A j \in Socket : Heard(j)' => Heard(j)
  BY <1>1 DEF Heard
<1> QED
  BY <1>1, <1>3, <1>4, SettlingMeets

(* A call waits only on the line in use, and only while that is up: a client  *)
(* whose effect is over, which the adapter may still be, is not connected.    *)
LEMMA CallMeets ==
  ASSUME IInv, LineInv, NEW r \in Request, NEW c \in Client, Call(r, c)
  PROVE  LineInv' /\ [Lines!Next]_(Lines!vars)
<1>1. UNCHANGED <<mounted, born, client>> /\ request[r].state = "none"
      /\ request \in [Request -> RequestState] /\ socket \in [Socket -> SocketState]
  BY DEF Call, IInv, TypeOK, RequestState, SocketState
<1>2. Line' = Line /\ Asked[r].state = "none"
  BY <1>1 DEF Line, Shown, Asked
<1>3. \A k \in Socket : Heard(k)' => Heard(k)
  BY <1>1 DEF Heard, Call, SocketState
<1>4. CASE Connected(c)
  <2>1. c = mounted /\ client[c].status = "connected"
    BY <1>4 DEF Connected, IInv, OthersRest
  <2>2. request' = [request EXCEPT ![r] = [of |-> c, state |-> "pending", handler |-> TRUE]]
    BY <1>4 DEF Call
  <2>3. LineInv'
    BY <1>1, <1>3, <2>1, <2>2 DEF LineInv, BornFirst, TimerWaits, PendingIsUp, DownIsLost
  <2>4. Asked' = [Asked EXCEPT ![r] = [of |-> c, state |-> "pending"]]
    <3>1. request'[r].of = c /\ request'[r].state = "pending"
          /\ \A q \in Request \ {r} : request'[q] = request[q]
      BY <1>1, <2>2
    <3> QED
      BY <3>1 DEF Asked
  <2>5. Line[c] = "up"
    BY <2>1 DEF Line, Shown, ShownAs
  <2>6. Lines!Ask(r, c)
    BY <1>2, <2>4, <2>5 DEF Lines!Ask, Line, Asked
  <2>7. Lines!Next
    BY <2>6, RequestSteps
  <2> QED
    BY <2>3, <2>7
<1>5. CASE ~Connected(c)
  <2>1. request' = [request EXCEPT ![r] = [of |-> c, state |-> "settled", handler |-> FALSE]]
    BY <1>5 DEF Call
  <2>2. LineInv'
    BY <1>1, <1>3, <2>1 DEF LineInv, BornFirst, TimerWaits, PendingIsUp, DownIsLost
  <2>3. Asked' = [Asked EXCEPT ![r] = [of |-> c, state |-> "settled"]]
    <3>1. request'[r].of = c /\ request'[r].state = "settled"
          /\ \A q \in Request \ {r} : request'[q] = request[q]
      BY <1>1, <2>1
    <3> QED
      BY <3>1 DEF Asked
  <2>4. Lines!Ask(r, c)
    BY <1>2, <2>3 DEF Lines!Ask, Line, Asked
  <2>5. Lines!Next
    BY <2>4, RequestSteps
  <2> QED
    BY <2>2, <2>5
<1> QED
  BY <1>4, <1>5

LEMMA NextMeets == IInv /\ LineInv /\ [Next]_vars => LineInv' /\ [Lines!Next]_(Lines!vars)
<1> SUFFICES ASSUME IInv, LineInv, [Next]_vars PROVE LineInv' /\ [Lines!Next]_(Lines!vars)
  OBVIOUS
<1>1. ASSUME NEW c \in Client, Mount(c) \/ Unmount(c) \/ TimerFires(c)
      PROVE  LineInv' /\ [Lines!Next]_(Lines!vars)
  BY <1>1, MountMeets, UnmountMeets, TimerMeets
<1>2. ASSUME NEW k \in Socket, Network(k)
      PROVE  LineInv' /\ [Lines!Next]_(Lines!vars)
  BY <1>2, SocketMeets, HeardCloseMeets, HelloMeets, RefuseMeets, ShutdownMeets DEF Network
<1>3. ASSUME NEW k \in Socket, NEW r \in Request, NEW ok \in BOOLEAN, Answer(k, r, ok)
      PROVE  LineInv' /\ [Lines!Next]_(Lines!vars)
  BY <1>3, AnswerMeets
<1>4. ASSUME NEW r \in Request, TimesOut(r)
      PROVE  LineInv' /\ [Lines!Next]_(Lines!vars)
  BY <1>4, TimesOutMeets
<1>5. ASSUME NEW r \in Request, NEW c \in Client, Call(r, c)
      PROVE  LineInv' /\ [Lines!Next]_(Lines!vars)
  BY <1>5, CallMeets
<1>6. CASE UNCHANGED vars
  <2>1. LineInv'
    BY <1>6 DEF vars, LineInv, BornFirst, TimerWaits, PendingIsUp, DownIsLost, Heard
  <2>2. UNCHANGED Lines!vars
    BY <1>6, NothingSeen DEF vars
  <2> QED
    BY <2>1, <2>2
<1> QED
  BY <1>1, <1>2, <1>3, <1>4, <1>5, <1>6 DEF Next

(* However sockets fail, timers fire, answers come late and effects run       *)
(* again, the pages see one line at a time: it is up only by a greeting, what *)
(* waits on it is rejected in the step in which it is lost, and after a       *)
(* shutdown or the last attempt it stays down.                                *)
THEOREM ClientIsALine == Spec => ImplementsLine
<1>1. Spec => []LineInv
  BY Invariant, InitLineInv, NextMeets, PTL DEF Spec
<1>2. Spec => Lines!Init /\ [][Lines!Next]_(Lines!vars)
  BY <1>1, Invariant, InitIsALine, NextMeets, PTL DEF Spec
<1> QED
  BY <1>2 DEF ImplementsLine, Lines!Spec
=============================================================================
