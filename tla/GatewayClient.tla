--------------------------- MODULE GatewayClient ---------------------------
(* The office's connection to the gateway: gateway/ws-client.ts,              *)
(* gateway/rpc-client.ts, gateway/adapter-provider.ts and the effect of       *)
(* hooks/useGatewayConnection.ts that creates a client for each url and       *)
(* token.                                                                     *)
(*                                                                            *)
(* The page is one thread: every handler is one step.  Sockets open, close    *)
(* and fail, timers fire and the effect runs again in between.  The gateway   *)
(* is external: it sends a challenge, greets or refuses, answers requests,    *)
(* announces a shutdown.  Other events only go to the store.                  *)
EXTENDS Naturals, FiniteSets

CONSTANTS
  Client,        \* the clients of successive effects
  Socket,        \* bound: sockets at one time
  Request,       \* bound: calls of GatewayRpcClient.request
  MaxAttempts,   \* MAX_RECONNECT_ATTEMPTS
  None

ASSUME NoneAssumption == None \notin Client /\ None \notin Socket
ASSUME AttemptsAssumption == MaxAttempts \in Nat

VARIABLES
  mounted,   \* the client of the effect in force, or None
  born,      \* the clients there have been
  client,    \* Client -> what it remembers
  socket,    \* Socket -> what the browser knows of it
  request,   \* Request -> the promise
  adapter    \* the client that getAdapter's adapter uses, or None

vars == <<mounted, born, client, socket, request, adapter>>

Status == {"connecting", "connected", "reconnecting", "disconnected", "error"}

TypeOK ==
  /\ mounted \in Client \union {None}
  /\ born \subseteq Client
  /\ client \in [Client -> [ws : Socket \union {None}, status : Status,
                            shut : BOOLEAN,             \* shutdownReceived
                            attempt : 0..MaxAttempts,   \* reconnectAttempt
                            timers : Nat]]              \* reconnect timers running
  /\ socket \in [Socket -> [of : Client \union {None},
                            state : {"connecting", "open", "closing", "gone"},
                            heard : BOOLEAN,            \* handleClose listens
                            step : {"silent", "asked", "greeted", "refused"},
                            sent : SUBSET Request]]     \* and not answered
  /\ request \in [Request -> [of : Client \union {None},
                              state : {"none", "pending", "settled"},
                              handler : BOOLEAN]]       \* in responseHandlers
  /\ adapter \in Client \union {None}

NewClient == [ws |-> None, status |-> "disconnected", shut |-> FALSE,
              attempt |-> 0, timers |-> 0]
GoneSocket == [of |-> None, state |-> "gone", heard |-> FALSE, step |-> "silent",
               sent |-> {}]

Init ==
  /\ mounted = None /\ born = {} /\ adapter = None
  /\ client = [c \in Client |-> NewClient]
  /\ socket = [k \in Socket |-> GoneSocket]
  /\ request = [r \in Request |-> [of |-> None, state |-> "none", handler |-> FALSE]]

Live(c) == {k \in Socket : socket[k].of = c /\ socket[k].state \in {"connecting", "open"}}
Pending(c) == {r \in Request : request[r].of = c /\ request[r].state = "pending"}

----------------------------------------------------------------------------
(* A client becomes x; the listener of the rpc client rejects what is         *)
(* pending when the status says that the connection is gone.                  *)
(* Mutant of Settles: requests wait while the client reconnects.              *)
SettlesLate(status) == status = "disconnected"

Settles(status) == status \in {"disconnected", "reconnecting"}

Become(c, x) ==
  /\ client' = [client EXCEPT ![c] = x]
  /\ request' = [r \in Request |-> IF r \in Pending(c) /\ Settles(x.status)
                                   THEN [request[r] EXCEPT !.state = "settled"]
                                   ELSE request[r]]

(* Mutant of Scheduled: also after a shutdown.                                *)
ScheduledAnyway(x) ==
  IF x.attempt >= MaxAttempts THEN [x EXCEPT !.status = "disconnected"]
  ELSE [x EXCEPT !.status = "reconnecting", !.attempt = @ + 1, !.timers = @ + 1]

(* scheduleReconnect and clearReconnectTimer.                                 *)
Scheduled(x) ==
  IF x.shut THEN x
  ELSE IF x.attempt >= MaxAttempts THEN [x EXCEPT !.status = "disconnected"]
  ELSE [x EXCEPT !.status = "reconnecting", !.attempt = @ + 1, !.timers = @ + 1]

Cleared(x) == [x EXCEPT !.timers = IF @ = 0 THEN 0 ELSE @ - 1]

(* Mutant of Dial: the constructor throws and nothing is scheduled.           *)
DialOnce(c, x) ==
  LET y == [x EXCEPT !.status = IF x.attempt > 0 THEN "reconnecting" ELSE "connecting"] IN
  \/ \E k \in Socket :
       /\ socket[k].state = "gone"
       /\ socket' = [socket EXCEPT ![k] = [of |-> c, state |-> "connecting",
                                           heard |-> TRUE, step |-> "silent",
                                           sent |-> {}]]
       /\ Become(c, [y EXCEPT !.ws = k])
  \/ UNCHANGED socket /\ Become(c, y)

(* doConnect: a new socket, or the constructor throws.                        *)
Dial(c, x) ==
  LET y == [x EXCEPT !.status = IF x.attempt > 0 THEN "reconnecting" ELSE "connecting"] IN
  \/ \E k \in Socket :
       /\ socket[k].state = "gone"
       /\ socket' = [socket EXCEPT ![k] = [of |-> c, state |-> "connecting",
                                           heard |-> TRUE, step |-> "silent",
                                           sent |-> {}]]
       /\ Become(c, [y EXCEPT !.ws = k])
  \/ UNCHANGED socket /\ Become(c, Scheduled(y))

----------------------------------------------------------------------------
(* The effect runs for a url and a token, and is cleaned up.                  *)
Mount(c) ==
  /\ mounted = None /\ c \notin born
  /\ mounted' = c /\ born' = born \union {c}
  /\ Dial(c, NewClient)
  /\ UNCHANGED adapter

(* Mutant of Unmount: the reconnect timer is not cleared.                     *)
UnmountWhileWaiting(c) ==
  /\ mounted = c
  /\ mounted' = None
  /\ LET k == client[c].ws IN
     socket' = [j \in Socket |->
                  IF j # k THEN socket[j]
                  ELSE [socket[k] EXCEPT !.heard = FALSE,
                                         !.state = IF @ = "gone" THEN @ ELSE "closing"]]
  /\ Become(c, [client[c] EXCEPT !.shut = TRUE, !.ws = None, !.status = "disconnected"])
  /\ UNCHANGED <<born, adapter>>

Unmount(c) ==
  /\ mounted = c
  /\ mounted' = None
  /\ LET k == client[c].ws IN
     socket' = [j \in Socket |->
                  IF j # k THEN socket[j]
                  ELSE [socket[k] EXCEPT !.heard = FALSE,
                                         !.state = IF @ = "gone" THEN @ ELSE "closing"]]
  /\ Become(c, [Cleared(client[c]) EXCEPT !.shut = TRUE, !.ws = None,
                                          !.status = "disconnected"])
  /\ UNCHANGED <<born, adapter>>

TimerFires(c) ==
  /\ client[c].timers > 0
  /\ Dial(c, [client[c] EXCEPT !.timers = @ - 1])
  /\ UNCHANGED <<mounted, born, adapter>>

----------------------------------------------------------------------------
(* Mutant of Opens: an open socket counts as a success.                       *)
OpensAndResets(k) ==
  /\ socket[k].state = "connecting"
  /\ socket' = [socket EXCEPT ![k].state = "open"]
  /\ client' = [client EXCEPT ![socket[k].of].attempt = 0]
  /\ UNCHANGED <<mounted, born, request, adapter>>

(* What the network does to a socket.                                         *)
Opens(k) ==
  /\ socket[k].state = "connecting"
  /\ socket' = [socket EXCEPT ![k].state = "open"]
  /\ UNCHANGED <<mounted, born, client, request, adapter>>

Closing(k) ==
  /\ socket[k].state = "open"
  /\ socket' = [socket EXCEPT ![k].state = "closing"]
  /\ UNCHANGED <<mounted, born, client, request, adapter>>

Closes(k) ==
  /\ socket[k].state # "gone"
  /\ socket' = [socket EXCEPT ![k].state = "gone"]
  /\ IF socket[k].heard
     THEN LET c == socket[k].of IN Become(c, Scheduled(client[c]))
     ELSE UNCHANGED <<client, request>>
  /\ UNCHANGED <<mounted, born, adapter>>

(* handleMessage, for the messages that change something.  It does not look   *)
(* which of the client's sockets the message came on.                         *)
Challenge(k) ==
  /\ socket[k].state = "open" /\ socket[k].step = "silent"
  /\ LET ws == client[socket[k].of].ws IN
     /\ ws # None /\ socket[ws].state = "open"
     /\ socket' = [socket EXCEPT ![ws].step = "asked"]
  /\ UNCHANGED <<mounted, born, client, request, adapter>>

(* handleConnectSuccess; the effect then makes the adapter, unless there is   *)
(* one.                                                                       *)
Hello(k) ==
  /\ socket[k].state = "open" /\ socket[k].step = "asked"
  /\ socket' = [socket EXCEPT ![k].step = "greeted"]
  /\ LET c == socket[k].of IN
     /\ Become(c, [client[c] EXCEPT !.attempt = 0, !.status = "connected"])
     /\ adapter' = IF adapter = None THEN c ELSE adapter
  /\ UNCHANGED <<mounted, born>>

Refuse(k) ==
  /\ socket[k].state = "open" /\ socket[k].step = "asked"
  /\ socket' = [socket EXCEPT ![k].step = "refused"]
  /\ LET c == socket[k].of IN Become(c, [client[c] EXCEPT !.status = "error"])
  /\ UNCHANGED <<mounted, born, adapter>>

Shutdown(k) ==
  /\ socket[k].state = "open" /\ socket[k].step = "greeted"
  /\ LET c == socket[k].of IN
     Become(c, [Cleared(client[c]) EXCEPT !.shut = TRUE, !.status = "disconnected"])
  /\ UNCHANGED <<mounted, born, socket, adapter>>

----------------------------------------------------------------------------
(* A page calls through the adapter, a poller through the mounted client.     *)
Connected(c) == /\ client[c].status = "connected" /\ client[c].ws # None
                /\ socket[client[c].ws].state = "open"

Call(r, c) ==
  /\ request[r].state = "none" /\ c \in {mounted, adapter} \ {None}
  /\ IF Connected(c)
     THEN /\ request' = [request EXCEPT ![r] = [of |-> c, state |-> "pending",
                                                handler |-> TRUE]]
          /\ socket' = [socket EXCEPT ![client[c].ws].sent = @ \union {r}]
     ELSE /\ request' = [request EXCEPT ![r] = [of |-> c, state |-> "settled",
                                                handler |-> FALSE]]
          /\ UNCHANGED socket
  /\ UNCHANGED <<mounted, born, client, adapter>>

(* A response finds the handler of its id, which stays when the request has   *)
(* timed out.  An error for no handler counts as a refusal.                   *)
Answer(k, r, ok) ==
  /\ socket[k].state = "open" /\ r \in socket[k].sent
  /\ socket' = [socket EXCEPT ![k].sent = @ \ {r}]
  /\ request' = [request EXCEPT ![r].handler = FALSE,
                                ![r].state = IF request[r].handler THEN "settled" ELSE @]
  /\ client' = IF request[r].handler \/ ok THEN client
               ELSE [client EXCEPT ![socket[k].of].status = "error"]
  /\ UNCHANGED <<mounted, born, adapter>>

(* Mutant of TimesOut: the handler of the response is removed as well.        *)
TimesOutUnheard(r) ==
  /\ request[r].state = "pending"
  /\ request' = [request EXCEPT ![r].state = "settled", ![r].handler = FALSE]
  /\ UNCHANGED <<mounted, born, client, socket, adapter>>

TimesOut(r) ==
  /\ request[r].state = "pending"
  /\ request' = [request EXCEPT ![r].state = "settled"]
  /\ UNCHANGED <<mounted, born, client, socket, adapter>>

----------------------------------------------------------------------------
Network(k) == \/ Opens(k) \/ Closing(k) \/ Closes(k)
              \/ Challenge(k) \/ Hello(k) \/ Refuse(k) \/ Shutdown(k)

Next ==
  \/ \E c \in Client : Mount(c) \/ Unmount(c) \/ TimerFires(c)
  \/ \E k \in Socket : Network(k) \/ \E r \in Request, ok \in BOOLEAN : Answer(k, r, ok)
  \/ \E r \in Request : TimesOut(r) \/ \E c \in Client : Call(r, c)

(* Timers fire.  A socket opens or fails, and one that is open and not        *)
(* greeted is challenged and greeted or refused, or closes in the end: the    *)
(* client itself has no deadline for the handshake.                           *)
Unsettled(k) == socket[k].step # "greeted" \/ socket[k].state = "closing"

Fairness ==
  /\ \A c \in Client : WF_vars(TimerFires(c))
  /\ \A r \in Request : WF_vars(TimesOut(r))
  /\ \A k \in Socket : WF_vars(Unsettled(k) /\ Network(k))

Spec == Init /\ [][Next]_vars
FairSpec == Spec /\ Fairness

----------------------------------------------------------------------------
(* A client has one line to the gateway, a live socket or a timer that will   *)
(* dial, and none once its effect is cleaned up.                              *)
OneLine ==
  \A c \in Client :
    Cardinality(Live(c)) + client[c].timers <= IF c = mounted THEN 1 ELSE 0

(* The mounted client has a line, or a socket whose close it will hear, until *)
(* the gateway shuts down or the attempts are used up.                        *)
LineIsKept ==
  mounted # None =>
    LET x == client[mounted] IN
    \/ x.timers > 0
    \/ x.ws # None /\ socket[x.ws].state # "gone" /\ socket[x.ws].heard
    \/ x.status = "disconnected" /\ (x.shut \/ x.attempt = MaxAttempts)

(* What the user is shown is so: after a greeting connected, after a refusal  *)
(* an error, and only while the end of that socket will be heard.             *)
StatusIsTrue ==
  \A c \in Client :
    LET w == client[c].ws IN
    client[c].status \in {"connected", "error"} =>
      /\ w # None /\ socket[w].state # "gone" /\ socket[w].heard
      /\ client[c].status = "connected" => socket[w].step = "greeted"
      /\ client[c].status = "error" => socket[w].step = "refused"

(* A request waits only for the connection it was sent on: when that goes,    *)
(* the request is rejected and not left to its timeout.                       *)
WaitsOnItsConnection ==
  \A c \in Client : \A r \in Pending(c) :
    /\ client[c].ws # None /\ socket[client[c].ws].state # "gone"
    /\ r \in socket[client[c].ws].sent

(* What the pages take the client of an effect for.                           *)
ShownAs(status) == IF status = "connected" THEN "up"
                   ELSE IF status = "error" THEN "refused"
                   ELSE IF status = "disconnected" THEN "down" ELSE "dialling"

Shown(c) == IF c = mounted THEN ShownAs(client[c].status)
            ELSE IF c \in born THEN "closed" ELSE "new"

Lines == INSTANCE GatewayLine WITH
  line <- [c \in Client |-> Shown(c)],
  asked <- [r \in Request |-> [of |-> request[r].of, state |-> request[r].state]]

(* To the pages the client is one line at a time, with the requests on it: a  *)
(* line is up only by a greeting, those that wait on it are rejected in the   *)
(* step in which it is lost, and one that is down stays down.                 *)
ImplementsLine == Lines!Spec

(* Dialling ends: connected, or disconnected after the last attempt, or the   *)
(* effect is cleaned up.                                                      *)
DiallingEnds ==
  \A c \in Client :
    (c = mounted) ~> (c # mounted \/ client[c].status \in {"connected", "disconnected"})

(* The pages' adapter is that of the connection the user sees.                *)
AdapterIsMounted ==
  mounted # None /\ client[mounted].status = "connected" => adapter = mounted
=============================================================================
