---------------------------- MODULE GatewayLine ----------------------------
(* What the office promises its pages about the connection to the gateway,    *)
(* without sockets, timers and handlers: a line for each url and token, one   *)
(* at a time, on which requests wait while it is up and no longer.            *)
CONSTANTS Client, Request, None

VARIABLES
  line,   \* Client -> "new", "dialling", "up", "refused", "down" or "closed"
  asked   \* Request -> whose line it was made on, and what became of it

vars == <<line, asked>>

Init ==
  /\ line = [c \in Client |-> "new"]
  /\ asked = [r \in Request |-> [of |-> None, state |-> "none"]]

(* The requests that wait on c's line are rejected, all at once.              *)
RejectOn(c) ==
  asked' = [r \in Request |-> IF asked[r] = [of |-> c, state |-> "pending"]
                              THEN [of |-> c, state |-> "settled"] ELSE asked[r]]

InUse(c) == line[c] \notin {"new", "closed"}

(* A line is dialled when no other is in use; that may fail at once.          *)
Open(c) ==
  /\ \A d \in Client : ~InUse(d)
  /\ line[c] = "new"
  /\ \E to \in {"dialling", "down"} : line' = [line EXCEPT ![c] = to]
  /\ asked' = asked

(* Whatever the line, it is closed when its url or token is given up.         *)
Close(c) ==
  /\ InUse(c)
  /\ line' = [line EXCEPT ![c] = "closed"]
  /\ RejectOn(c)

(* Dialling comes to an end: greeted, refused, or given up.                   *)
Settle(c) ==
  /\ line[c] = "dialling"
  /\ \E to \in {"up", "refused", "down"} : line' = [line EXCEPT ![c] = to]
  /\ asked' = asked

(* A line that is up, or that was refused, is lost: it is dialled again, or   *)
(* not any more, and then it stays down.                                      *)
Lose(c) ==
  /\ line[c] \in {"up", "refused"}
  /\ \E to \in {"dialling", "down"} : line' = [line EXCEPT ![c] = to]
  /\ RejectOn(c)

(* A request waits on a line that is up, or is rejected.                      *)
Ask(r, c) ==
  /\ asked[r].state = "none"
  /\ \/ line[c] = "up" /\ asked' = [asked EXCEPT ![r] = [of |-> c, state |-> "pending"]]
     \/ asked' = [asked EXCEPT ![r] = [of |-> c, state |-> "settled"]]
  /\ line' = line

(* It is answered, or has waited long enough.                                 *)
Answer(r) ==
  /\ asked[r].state = "pending"
  /\ asked' = [asked EXCEPT ![r].state = "settled"]
  /\ line' = line

Next == \/ \E c \in Client : \/ Open(c) \/ Close(c) \/ Settle(c) \/ Lose(c)
                             \/ \E r \in Request : Ask(r, c)
        \/ \E r \in Request : Answer(r)

Spec == Init /\ [][Next]_vars
=============================================================================
