------------------------ MODULE IssueCheckoutProofs ------------------------
(* Theorems about IssueCheckout, for any number of runs, agents, requests and *)
(* patches.                                                                   *)
EXTENDS IssueCheckout, TLAPS

USE RunsHaveAgents, Sentinels, Requests

Steps == {"idle", "route", "assert", "claim", "look", "adopt", "stale", "seize",
          "read", "write"}

(* What a call in progress relies on: its own run has started, the checkout   *)
(* that it wants to take over is of a run that has started, and is over, and  *)
(* a write that leaves the checkout alone leaves the issue in progress.       *)
Fits(c, x) ==
  /\ x.pc # "idle" /\ c # Board => run[c] # "new"
  /\ x.pc \in {"stale", "seize"} => x.expect \in Run /\ run[x.expect] # "new"
  /\ x.pc = "seize" => x.expect \notin Live
  /\ x.pc = "write" /\ x.op # "release" /\ ~x.clear => x.patch.status \in {Keep, "in_progress"}
  /\ c = Board => x.pc \notin {"adopt", "stale", "seize", "assert"}

CallsFit == \A c \in Caller : Fits(c, call[c])

HolderStarted == issue.checkout \in Run => run[issue.checkout] # "new"

IInv == TypeOK /\ CallsFit /\ HolderStarted /\ CheckoutIsWork /\ CheckoutHoldsLock

-----------------------------------------------------------------------------
(* Records, one field at a time.                                              *)
LEMMA IssueFields ==
  ASSUME NEW i \in IssueRow, NEW h \in Holder, NEW a \in Assignee, NEW st \in Status,
         NEW b \in BOOLEAN
  PROVE  /\ [i EXCEPT !.checkout = h] \in IssueRow
         /\ [i EXCEPT !.lock = h] \in IssueRow
         /\ [i EXCEPT !.agent = a] \in IssueRow
         /\ [i EXCEPT !.status = st] \in IssueRow
         /\ [i EXCEPT !.user = b] \in IssueRow
         /\ i.status \in Status \union {"gone"} /\ i.agent \in Assignee
         /\ i.user \in BOOLEAN /\ i.checkout \in Holder /\ i.lock \in Holder
BY DEF IssueRow

LEMMA CallFields ==
  ASSUME NEW x \in Call
  PROVE  /\ \A pc \in Steps : [x EXCEPT !.pc = pc] \in Call
         /\ \A h \in Holder : [x EXCEPT !.expect = h] \in Call
         /\ \A b \in BOOLEAN : [x EXCEPT !.clear = b] \in Call
         /\ x.patch \in Patch /\ x.agent \in Assignee
BY DEF Call, Steps

LEMMA IdleTyped ==
  /\ Idle \in Call
  /\ \A a \in Assignee, S \in SUBSET Status :
       [Idle EXCEPT !.op = "checkout", !.pc = "claim", !.agent = a, !.statuses = S] \in Call
  /\ \A p \in Patch, op \in {"update", "release"} :
       [Idle EXCEPT !.op = op, !.pc = "route", !.patch = p] \in Call
<1>1. NoPatch \in Patch
  BY DEF NoPatch, Patch
<1> QED
  BY <1>1 DEF Idle, Call, Holder, Assignee

-----------------------------------------------------------------------------
(* What a step of a call does to the call, and to the issue: nothing, it      *)
(* takes the checkout and the lock, or it edits.                              *)
Moves(c, x) ==
  /\ x \in Call /\ Fits(c, x)
  /\ call' = [call EXCEPT ![c] = x] /\ run' = run

Takes(c) ==
  /\ issue' \in IssueRow /\ issue'.status = "in_progress"
  /\ issue'.checkout = RunOf(c) /\ issue'.lock = RunOf(c)
  /\ c # Board => run[c] # "new"
  /\ \/ issue.checkout \in {NoRun, RunOf(c)} \/ issue.lock \in {NoRun, RunOf(c)}
     \/ issue.checkout \notin Live

Edits ==
  /\ issue' \in IssueRow /\ issue'.lock = issue.lock
  /\ issue'.checkout \in {issue.checkout, NoRun}
  /\ issue'.checkout # NoRun => issue'.status \in {issue.status, "in_progress"}

Effect(c) == (\E x : Moves(c, x)) /\ (issue' = issue \/ Takes(c) \/ Edits)

LEMMA ReturnMoves ==
  ASSUME IInv, NEW c \in Caller, Return(c), run' = run
  PROVE  \E x : Moves(c, x)
<1>1. Fits(c, Idle)
  BY DEF Fits, Idle
<1> QED
  BY <1>1, IdleTyped DEF Moves, Return

LEMMA GotoMoves ==
  ASSUME IInv, NEW c \in Caller, NEW pc \in Steps, Goto(c, pc), run' = run,
         Fits(c, [call[c] EXCEPT !.pc = pc])
  PROVE  \E x : Moves(c, x)
<1>1. call[c] \in Call
  BY DEF IInv, TypeOK
<1>2. call' = [call EXCEPT ![c] = [call[c] EXCEPT !.pc = pc]]
  BY DEF Goto, IInv, TypeOK
<1>3. [call[c] EXCEPT !.pc = pc] \in Call
  BY <1>1, CallFields
<1> QED
  BY <1>2, <1>3 DEF Moves

(* To look at the run that holds the checkout.                                *)
LEMMA LookAtHolder ==
  ASSUME IInv, NEW c \in Caller, c # Board, call[c].pc # "idle", issue.checkout \in Run,
         call' = [call EXCEPT ![c].pc = "stale", ![c].expect = issue.checkout], run' = run
  PROVE  \E x : Moves(c, x)
<1> DEFINE x1 == [call[c] EXCEPT !.pc = "stale"]
           x2 == [x1 EXCEPT !.expect = issue.checkout]
<1>1. call[c] \in Call /\ issue.checkout \in Holder
  BY DEF IInv, TypeOK, Holder
<1>2. x1 \in Call
  BY <1>1, CallFields DEF Steps
<1>3. x2 \in Call
  BY <1>1, <1>2, CallFields
<1>4. call' = [call EXCEPT ![c] = x2]
  BY DEF IInv, TypeOK
<1>5. x2.pc = "stale" /\ x2.expect = issue.checkout
  BY <1>1 DEF Call
<1>6. Fits(c, call[c])
  BY DEF IInv, CallsFit
<1> HIDE DEF x2
<1>7. Fits(c, x2)
  BY <1>5, <1>6 DEF Fits, IInv, HolderStarted
<1> QED
  BY <1>3, <1>4, <1>7 DEF Moves

(* Taking the checkout and the lock of an issue that is in progress.          *)
LEMMA TakenTyped ==
  ASSUME NEW i \in IssueRow, NEW h \in Holder
  PROVE  LET j == [i EXCEPT !.checkout = h, !.lock = h]
         IN  j \in IssueRow /\ j.status = i.status /\ j.checkout = h /\ j.lock = h
BY DEF IssueRow

LEMMA ClaimDoes == ASSUME IInv, NEW c \in Caller, Claim(c) PROVE Effect(c)
<1>1. /\ call[c] \in Call /\ issue \in IssueRow /\ call[c].pc = "claim" /\ run' = run
      /\ Fits(c, call[c]) /\ RunOf(c) \in Holder
  BY DEF Claim, IInv, TypeOK, CallsFit, RunOf, Holder, Caller
<1>2. CASE Claimable(c)
  <2>1. Return(c) /\ issue' = [status |-> "in_progress", agent |-> call[c].agent,
                               user |-> FALSE, checkout |-> RunOf(c), lock |-> RunOf(c)]
    BY <1>2 DEF Claim
  <2>2. issue' \in IssueRow
    BY <1>1, <2>1, CallFields DEF IssueRow, Status, Call
  <2>3. Takes(c)
    BY <1>1, <1>2, <2>1, <2>2 DEF Takes, Claimable, Fits
  <2> QED
    BY <1>1, <2>1, <2>3, ReturnMoves DEF Effect
<1>3. CASE ~Claimable(c)
  <2>1. Goto(c, "look") /\ issue' = issue
    BY <1>3 DEF Claim
  <2>2. Fits(c, [call[c] EXCEPT !.pc = "look"])
    BY <1>1 DEF Fits, Call
  <2> QED
    BY <1>1, <2>1, <2>2, GotoMoves DEF Effect, Steps
<1> QED
  BY <1>2, <1>3

LEMMA LookDoes == ASSUME IInv, NEW c \in Caller, Look(c) PROVE Effect(c)
<1>1. /\ call[c] \in Call /\ issue \in IssueRow /\ call[c].pc = "look"
      /\ issue' = issue /\ run' = run /\ Fits(c, call[c])
  BY DEF Look, IInv, TypeOK, CallsFit
<1>2. CASE Return(c)
  BY <1>1, <1>2, ReturnMoves DEF Effect
<1>3. CASE c # Board /\ Goto(c, "adopt")
  <2>1. Fits(c, [call[c] EXCEPT !.pc = "adopt"])
    BY <1>1, <1>3 DEF Fits, Call
  <2> QED
    BY <1>1, <1>3, <2>1, GotoMoves DEF Effect, Steps
<1>4. CASE /\ c # Board /\ issue.checkout # NoRun
           /\ call' = [call EXCEPT ![c].pc = "stale", ![c].expect = issue.checkout]
  <2>1. issue.checkout \in Run
    BY <1>1, <1>4 DEF IssueRow, Holder
  <2> QED
    BY <1>1, <1>4, <2>1, LookAtHolder DEF Effect
<1> QED
  BY <1>2, <1>3, <1>4 DEF Look

LEMMA AdoptDoes == ASSUME IInv, NEW c \in Caller, Adopt(c) PROVE Effect(c)
<1>1. /\ call[c] \in Call /\ issue \in IssueRow /\ call[c].pc = "adopt" /\ run' = run
      /\ Fits(c, call[c]) /\ Return(c)
  BY DEF Adopt, IInv, TypeOK, CallsFit
<1>2. c \in Run /\ run[c] # "new" /\ RunOf(c) = c /\ c \in Holder /\ c # Board
  BY <1>1 DEF Fits, Caller, RunOf, Holder
<1>3. issue' = issue \/ Takes(c)
  <2>1. CASE /\ WorkedOnBy(call[c].agent) /\ issue.checkout = NoRun
             /\ issue' = [issue EXCEPT !.checkout = c, !.lock = c]
    BY <1>1, <1>2, <2>1, TakenTyped DEF Takes, WorkedOnBy
  <2> QED
    BY <2>1 DEF Adopt
<1> QED
  BY <1>1, <1>3, ReturnMoves DEF Effect

LEMMA CheckStaleDoes == ASSUME IInv, NEW c \in Caller, CheckStale(c) PROVE Effect(c)
<1>1. /\ call[c] \in Call /\ call[c].pc = "stale"
      /\ issue' = issue /\ run' = run /\ Fits(c, call[c])
  BY DEF CheckStale, IInv, TypeOK, CallsFit
<1>2. CASE Return(c)
  BY <1>1, <1>2, ReturnMoves DEF Effect
<1>3. CASE call[c].expect \notin Live /\ Goto(c, "seize")
  <2>1. Fits(c, [call[c] EXCEPT !.pc = "seize"])
    BY <1>1, <1>3 DEF Fits, Call
  <2> QED
    BY <1>1, <1>3, <2>1, GotoMoves DEF Effect, Steps
<1> QED
  BY <1>2, <1>3 DEF CheckStale

LEMMA SeizeDoes == ASSUME IInv, NEW c \in Caller, Seize(c) PROVE Effect(c)
<1>1. /\ call[c] \in Call /\ issue \in IssueRow /\ call[c].pc = "seize" /\ run' = run
      /\ Fits(c, call[c])
  BY DEF Seize, IInv, TypeOK, CallsFit
<1>2. c \in Run /\ run[c] # "new" /\ RunOf(c) = c /\ c \in Holder /\ c # Board
  BY <1>1 DEF Fits, Caller, RunOf, Holder
<1>3. issue' = issue \/ Takes(c)
  <2>1. CASE Seizable(c) /\ issue' = [issue EXCEPT !.checkout = c, !.lock = c]
    <3>1. issue.checkout \notin Live
      BY <1>1, <2>1 DEF Seizable, Fits
    <3> QED
      BY <1>1, <1>2, <2>1, <3>1, TakenTyped DEF Takes, Seizable, WorkedOnBy
  <2> QED
    BY <2>1 DEF Seize
<1>4. CASE Return(c)
  BY <1>1, <1>3, <1>4, ReturnMoves DEF Effect
<1>5. CASE Goto(c, "read")
  <2>1. Fits(c, [call[c] EXCEPT !.pc = "read"])
    BY <1>1 DEF Fits, Call
  <2> QED
    BY <1>1, <1>3, <1>5, <2>1, GotoMoves DEF Effect, Steps
<1> QED
  BY <1>4, <1>5 DEF Seize

LEMMA RouteDoes == ASSUME IInv, NEW c \in Caller, Route(c) PROVE Effect(c)
<1>1. /\ call[c] \in Call /\ call[c].pc = "route"
      /\ issue' = issue /\ run' = run /\ Fits(c, call[c])
  BY DEF Route, IInv, TypeOK, CallsFit
<1>2. CASE Return(c)
  BY <1>1, <1>2, ReturnMoves DEF Effect
<1>3. CASE c # Board /\ Goto(c, "assert")
  <2>1. Fits(c, [call[c] EXCEPT !.pc = "assert"])
    BY <1>1, <1>3 DEF Fits, Call
  <2> QED
    BY <1>1, <1>3, <2>1, GotoMoves DEF Effect, Steps
<1>4. CASE Goto(c, "read")
  <2>1. Fits(c, [call[c] EXCEPT !.pc = "read"])
    BY <1>1 DEF Fits, Call
  <2> QED
    BY <1>1, <1>4, <2>1, GotoMoves DEF Effect, Steps
<1> QED
  BY <1>2, <1>3, <1>4 DEF Route

LEMMA AssertOwnerDoes == ASSUME IInv, NEW c \in Caller, AssertOwner(c) PROVE Effect(c)
<1>1. /\ call[c] \in Call /\ issue \in IssueRow /\ call[c].pc = "assert"
      /\ issue' = issue /\ run' = run /\ Fits(c, call[c]) /\ c # Board
  BY DEF AssertOwner, IInv, TypeOK, CallsFit, Fits
<1>2. CASE Return(c)
  BY <1>1, <1>2, ReturnMoves DEF Effect
<1>3. CASE Goto(c, "read")
  <2>1. Fits(c, [call[c] EXCEPT !.pc = "read"])
    BY <1>1 DEF Fits, Call
  <2> QED
    BY <1>1, <1>3, <2>1, GotoMoves DEF Effect, Steps
<1>4. CASE /\ issue.checkout # NoRun
           /\ call' = [call EXCEPT ![c].pc = "stale", ![c].expect = issue.checkout]
  <2>1. issue.checkout \in Run
    BY <1>1, <1>4 DEF IssueRow, Holder
  <2> QED
    BY <1>1, <1>4, <2>1, LookAtHolder DEF Effect
<1> QED
  BY <1>2, <1>3, <1>4 DEF AssertOwner

LEMMA ReadRowDoes == ASSUME IInv, NEW c \in Caller, ReadRow(c) PROVE Effect(c)
<1>1. /\ call[c] \in Call /\ call[c].pc = "read" /\ call[c].op \in {"update", "release"}
      /\ issue' = issue /\ run' = run /\ Fits(c, call[c])
  BY DEF ReadRow, IInv, TypeOK, CallsFit
<1>2. CASE Return(c)
  BY <1>1, <1>2, ReturnMoves DEF Effect
<1>3. CASE call[c].op = "release" /\ Goto(c, "write")
  <2>1. Fits(c, [call[c] EXCEPT !.pc = "write"])
    BY <1>1, <1>3 DEF Fits, Call
  <2> QED
    BY <1>1, <1>3, <2>1, GotoMoves DEF Effect, Steps
<1>4. CASE call' = [call EXCEPT ![c].pc = "write", ![c].clear = Resets(call[c].patch)]
  <2> DEFINE b == Resets(call[c].patch)
             x1 == [call[c] EXCEPT !.pc = "write"]
             x2 == [x1 EXCEPT !.clear = b]
  <2>1. b \in BOOLEAN
    BY DEF Resets
  <2>2. ~b => call[c].patch.status \in {Keep, "in_progress"}
    BY DEF Resets
  <2>3. call' = [call EXCEPT ![c] = x2]
    BY <1>4 DEF IInv, TypeOK
  <2> HIDE DEF b
  <2>4. x1 \in Call
    BY <1>1, CallFields DEF Steps
  <2>5. x2 \in Call
    BY <2>1, <2>4, CallFields
  <2>6. x2.pc = "write" /\ x2.clear = b /\ x2.patch = call[c].patch
    BY <1>1 DEF Call
  <2> HIDE DEF x2
  <2>7. Fits(c, x2)
    BY <1>1, <2>2, <2>6 DEF Fits
  <2> QED
    BY <1>1, <2>3, <2>5, <2>7 DEF Effect, Moves
<1> QED
  BY <1>2, <1>3, <1>4 DEF ReadRow

LEMMA WriteRowDoes == ASSUME IInv, NEW c \in Caller, WriteRow(c) PROVE Effect(c)
<1>1. /\ call[c] \in Call /\ issue \in IssueRow /\ call[c].pc = "write" /\ run' = run
      /\ Fits(c, call[c]) /\ Return(c)
  BY DEF WriteRow, IInv, TypeOK, CallsFit
<1>2. CASE ~Exists
  BY <1>1, <1>2, ReturnMoves DEF Effect, WriteRow
<1>3. CASE Exists /\ call[c].op = "release"
  <2>1. issue' = [issue EXCEPT !.status = "todo", !.agent = NoAgent, !.checkout = NoRun]
    BY <1>3 DEF WriteRow
  <2>2. Edits
    BY <1>1, <2>1 DEF Edits, IssueRow, Status, Assignee, Holder
  <2> QED
    BY <1>1, <2>2, ReturnMoves DEF Effect
<1>4. CASE Exists /\ call[c].op # "release"
  <2> DEFINE p == call[c].patch
             st == Merge(issue.status, p.status)
             ag == Merge(issue.agent, p.agent)
             us == Merge(issue.user, p.user)
             co == IF call[c].clear THEN NoRun ELSE issue.checkout
             i1 == [issue EXCEPT !.status = st]
             i2 == [i1 EXCEPT !.agent = ag]
             i3 == [i2 EXCEPT !.user = us]
             i4 == [i3 EXCEPT !.checkout = co]
  <2>1. issue' = i4
    BY <1>1, <1>4 DEF WriteRow, IssueRow
  <2>2. p \in Patch
    BY <1>1, CallFields DEF Steps, Holder
  <2>3. st \in Status /\ ag \in Assignee /\ us \in BOOLEAN /\ co \in Holder
    BY <1>1, <1>4, <2>2 DEF Merge, Patch, IssueRow, Exists, Holder, Status
  <2>4. /\ i4.status = st /\ i4.checkout = co /\ i4.lock = issue.lock
    BY <1>1 DEF IssueRow
  <2>5. ~call[c].clear => p.status \in {Keep, "in_progress"}
    BY <1>1, <1>4 DEF Fits
  <2>6. co # NoRun => st \in {issue.status, "in_progress"}
    BY <2>5 DEF Merge
  <2>7. co \in {issue.checkout, NoRun}
    OBVIOUS
  <2> HIDE DEF st, ag, us, co
  <2>8. i1 \in IssueRow
    BY <1>1, <2>3, IssueFields
  <2>9. i2 \in IssueRow
    BY <2>3, <2>8, IssueFields
  <2>10. i3 \in IssueRow
    BY <2>3, <2>9, IssueFields
  <2>11. i4 \in IssueRow
    BY <2>3, <2>10, IssueFields
  <2>12. Edits
    BY <2>1, <2>4, <2>6, <2>7, <2>11 DEF Edits
  <2> QED
    BY <1>1, <2>12, ReturnMoves DEF Effect
<1> QED
  BY <1>2, <1>3, <1>4

LEMMA CallStepDoes == ASSUME IInv, NEW c \in Caller, CallStep(c) PROVE Effect(c)
BY ClaimDoes, LookDoes, AdoptDoes, CheckStaleDoes, SeizeDoes, RouteDoes,
   AssertOwnerDoes, ReadRowDoes, WriteRowDoes DEF CallStep

-----------------------------------------------------------------------------
(* The invariant holds initially, and each action keeps it.                   *)
LEMMA InitIInv == Init => IInv
<1> SUFFICES ASSUME Init PROVE IInv
  OBVIOUS
<1>1. TypeOK
  BY IdleTyped DEF Init, TypeOK
<1>2. CallsFit
  BY DEF Init, CallsFit, Fits, Idle
<1>3. HolderStarted /\ CheckoutIsWork /\ CheckoutHoldsLock
  BY DEF Init, HolderStarted, CheckoutIsWork, CheckoutHoldsLock
<1> QED
  BY <1>1, <1>2, <1>3 DEF IInv

(* One call changes.                                                          *)
LEMMA OneCallChanges ==
  ASSUME IInv, NEW c \in Caller, NEW x \in Call, call' = [call EXCEPT ![c] = x],
         run' = run, Fits(c, x)
  PROVE  call' \in [Caller -> Call] /\ CallsFit'
<1>1. \A d \in Caller : call'[d] = IF d = c THEN x ELSE call[d]
  BY DEF IInv, TypeOK
<1>2. \A d \in Caller : \A y : Fits(d, y)' <=> Fits(d, y)
  BY DEF Fits, Live
<1>3. CallsFit'
  BY <1>1, <1>2 DEF CallsFit, IInv
<1> QED
  BY <1>3 DEF IInv, TypeOK

(* The issue is left alone, or edited.                                        *)
LEMMA IssueKept ==
  ASSUME IInv, run' = run, issue' = issue \/ Edits
  PROVE  issue' \in IssueRow /\ HolderStarted' /\ CheckoutIsWork' /\ CheckoutHoldsLock'
BY DEF IInv, TypeOK, Edits, HolderStarted, CheckoutIsWork, CheckoutHoldsLock

LEMMA IssueTaken ==
  ASSUME IInv, run' = run, NEW c \in Caller, Takes(c)
  PROVE  issue' \in IssueRow /\ HolderStarted' /\ CheckoutIsWork' /\ CheckoutHoldsLock'
BY DEF Takes, RunOf, Caller, HolderStarted, CheckoutIsWork, CheckoutHoldsLock

LEMMA CallStepKeepsIInv == ASSUME IInv, NEW c \in Caller, CallStep(c) PROVE IInv'
<1>1. PICK x : Moves(c, x)
  BY CallStepDoes DEF Effect
<1>2. call' \in [Caller -> Call] /\ CallsFit' /\ run' = run
  BY <1>1, OneCallChanges DEF Moves
<1>3. issue' \in IssueRow /\ HolderStarted' /\ CheckoutIsWork' /\ CheckoutHoldsLock'
  BY <1>2, CallStepDoes, IssueKept, IssueTaken DEF Effect
<1> QED
  BY <1>2, <1>3 DEF IInv, TypeOK

LEMMA AskKeepsIInv ==
  ASSUME IInv, NEW c \in Caller,
         \/ \E a \in Agent, S \in Expected : AskCheckout(c, a, S)
         \/ \E p \in Patches : AskChange(c, "update", p)
         \/ AskChange(c, "release", NoPatch)
  PROVE  IInv'
<1>1. CanAsk(c) /\ issue' = issue /\ run' = run
  BY DEF AskCheckout, AskChange
<1>2. c # Board => run[c] # "new"
  BY <1>1 DEF CanAsk
<1>3. ASSUME NEW x \in Call, x.pc \in {"claim", "route"}, call' = [call EXCEPT ![c] = x]
      PROVE  IInv'
  <2>1. Fits(c, x)
    BY <1>2, <1>3 DEF Fits
  <2>2. call' \in [Caller -> Call] /\ CallsFit'
    BY <1>1, <1>3, <2>1, OneCallChanges
  <2> QED
    BY <1>1, <2>2, IssueKept DEF IInv, TypeOK
<1>4. ASSUME NEW a \in Agent, NEW S \in Expected, AskCheckout(c, a, S) PROVE IInv'
  <2> DEFINE x == [Idle EXCEPT !.op = "checkout", !.pc = "claim", !.agent = a, !.statuses = S]
  <2>1. x \in Call /\ x.pc = "claim"
    BY IdleTyped DEF Assignee, Idle
  <2>2. call' = [call EXCEPT ![c] = x]
    BY <1>4 DEF AskCheckout
  <2> QED
    BY <1>3, <2>1, <2>2
<1>5. ASSUME NEW p \in Patch, NEW op \in {"update", "release"}, AskChange(c, op, p)
      PROVE  IInv'
  <2> DEFINE x == [Idle EXCEPT !.op = op, !.pc = "route", !.patch = p]
  <2>1. x \in Call /\ x.pc = "route"
    BY IdleTyped DEF Idle
  <2>2. call' = [call EXCEPT ![c] = x]
    BY <1>5 DEF AskChange
  <2> QED
    BY <1>3, <2>1, <2>2
<1>6. NoPatch \in Patch /\ Patches \subseteq Patch
  BY DEF NoPatch, Patch
<1> QED
  BY <1>4, <1>5, <1>6

(* Steps of the heartbeat leave the calls alone, and no run becomes new again.*)
LEMMA RunsGoOn ==
  ASSUME IInv, call' = call, run' \in [Run -> {"new", "live", "over"}],
         \A r \in Run : /\ run[r] # "new" => run'[r] # "new"
                        /\ run'[r] = "live" => run[r] \in {"new", "live"}
  PROVE  call' \in [Caller -> Call] /\ CallsFit'
<1>1. ASSUME NEW c \in Caller PROVE Fits(c, call[c])'
  <2>1. Fits(c, call[c]) /\ (c # Board => c \in Run)
    BY DEF IInv, CallsFit, Caller
  <2> QED
    BY <2>1 DEF Fits, Live
<1> QED
  BY <1>1 DEF IInv, TypeOK, CallsFit

LEMMA HeartbeatKeepsIInv ==
  ASSUME IInv, NEW r \in Run, StartUnlocked(r) \/ Wake(r) \/ EndRun(r) \/ Settle(r)
  PROVE  IInv'
<1> USE DEF IInv, TypeOK, HolderStarted, CheckoutIsWork, CheckoutHoldsLock
<1>1. call' = call
  BY DEF StartUnlocked, Wake, EndRun, Settle
<1>2. ASSUME run' \in [Run -> {"new", "live", "over"}],
             \A q \in Run : /\ run[q] # "new" => run'[q] # "new"
                            /\ run'[q] = "live" => run[q] \in {"new", "live"},
             issue' \in IssueRow, HolderStarted', CheckoutIsWork', CheckoutHoldsLock'
      PROVE  IInv'
  BY <1>1, <1>2, RunsGoOn
<1>3. CASE StartUnlocked(r)
  BY <1>2, <1>3 DEF StartUnlocked
<1>4. CASE EndRun(r)
  BY <1>2, <1>4 DEF EndRun
<1>5. CASE Wake(r)
  BY <1>2, <1>5 DEF Wake, Live, IssueRow, Holder
<1>6. CASE Settle(r)
  <2>1. CASE issue' = [issue EXCEPT !.lock = NoRun] /\ run' = run
    BY <1>2, <1>6, <2>1 DEF Settle, IssueRow, Holder
  <2>2. ASSUME NEW q \in About, run[q] = "new", run' = [run EXCEPT ![q] = "live"],
               issue' = [issue EXCEPT !.lock = q]
        PROVE  IInv'
    BY <1>2, <1>6, <2>2 DEF Settle, IssueRow, Holder
  <2> QED
    BY <1>6, <2>1, <2>2 DEF Settle
<1> QED
  BY <1>3, <1>4, <1>5, <1>6

LEMMA NextIInv == IInv /\ [Next]_vars => IInv'
<1> SUFFICES ASSUME IInv, [Next]_vars PROVE IInv'
  OBVIOUS
<1>1. ASSUME NEW c \in Caller, CallStep(c) PROVE IInv'
  BY <1>1, CallStepKeepsIInv
<1>2. CASE Remove
  <2>1. issue' \in IssueRow /\ run' = run /\ call' = call /\ issue'.checkout = NoRun
    BY <1>2 DEF Remove, IssueRow, Assignee, Holder
  <2>2. CallsFit'
    BY <2>1 DEF IInv, CallsFit, Fits, Live
  <2> QED
    BY <2>1, <2>2 DEF IInv, TypeOK, HolderStarted, CheckoutIsWork, CheckoutHoldsLock
<1>3. CASE UNCHANGED vars
  BY <1>3 DEF vars, IInv, TypeOK, CallsFit, Fits, Live, HolderStarted, CheckoutIsWork,
              CheckoutHoldsLock
<1> QED
  BY <1>1, <1>2, <1>3, AskKeepsIInv, HeartbeatKeepsIInv DEF Next

LEMMA Invariant == Spec => []IInv
BY InitIInv, NextIInv, PTL DEF Spec

(* The row, the runs and the calls in progress stay well formed.              *)
THEOREM TypeCorrect == Spec => []TypeOK
<1>1. IInv => TypeOK
  BY DEF IInv
<1> QED
  BY <1>1, Invariant, PTL

(* However stale the reads of updates and releases, only an issue in progress *)
(* is checked out.                                                            *)
THEOREM CheckedOutIsInProgress == Spec => []CheckoutIsWork
<1>1. IInv => CheckoutIsWork
  BY DEF IInv
<1> QED
  BY <1>1, Invariant, PTL

(* The live run that has the issue checked out holds its execution lock.      *)
THEOREM CheckedOutIsLocked == Spec => []CheckoutHoldsLock
<1>1. IInv => CheckoutHoldsLock
  BY DEF IInv
<1> QED
  BY <1>1, Invariant, PTL

-----------------------------------------------------------------------------
(* What a step may do to the checkout and to the lock.                        *)
LEMMA StepKeepsWorker ==
  ASSUME IInv, [Next]_vars, NEW r \in Run, run[r] = "live"
  PROVE  /\ issue.checkout = r => issue'.checkout \in {r, NoRun}
         /\ issue.lock = r /\ issue'.lock # r
              => issue'.status = "gone" \/ issue'.lock = issue'.checkout
<1>0. issue \in IssueRow /\ (issue.checkout = r => issue.lock = r) /\ r \in Live
  BY DEF IInv, TypeOK, CheckoutHoldsLock, Live
<1>1. ASSUME NEW c \in Caller, CallStep(c)
      PROVE  /\ issue.checkout = r => issue'.checkout \in {r, NoRun}
             /\ issue.lock = r /\ issue'.lock # r => issue'.lock = issue'.checkout
  <2>1. CASE issue' = issue \/ Edits
    BY <2>1 DEF Edits
  <2>2. CASE Takes(c)
    BY <1>0, <2>2 DEF Takes, RunOf
  <2> QED
    BY <1>1, <2>1, <2>2, CallStepDoes DEF Effect
<1>2. CASE Remove
  BY <1>2 DEF Remove
<1>3. ASSUME NEW q \in Run, StartUnlocked(q) \/ Wake(q) \/ EndRun(q) \/ Settle(q)
      PROVE  issue'.checkout = issue.checkout /\ (issue.lock = r => issue'.lock = r)
  BY <1>0, <1>3 DEF StartUnlocked, Wake, EndRun, Settle, IssueRow, Live
<1>4. CASE issue' = issue
  BY <1>4
<1> QED
  BY <1>1, <1>2, <1>3, <1>4 DEF Next, vars, AskCheckout, AskChange

(* While the run that has the issue checked out lives, no other gets it: a    *)
(* checkout is taken over from the dead only.                                 *)
THEOREM OnlyTheDeadAreReplaced == Spec => TakenOnlyFromTheDead
<1>1. IInv /\ [Next]_vars
        => [\A r \in Run : issue.checkout = r /\ run[r] = "live"
                          => issue'.checkout \in {r, NoRun}]_vars
  BY StepKeepsWorker
<1> QED
  BY <1>1, Invariant, PTL DEF Spec, TakenOnlyFromTheDead

(* A live run loses the lock only to whoever gets the checkout with it.       *)
THEOREM LockGoesWithCheckout == Spec => LockFollowsCheckout
<1>1. IInv /\ [Next]_vars
        => [\A r \in Run : issue.lock = r /\ run[r] = "live" /\ issue'.lock # r
                          => issue'.status = "gone" \/ issue'.lock = issue'.checkout]_vars
  BY StepKeepsWorker
<1> QED
  BY <1>1, Invariant, PTL DEF Spec, LockFollowsCheckout
=============================================================================
