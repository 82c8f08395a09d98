-------------------------- MODULE PlanWatchProofs --------------------------
(* Theorems about PlanWatch, for any files, plans, scans and bounds.          *)
EXTENDS PlanWatch, FiniteSetTheorems, TLAPS

USE PlanAssumption, LoopAssumption, PathAssumption, Bounds

(* A claimed file that has not changed since waits in a scan, is in hand as   *)
(* it was parsed, or has its receipt.  A file that changed in hand may be     *)
(* claimed again and be in hand twice, under two contents.  Or a scan that    *)
(* had it raised.                                                             *)
Waits(p) == \E s \in Scanner : p \in scan[s].todo
HandledAs(p, v) == \E s \in Scanner : Begun(s) /\ scan[s].path = p /\ scan[s].parsed = v

ClaimsKept ==
  \A p \in Path : watch[p] = "claimed" =>
    Waits(p) \/ HandledAs(p, file[p]) \/ file[p] \in receipts \/ p \in forgotten

(* Only a scan has files.                                                     *)
IdleIsEmpty == \A s \in Scanner : At(s, "idle") => scan[s].todo = {}

(* An approval being polled for is that of the plan in hand.                  *)
PolledIsAsked ==
  \A s \in Scanner : At(s, "poll") => approval[s].plan = scan[s].plan

(* Where a plan goes depends on whether it wants an approval.                 *)
ReadyIsPlan ==
  \A s \in Scanner : scan[s].pc \in {"ask", "poll", "execute", "running"} =>
                       scan[s].plan \in Plan

IInv == TypeOK /\ ClaimsKept /\ IdleIsEmpty /\ PolledIsAsked /\ ReadyIsPlan /\ ApprovedFirst

-----------------------------------------------------------------------------
LEMMA InitIInv == Init => IInv
BY DEF Init, IInv, TypeOK, Content, Scan, NoScan, ClaimsKept, IdleIsEmpty, PolledIsAsked,
       ReadyIsPlan, ApprovedFirst, At

(* Records of scans stay what they are under the updates of the actions.      *)
PCs == {"idle", "next", "check", "load", "ask", "poll", "execute", "running", "receipt"}

LEMMA PutPc ==
  ASSUME NEW r \in Scan, NEW c \in PCs
  PROVE  LET x == [r EXCEPT !.pc = c] IN
         /\ x \in Scan /\ x.pc = c /\ x.todo = r.todo
         /\ x.path = r.path /\ x.parsed = r.parsed /\ x.plan = r.plan
BY DEF Scan, PCs

LEMMA PutTodo ==
  ASSUME NEW r \in Scan, NEW t \in SUBSET Path
  PROVE  LET x == [r EXCEPT !.todo = t] IN
         /\ x \in Scan /\ x.pc = r.pc /\ x.todo = t
         /\ x.path = r.path /\ x.parsed = r.parsed /\ x.plan = r.plan
BY DEF Scan, PCs

LEMMA PutPath ==
  ASSUME NEW r \in Scan, NEW p \in Path
  PROVE  LET x == [r EXCEPT !.path = p] IN
         /\ x \in Scan /\ x.pc = r.pc /\ x.todo = r.todo
         /\ x.path = p /\ x.parsed = r.parsed /\ x.plan = r.plan
BY DEF Scan, PCs

LEMMA PutParsed ==
  ASSUME NEW r \in Scan, NEW v \in Content
  PROVE  LET x == [r EXCEPT !.parsed = v] IN
         /\ x \in Scan /\ x.pc = r.pc /\ x.todo = r.todo
         /\ x.path = r.path /\ x.parsed = v /\ x.plan = r.plan
BY DEF Scan, PCs

LEMMA PutPlan ==
  ASSUME NEW r \in Scan, NEW v \in Content
  PROVE  LET x == [r EXCEPT !.plan = v] IN
         /\ x \in Scan /\ x.pc = r.pc /\ x.todo = r.todo
         /\ x.path = r.path /\ x.parsed = r.parsed /\ x.plan = v
BY DEF Scan, PCs

(* Goto only moves.                                                           *)
LEMMA GotoDoes ==
  ASSUME TypeOK, NEW s \in Scanner,
         NEW c \in PCs,
         Goto(s, c)
  PROVE  /\ scan' \in [Scanner -> Scan]
         /\ scan'[s].pc = c
         /\ scan'[s].todo = scan[s].todo /\ scan'[s].path = scan[s].path
         /\ scan'[s].parsed = scan[s].parsed /\ scan'[s].plan = scan[s].plan
         /\ \A q \in Scanner \ {s} : scan'[q] = scan[q]
<1>1. scan[s] \in Scan
  BY DEF TypeOK
<1>2. scan' = [scan EXCEPT ![s] = [scan[s] EXCEPT !.pc = c]]
  BY DEF Goto
<1>3. [scan[s] EXCEPT !.pc = c] \in Scan
  BY <1>1, PutPc
<1> QED
  BY <1>1, <1>2, <1>3, PutPc DEF TypeOK

(* What a scan does to itself when it begins, parses and loads.               *)
LEMMA BeginDoes ==
  ASSUME TypeOK, NEW s \in Scanner, NEW settled \in SUBSET Path, BeginScan(s, settled)
  PROVE  /\ scan' \in [Scanner -> Scan]
         /\ scan'[s].pc = "next" /\ scan'[s].todo = settled
         /\ \A q \in Scanner \ {s} : scan'[q] = scan[q]
<1>1. scan[s] \in Scan
  BY DEF TypeOK
<1> DEFINE r == [scan[s] EXCEPT !.pc = "next"]
<1>2. r \in Scan /\ r.pc = "next"
  BY <1>1, PutPc DEF PCs
<1>3. scan' = [scan EXCEPT ![s] = [r EXCEPT !.todo = settled]]
  BY DEF BeginScan
<1> HIDE DEF r
<1>4. [r EXCEPT !.todo = settled] \in Scan
  BY <1>2, PutTodo
<1>5. [r EXCEPT !.todo = settled].pc = "next" /\ [r EXCEPT !.todo = settled].todo = settled
  BY <1>2, PutTodo
<1> QED
  BY <1>3, <1>4, <1>5 DEF TypeOK

LEMMA ParseDoes ==
  ASSUME TypeOK, NEW s \in Scanner, NEW p \in Path, Parse(s, p)
  PROVE  /\ scan' \in [Scanner -> Scan]
         /\ scan'[s].pc \in {"next", "check"}
         /\ scan[s].todo = scan'[s].todo \union {p} /\ p \notin scan'[s].todo
         /\ file[p] \in Plan => /\ scan'[s].pc = "check"
                                /\ scan'[s].path = p /\ scan'[s].parsed = file[p]
                                /\ receipts' = receipts
         /\ file[p] \notin Plan => /\ scan'[s].pc = "next"
                                   /\ receipts' = receipts \union {file[p]}
         /\ disturbed' \in Nat
         /\ \A q \in Scanner \ {s} : scan'[q] = scan[q]
<1>1. scan[s] \in Scan /\ file[p] \in Content /\ scan[s].pc = "next" /\ p \in scan[s].todo
  BY DEF TypeOK, Parse, At
<1> DEFINE a == [scan[s] EXCEPT !.todo = @ \ {p}]
           b == [a EXCEPT !.pc = "check"]
           c == [b EXCEPT !.path = p]
           d == [c EXCEPT !.parsed = file[p]]
<1>2. scan[s].todo \ {p} \in SUBSET Path
  BY <1>1 DEF Scan
<1>3. /\ a \in Scan /\ a.pc = "next" /\ a.todo = scan[s].todo \ {p}
  BY <1>1, <1>2, PutTodo DEF PCs
<1>4. CASE file[p] \in Plan
  <2>1. scan' = [scan EXCEPT ![s] = d]
    <3>1. scan' = [scan EXCEPT ![s].pc = "check", ![s].todo = @ \ {p}, ![s].path = p,
                               ![s].parsed = file[p]]
      BY <1>4 DEF Parse
    <3>2. d = [scan[s] EXCEPT !.pc = "check", !.todo = @ \ {p}, !.path = p, !.parsed = file[p]]
      BY <1>1 DEF Scan
    <3> QED
      BY <3>1, <3>2
  <2> HIDE DEF a
  <2>2. b \in Scan /\ b.pc = "check" /\ b.todo = scan[s].todo \ {p}
    BY <1>3, PutPc DEF PCs
  <2> HIDE DEF b
  <2>3. c \in Scan /\ c.pc = "check" /\ c.todo = scan[s].todo \ {p} /\ c.path = p
    BY <2>2, PutPath DEF PCs
  <2> HIDE DEF c
  <2>4. d \in Scan /\ d.pc = "check" /\ d.todo = scan[s].todo \ {p} /\ d.path = p
        /\ d.parsed = file[p]
    BY <1>1, <2>3, PutParsed DEF PCs
  <2> HIDE DEF d
  <2>5. receipts' = receipts /\ disturbed' \in Nat
    BY <1>4 DEF Parse, TypeOK
  <2>6. /\ scan' \in [Scanner -> Scan] /\ scan'[s] = d
        /\ \A q \in Scanner \ {s} : scan'[q] = scan[q]
    BY <2>1, <2>4 DEF TypeOK
  <2> QED
    BY <1>1, <1>4, <2>4, <2>5, <2>6
<1>5. CASE file[p] \notin Plan
  <2>1. scan' = [scan EXCEPT ![s] = a] /\ receipts' = receipts \union {file[p]}
        /\ disturbed' = disturbed
    BY <1>5 DEF Parse
  <2> HIDE DEF a
  <2>2. /\ scan' \in [Scanner -> Scan] /\ scan'[s] = a
        /\ \A q \in Scanner \ {s} : scan'[q] = scan[q]
    BY <2>1, <1>3 DEF TypeOK
  <2> QED
    BY <1>1, <1>3, <1>5, <2>1, <2>2 DEF TypeOK
<1> QED
  BY <1>4, <1>5

LEMMA LoadDoes ==
  ASSUME TypeOK, NEW s \in Scanner, Load(s)
  PROVE  /\ scan' \in [Scanner -> Scan]
         /\ \/ scan'[s].plan \in AsksFirst /\ scan'[s].pc = "ask"
            \/ scan'[s].plan \in Plan \ AsksFirst /\ scan'[s].pc = "execute"
            \/ scan'[s].pc = "receipt"
         /\ scan'[s].plan = file[scan[s].path]
         /\ scan'[s].todo = scan[s].todo /\ scan'[s].path = scan[s].path
         /\ scan'[s].parsed = scan[s].parsed
         /\ \A q \in Scanner \ {s} : scan'[q] = scan[q]
<1> DEFINE v == file[scan[s].path]
           to == IF v \notin Plan THEN "receipt"
                 ELSE IF v \in AsksFirst THEN "ask" ELSE "execute"
           a == [scan[s] EXCEPT !.plan = v]
           b == [a EXCEPT !.pc = to]
<1>1. scan[s] \in Scan /\ v \in Content
  BY DEF TypeOK, Scan
<1>2. scan' = [scan EXCEPT ![s] = b]
  BY DEF Load
<1>3. to \in PCs
  BY DEF PCs
<1>4. \/ v \in AsksFirst /\ to = "ask"
      \/ v \in Plan \ AsksFirst /\ to = "execute"
      \/ to = "receipt"
  OBVIOUS
<1> HIDE DEF v, to
<1>5. a \in Scan /\ a.plan = v /\ a.todo = scan[s].todo /\ a.path = scan[s].path
      /\ a.parsed = scan[s].parsed
  BY <1>1, PutPlan DEF PCs
<1> HIDE DEF a
<1>6. b \in Scan /\ b.plan = v /\ b.todo = scan[s].todo /\ b.path = scan[s].path
      /\ b.parsed = scan[s].parsed /\ b.pc = to
  BY <1>3, <1>5, PutPc
<1> HIDE DEF b
<1>7. /\ scan' \in [Scanner -> Scan] /\ scan'[s] = b
      /\ \A q \in Scanner \ {s} : scan'[q] = scan[q]
  BY <1>2, <1>6 DEF TypeOK
<1> QED
  BY <1>4, <1>6, <1>7 DEF v

(* Where the other steps of a scan lead.                                      *)
LEMMA NoScanIsScan == NoScan \in Scan /\ NoScan.pc = "idle" /\ NoScan.todo = {}
BY DEF NoScan, Scan, Content

Others(s) ==
  \/ CheckReceipt(s) \/ Ask(s) \/ GiveUp(s) \/ Poll(s) \/ Timeout(s)
  \/ Execute(s) \/ CampaignEnds(s) \/ WriteReceipt(s)

LEMMA OthersDo ==
  ASSUME TypeOK, NEW s \in Scanner, Others(s)
  PROVE  /\ scan' \in [Scanner -> Scan]
         /\ scan'[s].todo = scan[s].todo /\ scan'[s].path = scan[s].path
         /\ scan'[s].parsed = scan[s].parsed /\ scan'[s].plan = scan[s].plan
         /\ \A q \in Scanner \ {s} : scan'[q] = scan[q]
         /\ scan'[s].pc # "idle" /\ scan[s].pc \notin {"idle", "next"}
         /\ scan'[s].pc = "next" =>
              receipts' = receipts \union {scan[s].parsed} \/ scan[s].parsed \in receipts
         /\ receipts \subseteq receipts' /\ receipts' \subseteq receipts \union {scan[s].parsed}
         /\ file' = file /\ watch' = watch /\ forgotten' = forgotten
<1> USE GotoDoes DEF PCs
<1>1. CASE CheckReceipt(s)
  BY <1>1 DEF CheckReceipt, At, world, bounds, history
<1>2. CASE Ask(s)
  BY <1>2 DEF Ask, At, world, bounds, history
<1>3. CASE GiveUp(s)
  BY <1>3 DEF GiveUp, At, world, bounds, history
<1>4. CASE Poll(s)
  BY <1>4 DEF Poll, At, world, bounds, history
<1>5. CASE Timeout(s)
  BY <1>5 DEF Timeout, At, world, bounds, history
<1>6. CASE Execute(s)
  BY <1>6 DEF Execute, At, history
<1>7. CASE CampaignEnds(s)
  BY <1>7 DEF CampaignEnds, At, world, bounds, history
<1>8. CASE WriteReceipt(s)
  BY <1>8 DEF WriteReceipt, At, history
<1> QED
  BY <1>1, <1>2, <1>3, <1>4, <1>5, <1>6, <1>7, <1>8 DEF Others

-----------------------------------------------------------------------------
(* Types.                                                                     *)
Actions ==
  \/ \E p \in Path, v \in Content : Edit(p, v)
  \/ \E s \in Scanner : \/ \E settled \in SUBSET Path : BeginScan(s, settled)
                        \/ \E p \in Path : Parse(s, p)
                        \/ EndScan(s) \/ Load(s) \/ Others(s) \/ Raise(s)
                        \/ \E reached, settled \in SUBSET Path :
                             BeginRaises(s, reached, settled)
                        \/ \E d \in {"approved", "rejected"} : Decide(s, d)
  \/ Restart

LEMMA NextIsActions == Next => Actions
BY DEF Next, Handle, Others, Actions

LEMMA ObserveDoes ==
  ASSUME TypeOK, NEW reached \in SUBSET Path, NEW settled \in SUBSET Path,
         Observe(reached, settled)
  PROVE  /\ watch' \in [Path -> {"unseen", "seen", "claimed"}]
         /\ \A p \in Path : watch'[p] = "claimed" <=> watch[p] = "claimed" \/ p \in settled
         /\ \A p \in settled : watch[p] # "claimed"
BY DEF Observe, TypeOK

LEMMA TypeStep ==
  ASSUME TypeOK, Actions
  PROVE  TypeOK'
<1> USE DEF TypeOK
<1>1. ASSUME NEW p \in Path, NEW v \in Content, Edit(p, v) PROVE TypeOK'
  BY <1>1 DEF Edit
<1>2. ASSUME NEW s \in Scanner, NEW settled \in SUBSET Path, BeginScan(s, settled)
      PROVE  TypeOK'
  <2>1. scan' \in [Scanner -> Scan]
    BY <1>2, BeginDoes
  <2>2. /\ watch' \in [Path -> {"unseen", "seen", "claimed"}]
        /\ \A p \in Path : watch[p] = "claimed" => watch'[p] = "claimed"
    BY <1>2, ObserveDoes DEF BeginScan
  <2> QED
    BY <1>2, <2>1, <2>2 DEF BeginScan, world, bounds, history
<1>3. ASSUME NEW s \in Scanner, NEW p \in Path, Parse(s, p) PROVE TypeOK'
  <2>1. scan' \in [Scanner -> Scan] /\ receipts' \subseteq Content /\ disturbed' \in Nat
    <3>1. scan' \in [Scanner -> Scan] /\ disturbed' \in Nat
          /\ (receipts' = receipts \/ receipts' = receipts \union {file[p]})
      BY <1>3, ParseDoes
    <3> QED
      BY <3>1
  <2> QED
    BY <1>3, <2>1 DEF Parse, bounds
<1>4. ASSUME NEW s \in Scanner, EndScan(s) PROVE TypeOK'
  BY <1>4, NoScanIsScan DEF EndScan, world, bounds, history
<1>5. ASSUME NEW s \in Scanner, Load(s) PROVE TypeOK'
  <2>1. scan' \in [Scanner -> Scan]
    BY <1>5, LoadDoes
  <2> QED
    BY <1>5, <2>1 DEF Load, world, bounds, history
<1>6. ASSUME NEW s \in Scanner, Others(s) PROVE TypeOK'
  <2>1. scan' \in [Scanner -> Scan] /\ receipts' \subseteq Content
        /\ file' = file /\ watch' = watch
    <3>1. scan[s].parsed \in Content
      BY DEF Scan
    <3>2. scan' \in [Scanner -> Scan] /\ receipts' \subseteq receipts \union {scan[s].parsed}
          /\ file' = file /\ watch' = watch
      BY <1>6, OthersDo
    <3> QED
      BY <3>1, <3>2
  <2>2. executed' \in [Plan -> Nat]
    <3>1. CASE Execute(s)
      <4>1. \A n \in Nat : n + 1 \in Nat
        OBVIOUS
      <4>2. executed' = [executed EXCEPT ![scan[s].plan] = @ + 1]
        BY <3>1 DEF Execute
      <4> QED
        BY <4>1, <4>2
    <3>2. CASE ~Execute(s)
      BY <1>6, <3>2 DEF Others, CheckReceipt, Ask, GiveUp, Poll, Timeout, CampaignEnds,
                       WriteReceipt, world, bounds, history
    <3> QED
      BY <3>1, <3>2
  <2>3. approval' \in [Scanner -> [plan : Content,
                                   status : {"none", "pending", "approved", "rejected"}]]
    <3>1. CASE Ask(s)
      <4>1. [plan |-> scan[s].plan, status |-> "pending"]
              \in [plan : Content, status : {"none", "pending", "approved", "rejected"}]
        BY DEF Scan
      <4> QED
        BY <3>1, <4>1 DEF Ask
    <3>2. CASE ~Ask(s)
      BY <1>6, <3>2 DEF Others, CheckReceipt, GiveUp, Poll, Timeout, Execute, CampaignEnds,
                       WriteReceipt
    <3> QED
      BY <3>1, <3>2
  <2>4. /\ edits' = edits /\ crashes' = crashes /\ failures' = failures
        /\ disturbed' = disturbed /\ forgotten' = forgotten
    BY <1>6 DEF Others, CheckReceipt, Ask, GiveUp, Poll, Timeout, Execute, CampaignEnds,
                WriteReceipt, world, bounds, history
  <2> QED
    BY <2>1, <2>2, <2>3, <2>4
<1>7. ASSUME NEW s \in Scanner, NEW d \in {"approved", "rejected"}, Decide(s, d)
      PROVE  TypeOK'
  BY <1>7 DEF Decide, world, bounds, history
<1>8. CASE Restart
  BY <1>8, NoScanIsScan DEF Restart
<1>9. ASSUME NEW s \in Scanner, Raise(s) PROVE TypeOK'
  BY <1>9, NoScanIsScan DEF Raise
<1>10. ASSUME NEW s \in Scanner, NEW reached \in SUBSET Path, NEW settled \in SUBSET Path,
              BeginRaises(s, reached, settled)
       PROVE  TypeOK'
  <2>1. /\ watch' \in [Path -> {"unseen", "seen", "claimed"}]
        /\ \A p \in Path : watch'[p] = "claimed" <=> watch[p] = "claimed" \/ p \in settled
    BY <1>10, ObserveDoes DEF BeginRaises
  <2> QED
    BY <1>10, <2>1 DEF BeginRaises
<1> QED
  BY <1>1, <1>2, <1>3, <1>4, <1>5, <1>6, <1>7, <1>8, <1>9, <1>10 DEF Actions

-----------------------------------------------------------------------------
(* No claim is forgotten: a step is examined by what it does to one file.     *)
Kept(p) == watch[p] = "claimed" =>
             Waits(p) \/ HandledAs(p, file[p]) \/ file[p] \in receipts \/ p \in forgotten

LEMMA KeptByScan ==
  ASSUME TypeOK, NEW s \in Scanner, NEW p \in Path, Kept(p),
         watch'[p] = "claimed" => watch[p] = "claimed", file' = file,
         forgotten \subseteq forgotten',
         receipts \subseteq receipts',
         \A q \in Scanner \ {s} : scan'[q] = scan[q],
         p \in scan[s].todo =>
           \/ p \in scan'[s].todo
           \/ Begun(s)' /\ scan'[s].path = p /\ scan'[s].parsed = file[p]
           \/ file[p] \in receipts',
         Begun(s) /\ scan[s].path = p /\ scan[s].parsed = file[p] =>
           \/ Begun(s)' /\ scan'[s].path = p /\ scan'[s].parsed = file[p]
           \/ file[p] \in receipts'
  PROVE  Kept(p)'
<1> SUFFICES ASSUME watch'[p] = "claimed"
             PROVE  \/ Waits(p)' \/ HandledAs(p, file[p])'
                    \/ file[p] \in receipts' \/ p \in forgotten'
  BY DEF Kept
<1>1. CASE Waits(p)
  <2>1. PICK q \in Scanner : p \in scan[q].todo
    BY <1>1 DEF Waits
  <2>2. CASE q = s
    BY <2>1, <2>2 DEF Waits, HandledAs
  <2>3. CASE q # s
    BY <2>1, <2>3 DEF Waits
  <2> QED
    BY <2>2, <2>3
<1>2. CASE HandledAs(p, file[p])
  <2>1. PICK q \in Scanner : Begun(q) /\ scan[q].path = p /\ scan[q].parsed = file[p]
    BY <1>2 DEF HandledAs
  <2>2. CASE q = s
    BY <2>1, <2>2 DEF HandledAs
  <2>3. CASE q # s
    <3>1. Begun(q)'
      BY <2>1, <2>3 DEF Begun, At
    <3> QED
      BY <2>1, <2>3, <3>1 DEF HandledAs
  <2> QED
    BY <2>2, <2>3
<1> QED
  BY <1>1, <1>2 DEF Kept

LEMMA ClaimsStep ==
  ASSUME IInv, Actions
  PROVE  ClaimsKept' /\ IdleIsEmpty'
<1> USE DEF IInv
<1>0. SUFFICES ASSUME NEW p \in Path PROVE Kept(p)' /\ IdleIsEmpty'
  BY DEF ClaimsKept, Kept
<1>k. Kept(p)
  BY DEF ClaimsKept, Kept
<1>1. ASSUME NEW x \in Path, NEW v \in Content, Edit(x, v)
      PROVE  Kept(p)' /\ IdleIsEmpty'
  <2>1. scan' = scan /\ receipts' = receipts
        /\ (p # x => watch'[p] = watch[p] /\ file'[p] = file[p])
        /\ watch'[x] = "unseen" /\ forgotten' = forgotten \ {x}
    BY <1>1 DEF Edit, TypeOK
  <2>2. IdleIsEmpty'
    BY <2>1 DEF IdleIsEmpty, At
  <2>3. Kept(p)'
    BY <1>k, <2>1 DEF Kept, Waits, HandledAs, Begun, At
  <2> QED
    BY <2>2, <2>3
<1>2. ASSUME NEW s \in Scanner, NEW settled \in SUBSET Path, BeginScan(s, settled)
      PROVE  Kept(p)' /\ IdleIsEmpty'
  <2>1. /\ scan'[s].pc = "next" /\ scan'[s].todo = settled
        /\ \A q \in Scanner \ {s} : scan'[q] = scan[q]
    BY <1>2, BeginDoes
  <2>2. IdleIsEmpty'
    BY <2>1 DEF IdleIsEmpty, At
  <2>3. CASE p \in settled
    BY <2>1, <2>2, <2>3 DEF Kept, Waits
  <2>4. CASE p \notin settled
    <3>1. watch'[p] = "claimed" => watch[p] = "claimed"
      BY <1>2, <2>4, ObserveDoes DEF BeginScan
    <3>2. scan[s].pc = "idle" /\ file' = file /\ receipts' = receipts
          /\ forgotten' = forgotten
      BY <1>2 DEF BeginScan, At, world, bounds, history
    <3>3. scan[s].todo = {} /\ ~Begun(s)
      BY <3>2 DEF IdleIsEmpty, At, Begun
    <3> QED
      BY <1>k, <2>1, <2>2, <3>1, <3>2, <3>3, KeptByScan
  <2> QED
    BY <2>2, <2>3, <2>4
<1>3. ASSUME NEW s \in Scanner, NEW x \in Path, Parse(s, x)
      PROVE  Kept(p)' /\ IdleIsEmpty'
  <2>1. /\ scan'[s].pc \in {"next", "check"}
        /\ scan[s].todo = scan'[s].todo \union {x}
        /\ file[x] \in Plan => /\ scan'[s].pc = "check"
                               /\ scan'[s].path = x /\ scan'[s].parsed = file[x]
                               /\ receipts' = receipts
        /\ file[x] \notin Plan => receipts' = receipts \union {file[x]}
        /\ \A q \in Scanner \ {s} : scan'[q] = scan[q]
    BY <1>3, ParseDoes
  <2>2. watch' = watch /\ file' = file /\ forgotten' = forgotten /\ ~Begun(s)
    BY <1>3 DEF Parse, Begun, At
  <2>3. IdleIsEmpty'
    BY <2>1 DEF IdleIsEmpty, At
  <2>4. receipts \subseteq receipts'
    BY <2>1
  <2>5. p \in scan[s].todo =>
           \/ p \in scan'[s].todo
           \/ Begun(s)' /\ scan'[s].path = p /\ scan'[s].parsed = file[p]
           \/ file[p] \in receipts'
    BY <2>1 DEF Begun, At
  <2> QED
    BY <1>k, <2>1, <2>2, <2>3, <2>4, <2>5, KeptByScan
<1>4. ASSUME NEW s \in Scanner, EndScan(s) PROVE Kept(p)' /\ IdleIsEmpty'
  <2>1. /\ scan[s].pc = "next" /\ scan[s].todo = {} /\ scan'[s] = NoScan
        /\ \A q \in Scanner \ {s} : scan'[q] = scan[q]
        /\ watch' = watch /\ file' = file /\ receipts' = receipts
        /\ forgotten' = forgotten
    BY <1>4 DEF EndScan, TypeOK, At, world, bounds, history
  <2>2. IdleIsEmpty'
    BY <2>1, NoScanIsScan DEF IdleIsEmpty, At
  <2>3. ~Begun(s)
    BY <2>1 DEF Begun, At
  <2> QED
    BY <1>k, <2>1, <2>2, <2>3, KeptByScan
<1>5. ASSUME NEW s \in Scanner, Load(s) PROVE Kept(p)' /\ IdleIsEmpty'
  <2>1. /\ scan'[s].pc \notin {"idle", "next"}
        /\ scan'[s].todo = scan[s].todo /\ scan'[s].path = scan[s].path
        /\ scan'[s].parsed = scan[s].parsed
        /\ \A q \in Scanner \ {s} : scan'[q] = scan[q]
    BY <1>5, LoadDoes
  <2>2. watch' = watch /\ file' = file /\ receipts' = receipts /\ forgotten' = forgotten
    BY <1>5 DEF Load, world, bounds, history
  <2>3. IdleIsEmpty'
    BY <2>1 DEF IdleIsEmpty, At
  <2>4. Begun(s)'
    BY <2>1 DEF Begun, At
  <2> QED
    BY <1>k, <2>1, <2>2, <2>3, <2>4, KeptByScan
<1>6. ASSUME NEW s \in Scanner, Others(s) PROVE Kept(p)' /\ IdleIsEmpty'
  <2>1. /\ scan'[s].todo = scan[s].todo /\ scan'[s].path = scan[s].path
        /\ scan'[s].parsed = scan[s].parsed
        /\ \A q \in Scanner \ {s} : scan'[q] = scan[q]
        /\ scan'[s].pc # "idle"
        /\ scan'[s].pc = "next" => scan[s].parsed \in receipts'
        /\ receipts \subseteq receipts' /\ file' = file /\ watch' = watch
        /\ forgotten' = forgotten
    BY <1>6, OthersDo
  <2>2. IdleIsEmpty'
    BY <2>1 DEF IdleIsEmpty, At
  <2>3. Begun(s)' \/ scan[s].parsed \in receipts'
    BY <2>1 DEF Begun, At
  <2> QED
    BY <1>k, <2>1, <2>2, <2>3, KeptByScan
<1>7. ASSUME NEW s \in Scanner, NEW d \in {"approved", "rejected"}, Decide(s, d)
      PROVE  Kept(p)' /\ IdleIsEmpty'
  BY <1>k, <1>7 DEF Decide, world, bounds, history, Kept, Waits, HandledAs, Begun, At, IdleIsEmpty
<1>8. CASE Restart
  <2>1. watch'[p] = "unseen" /\ \A s \in Scanner : scan'[s] = NoScan
    BY <1>8 DEF Restart
  <2> QED
    BY <2>1, NoScanIsScan DEF Kept, IdleIsEmpty, At
<1>9. ASSUME NEW s \in Scanner, Raise(s) PROVE Kept(p)' /\ IdleIsEmpty'
  <2>1. /\ scan'[s] = NoScan /\ \A q \in Scanner \ {s} : scan'[q] = scan[q]
        /\ watch' = watch /\ file' = file /\ receipts' = receipts
        /\ forgotten' = forgotten \union {x \in Path : Has(s, x) /\ watch[x] = "claimed"}
    BY <1>9 DEF Raise, TypeOK
  <2>2. IdleIsEmpty'
    BY <2>1, NoScanIsScan DEF IdleIsEmpty, At
  <2>3. CASE p \in forgotten'
    BY <2>2, <2>3 DEF Kept
  <2>4. CASE p \notin forgotten'
    <3>1. SUFFICES ASSUME watch[p] = "claimed" PROVE Kept(p)'
      BY <2>1, <2>2 DEF Kept
    <3>2. p \notin scan[s].todo /\ ~(Begun(s) /\ scan[s].path = p)
      BY <2>1, <2>4, <3>1 DEF Has
    <3> QED
      BY <1>k, <2>1, <3>2, KeptByScan
  <2> QED
    BY <2>2, <2>3, <2>4
<1>10. ASSUME NEW s \in Scanner, NEW reached \in SUBSET Path, NEW settled \in SUBSET Path,
              BeginRaises(s, reached, settled)
       PROVE  Kept(p)' /\ IdleIsEmpty'
  <2>1. /\ scan' = scan /\ file' = file /\ receipts' = receipts
        /\ forgotten' = forgotten \union settled
        /\ watch'[p] = "claimed" => watch[p] = "claimed" \/ p \in settled
    BY <1>10, ObserveDoes DEF BeginRaises
  <2> QED
    BY <1>k, <2>1 DEF Kept, Waits, HandledAs, Begun, At, IdleIsEmpty
<1> QED
  BY <1>1, <1>2, <1>3, <1>4, <1>5, <1>6, <1>7, <1>8, <1>9, <1>10 DEF Actions

-----------------------------------------------------------------------------
(* Approval comes first.                                                      *)
Sound(s) ==
  /\ At(s, "poll") => approval[s].plan = scan[s].plan
  /\ scan[s].pc \in {"ask", "poll", "execute", "running"} => scan[s].plan \in Plan
  /\ (At(s, "execute") \/ At(s, "running")) /\ scan[s].plan \in AsksFirst =>
       approval[s] = [plan |-> scan[s].plan, status |-> "approved"]

Quiet(s) == scan[s].pc \in {"idle", "next", "check", "load", "receipt"}

LEMMA ApprovalStep ==
  ASSUME IInv, Actions, NEW q \in Scanner
  PROVE  Sound(q)'
<1>q. Sound(q)
  BY DEF IInv, Sound, PolledIsAsked, ReadyIsPlan, ApprovedFirst
<1> USE DEF IInv
<1>u. ASSUME scan'[q] = scan[q], approval'[q] = approval[q] PROVE Sound(q)'
  BY <1>q, <1>u DEF Sound, At
<1>z. ASSUME Quiet(q)' PROVE Sound(q)'
  BY <1>z DEF Quiet, Sound, At
<1>1. ASSUME NEW x \in Path, NEW v \in Content, Edit(x, v) PROVE Sound(q)'
  BY <1>1, <1>u DEF Edit
<1>2. ASSUME NEW s \in Scanner, NEW settled \in SUBSET Path, BeginScan(s, settled)
      PROVE  Sound(q)'
  <2>1. scan'[s].pc = "next" /\ \A y \in Scanner \ {s} : scan'[y] = scan[y]
    BY <1>2, BeginDoes
  <2>2. approval' = approval
    BY <1>2 DEF BeginScan
  <2> QED
    BY <1>u, <1>z, <2>1, <2>2 DEF Quiet
<1>3. ASSUME NEW s \in Scanner, NEW x \in Path, Parse(s, x) PROVE Sound(q)'
  <2>1. scan'[s].pc \in {"next", "check"} /\ \A y \in Scanner \ {s} : scan'[y] = scan[y]
    BY <1>3, ParseDoes
  <2>2. approval' = approval
    BY <1>3 DEF Parse
  <2> QED
    BY <1>u, <1>z, <2>1, <2>2 DEF Quiet
<1>4. ASSUME NEW s \in Scanner, EndScan(s) PROVE Sound(q)'
  <2>1. scan'[s] = NoScan /\ (\A y \in Scanner \ {s} : scan'[y] = scan[y])
        /\ approval' = approval
    BY <1>4 DEF EndScan, TypeOK
  <2> QED
    BY <1>u, <1>z, <2>1, NoScanIsScan DEF Quiet
<1>5. ASSUME NEW s \in Scanner, Load(s) PROVE Sound(q)'
  <2>1. /\ \/ scan'[s].plan \in AsksFirst /\ scan'[s].pc = "ask"
           \/ scan'[s].plan \in Plan \ AsksFirst /\ scan'[s].pc = "execute"
           \/ scan'[s].pc = "receipt"
        /\ \A y \in Scanner \ {s} : scan'[y] = scan[y]
    BY <1>5, LoadDoes
  <2>2. approval' = approval
    BY <1>5 DEF Load
  <2>3. CASE q # s
    BY <1>u, <2>1, <2>2, <2>3
  <2>4. CASE q = s
    BY <2>1, <2>4 DEF Sound, At
  <2> QED
    BY <2>3, <2>4
<1>6. ASSUME NEW s \in Scanner, Others(s) PROVE Sound(q)'
  <2>1. /\ scan'[s].plan = scan[s].plan
        /\ \A y \in Scanner \ {s} : scan'[y] = scan[y]
    BY <1>6, OthersDo
  <2>2. \A y \in Scanner \ {s} : approval'[y] = approval[y]
    BY <1>6 DEF Others, CheckReceipt, Ask, GiveUp, Poll, Timeout, Execute, CampaignEnds,
                WriteReceipt, TypeOK
  <2>3. CASE q # s
    BY <1>u, <2>1, <2>2, <2>3
  <2>4. CASE q = s
    <3> USE GotoDoes, <2>4 DEF PCs
    <3>1. CASE CheckReceipt(s)
      <4>1. scan'[s].pc \in {"next", "load"}
        BY <3>1 DEF CheckReceipt
      <4> QED
        BY <1>z, <4>1 DEF Quiet
    <3>2. CASE Ask(s)
      <4>1. approval'[s] = [plan |-> scan[s].plan, status |-> "pending"]
            /\ scan'[s].pc = "poll" /\ scan[s].pc = "ask"
        BY <3>2 DEF Ask, TypeOK, At
      <4> QED
        BY <1>q, <2>1, <4>1 DEF Sound, At
    <3>3. CASE GiveUp(s) \/ Timeout(s) \/ CampaignEnds(s)
      <4>1. scan'[s].pc = "receipt"
        BY <3>3 DEF GiveUp, Timeout, CampaignEnds
      <4> QED
        BY <1>z, <4>1 DEF Quiet
    <3>4. CASE Poll(s)
      <4>1. approval' = approval /\ scan[s].pc = "poll"
            /\ \/ scan'[s].pc = "receipt"
               \/ scan'[s].pc = "execute" /\ approval[s].status = "approved"
        BY <3>4 DEF Poll, At
      <4>2. approval[s] = [plan |-> approval[s].plan, status |-> approval[s].status]
        BY DEF TypeOK
      <4> QED
        BY <1>q, <2>1, <4>1, <4>2 DEF Sound, At
    <3>5. CASE Execute(s)
      <4>1. approval' = approval /\ scan[s].pc = "execute" /\ scan'[s].pc = "running"
        BY <3>5 DEF Execute, At
      <4> QED
        BY <1>q, <2>1, <4>1 DEF Sound, At
    <3>6. CASE WriteReceipt(s)
      <4>1. scan'[s].pc = "next"
        BY <3>6 DEF WriteReceipt
      <4> QED
        BY <1>z, <4>1 DEF Quiet
    <3> QED
      BY <1>6, <3>1, <3>2, <3>3, <3>4, <3>5, <3>6 DEF Others
  <2> QED
    BY <2>3, <2>4
<1>7. ASSUME NEW s \in Scanner, NEW d \in {"approved", "rejected"}, Decide(s, d)
      PROVE  Sound(q)'
  <2>1. scan' = scan /\ approval[s].status = "pending"
        /\ approval'[s].plan = approval[s].plan
        /\ \A y \in Scanner \ {s} : approval'[y] = approval[y]
    BY <1>7 DEF Decide, TypeOK
  <2>2. CASE q # s
    BY <1>u, <2>1, <2>2
  <2>3. CASE q = s
    BY <1>q, <2>1, <2>3 DEF Sound, At
  <2> QED
    BY <2>2, <2>3
<1>8. CASE Restart
  <2>1. scan'[q] = NoScan
    BY <1>8 DEF Restart
  <2> QED
    BY <1>z, <2>1, NoScanIsScan DEF Quiet
<1>9. ASSUME NEW s \in Scanner, Raise(s) PROVE Sound(q)'
  <2>1. scan'[s] = NoScan /\ (\A y \in Scanner \ {s} : scan'[y] = scan[y])
        /\ approval' = approval
    BY <1>9 DEF Raise, TypeOK
  <2> QED
    BY <1>u, <1>z, <2>1, NoScanIsScan DEF Quiet
<1>10. ASSUME NEW s \in Scanner, NEW reached \in SUBSET Path, NEW settled \in SUBSET Path,
              BeginRaises(s, reached, settled)
       PROVE  Sound(q)'
  BY <1>10, <1>u DEF BeginRaises
<1> QED
  BY <1>1, <1>2, <1>3, <1>4, <1>5, <1>6, <1>7, <1>8, <1>9, <1>10 DEF Actions

-----------------------------------------------------------------------------
LEMMA StepIInv == IInv /\ [Next]_vars => IInv'
<1>1. ASSUME IInv, Next PROVE IInv'
  <2>1. Actions
    BY <1>1, NextIsActions
  <2>2. TypeOK'
    BY <1>1, <2>1, TypeStep DEF IInv
  <2>3. ClaimsKept' /\ IdleIsEmpty'
    BY <1>1, <2>1, ClaimsStep
  <2>4. PolledIsAsked' /\ ReadyIsPlan' /\ ApprovedFirst'
    BY <1>1, <2>1, ApprovalStep DEF Sound, PolledIsAsked, ReadyIsPlan, ApprovedFirst
  <2> QED
    BY <2>2, <2>3, <2>4 DEF IInv
<1>2. ASSUME IInv, UNCHANGED vars PROVE IInv'
  BY <1>2 DEF vars, IInv, TypeOK, ClaimsKept, Waits, HandledAs, Begun, IdleIsEmpty,
              PolledIsAsked, ReadyIsPlan, ApprovedFirst, At
<1> QED
  BY <1>1, <1>2

LEMMA Invariance == Spec => []IInv
BY InitIInv, StepIInv, PTL DEF Spec

(* Every variable keeps its type.                                             *)
THEOREM TypeCorrect == Spec => []TypeOK
<1>1. IInv => TypeOK
  BY DEF IInv
<1> QED
  BY <1>1, Invariance, PTL

(* A claimed file is being handled or has its receipt, unless a scan that had *)
(* it raised.                                                                 *)
THEOREM ClaimsAreKept == Spec => []ClaimIsSettled
<1>1. IInv => ClaimIsSettled
  BY DEF IInv, ClaimsKept, ClaimIsSettled, InHand, Has, Waits, HandledAs
<1> QED
  BY <1>1, Invariance, PTL

(* What is executed and wanted an approval has one, for itself.               *)
THEOREM ApprovalComesFirst == Spec => []ApprovedFirst
<1>1. IInv => ApprovedFirst
  BY DEF IInv
<1> QED
  BY <1>1, Invariance, PTL

-----------------------------------------------------------------------------
(* No plan is executed twice by itself.  A scan holds a file until it has     *)
(* read the plan in it; of the holders of a file one is free of charge while  *)
(* the claim is fresh, unless it is parsed as the plan we count, whose one    *)
(* execution is due.  Every other holder, and every other execution that is   *)
(* due, was paid for by a disturbance.  (A holder that has parsed the file as *)
(* the plan we count is not free: what it may execute is accounted for when   *)
(* the plan becomes known.)                                                   *)
Holds(s, p) == p \in scan[s].todo \/ (scan[s].pc \in {"check", "load"} /\ scan[s].path = p)
Held == {h \in Scanner \X Path : Holds(h[1], h[2])}

Doomed(s) == At(s, "check") /\ scan[s].parsed \in receipts

Open(s, p, v) ==
  \/ p \in scan[s].todo
  \/ /\ scan[s].pc \in {"check", "load"} /\ scan[s].path = p
     /\ (file[p] # v /\ scan[s].parsed # v) \/ Doomed(s)

Free(v) == {p \in Path : watch[p] = "claimed" /\ \E s \in Scanner : Open(s, p, v)}

Due(s, v) == scan[s].pc \in {"ask", "poll", "execute"} /\ scan[s].plan = v
Loaded(v) == {s \in Scanner : Due(s, v)}

Known(v) == v \in receipts \/ \E s \in Scanner : Begun(s) /\ scan[s].parsed = v

Balance(v) ==
  executed[v] + Cardinality(Loaded(v)) + Cardinality(Held)
    <= disturbed + (IF Known(v) THEN 1 ELSE 0) + Cardinality(Free(v))

(* A scan that reads a file does not have it in its list any more.            *)
ReadOnce == \A s \in Scanner : scan[s].pc \in {"check", "load"} => scan[s].path \notin scan[s].todo

OnceInv == ReadOnce /\ \A v \in Plan : Balance(v)

-----------------------------------------------------------------------------
(* Counting.                                                                  *)
LEMMA FewScans ==
  ASSUME NEW S \in SUBSET Scanner PROVE IsFiniteSet(S) /\ Cardinality(S) \in Nat
BY FiniteAssumption, FS_Subset, FS_CardinalityType

LEMMA FewPaths ==
  ASSUME NEW S \in SUBSET Path PROVE IsFiniteSet(S) /\ Cardinality(S) \in Nat
BY FiniteAssumption, FS_Subset, FS_CardinalityType

LEMMA FewPairs ==
  ASSUME NEW S \in SUBSET (Scanner \X Path) PROVE IsFiniteSet(S) /\ Cardinality(S) \in Nat
<1>1. IsFiniteSet(Scanner \X Path)
  BY FiniteAssumption, FS_Product
<1> QED
  BY <1>1, FS_Subset, FS_CardinalityType

LEMMA Counts ==
  ASSUME NEW v
  PROVE  /\ IsFiniteSet(Loaded(v)) /\ Cardinality(Loaded(v)) \in Nat
         /\ IsFiniteSet(Held) /\ Cardinality(Held) \in Nat
         /\ IsFiniteSet(Free(v)) /\ Cardinality(Free(v)) \in Nat
<1>1. Loaded(v) \in SUBSET Scanner /\ Held \in SUBSET (Scanner \X Path)
      /\ Free(v) \in SUBSET Path
  BY DEF Loaded, Held, Free
<1> QED
  BY <1>1, FewScans, FewPaths, FewPairs

LEMMA CountsNext ==
  ASSUME NEW v
  PROVE  /\ IsFiniteSet(Loaded(v)') /\ Cardinality(Loaded(v)') \in Nat
         /\ IsFiniteSet(Held') /\ Cardinality(Held') \in Nat
         /\ IsFiniteSet(Free(v)') /\ Cardinality(Free(v)') \in Nat
<1>1. Loaded(v)' \in SUBSET Scanner /\ Held' \in SUBSET (Scanner \X Path)
      /\ Free(v)' \in SUBSET Path
  BY DEF Loaded, Held, Free
<1> QED
  BY <1>1, FewScans, FewPaths, FewPairs

(* Every free holder is a holder, of a path of its own.                       *)
LEMMA FreeAreHeld ==
  ASSUME NEW v PROVE Cardinality(Free(v)) <= Cardinality(Held)
<1> DEFINE holder == [p \in Free(v) |-> <<CHOOSE s \in Scanner : Open(s, p, v), p>>]
<1>1. ASSUME NEW p \in Free(v)
      PROVE  /\ p \in Path
             /\ (CHOOSE s \in Scanner : Open(s, p, v)) \in Scanner
             /\ Holds(CHOOSE s \in Scanner : Open(s, p, v), p)
  BY <1>1 DEF Free, Open, Holds
<1>2. \A p \in Free(v) : holder[p] \in Held /\ holder[p][2] = p
  BY <1>1 DEF Held
<1>3. holder \in [Free(v) -> Held]
  BY <1>2
<1>4. holder \in Injection(Free(v), Held)
  <2>1. \A p, q \in Free(v) : holder[p] = holder[q] => p = q
    BY <1>2
  <2> QED
    BY <1>3, <2>1 DEF Injection, IsInjective
<1> QED
  BY <1>4, Counts, FS_Injection

(* One scan moves, the files stay.                                            *)
Moves(s) ==
  /\ \A q \in Scanner \ {s} : scan'[q] = scan[q]
  /\ file' = file /\ watch' = watch /\ receipts \subseteq receipts'

LEMMA OthersStay ==
  ASSUME NEW s \in Scanner, Moves(s), NEW q \in Scanner, q # s, NEW p, NEW v
  PROVE  /\ Holds(q, p)' <=> Holds(q, p)
         /\ Open(q, p, v) => Open(q, p, v)'
         /\ Due(q, v)' <=> Due(q, v)
         /\ Begun(q)' <=> Begun(q)
         /\ scan'[q] = scan[q]
<1>1. scan'[q] = scan[q] /\ file' = file /\ receipts \subseteq receipts'
  BY DEF Moves
<1>2. Doomed(q) => Doomed(q)'
  BY <1>1 DEF Doomed, At
<1> QED
  BY <1>1, <1>2 DEF Holds, Open, Due, Begun, At

LEMMA HeldStay ==
  ASSUME NEW s \in Scanner, Moves(s), \A p \in Path : Holds(s, p)' <=> Holds(s, p)
  PROVE  Held' = Held
<1>1. \A q \in Scanner, p \in Path : Holds(q, p)' <=> Holds(q, p)
  BY OthersStay
<1> QED
  BY <1>1 DEF Held

LEMMA HeldLess ==
  ASSUME NEW s \in Scanner, Moves(s), NEW x \in Path, Holds(s, x),
         \A p \in Path : Holds(s, p)' <=> Holds(s, p) /\ p # x
  PROVE  Cardinality(Held') = Cardinality(Held) - 1
<1>1. \A q \in Scanner, p \in Path : q # s => (Holds(q, p)' <=> Holds(q, p))
  BY OthersStay
<1>2. Held' = Held \ {<<s, x>>}
  <2>1. ASSUME NEW q \in Scanner, NEW p \in Path
        PROVE  <<q, p>> \in Held' <=> <<q, p>> \in Held \ {<<s, x>>}
    BY <1>1 DEF Held
  <2> QED
    BY <2>1 DEF Held
<1>3. <<s, x>> \in Held
  BY DEF Held
<1> QED
  BY <1>2, <1>3, Counts, FS_RemoveElement

LEMMA FreeStay ==
  ASSUME NEW s \in Scanner, NEW v, Moves(s), \A p \in Path : Open(s, p, v) => Open(s, p, v)'
  PROVE  Cardinality(Free(v)) <= Cardinality(Free(v)')
<1>1. \A q \in Scanner, p \in Path : Open(q, p, v) => Open(q, p, v)'
  BY OthersStay
<1>2. Free(v) \subseteq Free(v)'
  BY <1>1 DEF Free, Moves
<1> QED
  BY <1>2, CountsNext, FS_Subset

LEMMA FreeLess ==
  ASSUME NEW s \in Scanner, NEW v, Moves(s), NEW x \in Path,
         \A p \in Path : p # x /\ Open(s, p, v) => Open(s, p, v)'
  PROVE  Cardinality(Free(v)) - 1 <= Cardinality(Free(v)')
<1>1. \A q \in Scanner, p \in Path : p # x /\ Open(q, p, v) => Open(q, p, v)'
  BY OthersStay
<1>2. Free(v) \ {x} \subseteq Free(v)'
  BY <1>1 DEF Free, Moves
<1>3. Cardinality(Free(v) \ {x}) <= Cardinality(Free(v)')
  BY <1>2, CountsNext, FS_Subset
<1>4. Cardinality(Free(v) \ {x}) >= Cardinality(Free(v)) - 1
  <2>1. Cardinality(Free(v) \ {x}) =
          IF x \in Free(v) THEN Cardinality(Free(v)) - 1 ELSE Cardinality(Free(v))
    BY Counts, FS_RemoveElement
  <2> QED
    BY <2>1, Counts
<1>5. Cardinality(Free(v) \ {x}) \in Nat
  BY Counts, FS_RemoveElement, FS_CardinalityType
<1> QED
  BY <1>3, <1>4, <1>5, Counts, CountsNext

LEMMA LoadedStay ==
  ASSUME NEW s \in Scanner, NEW v, Moves(s), Due(s, v)' => Due(s, v)
  PROVE  Cardinality(Loaded(v)') <= Cardinality(Loaded(v))
<1>1. \A q \in Scanner : Due(q, v)' => Due(q, v)
  BY OthersStay
<1>2. Loaded(v)' \subseteq Loaded(v)
  BY <1>1 DEF Loaded
<1> QED
  BY <1>2, Counts, FS_Subset

LEMMA LoadedMore ==
  ASSUME NEW s \in Scanner, NEW v, Moves(s)
  PROVE  Cardinality(Loaded(v)') <= Cardinality(Loaded(v)) + 1
<1>1. \A q \in Scanner : Due(q, v)' => Due(q, v) \/ q = s
  BY OthersStay
<1>2. Loaded(v)' \subseteq Loaded(v) \union {s}
  BY <1>1 DEF Loaded
<1>3. IsFiniteSet(Loaded(v) \union {s})
      /\ Cardinality(Loaded(v) \union {s}) <= Cardinality(Loaded(v)) + 1
  <2>1. IsFiniteSet(Loaded(v) \union {s})
        /\ Cardinality(Loaded(v) \union {s}) =
             IF s \in Loaded(v) THEN Cardinality(Loaded(v)) ELSE Cardinality(Loaded(v)) + 1
    BY Counts, FS_AddElement
  <2> QED
    BY <2>1, Counts
<1>4. Cardinality(Loaded(v)') <= Cardinality(Loaded(v) \union {s})
  BY <1>2, <1>3, FS_Subset
<1>5. Cardinality(Loaded(v) \union {s}) \in Nat
  BY <1>3, FS_CardinalityType
<1> QED
  BY <1>3, <1>4, <1>5, Counts, CountsNext

LEMMA LoadedLess ==
  ASSUME NEW s \in Scanner, NEW v, Moves(s), Due(s, v), ~Due(s, v)'
  PROVE  Cardinality(Loaded(v)') = Cardinality(Loaded(v)) - 1
<1>1. \A q \in Scanner : Due(q, v)' <=> Due(q, v) /\ q # s
  BY OthersStay
<1>2. Loaded(v)' = Loaded(v) \ {s} /\ s \in Loaded(v)
  BY <1>1 DEF Loaded
<1> QED
  BY <1>2, Counts, FS_RemoveElement

(* What is known of a plan is lost only by a scan that leaves it.             *)
LEMMA KnownStays ==
  ASSUME NEW s \in Scanner, NEW v, Moves(s), Known(v),
         Begun(s) /\ scan[s].parsed = v =>
           v \in receipts' \/ (Begun(s)' /\ scan'[s].parsed = v)
  PROVE  Known(v)'
<1>1. \A q \in Scanner : q # s /\ Begun(q) /\ scan[q].parsed = v =>
                           Begun(q)' /\ scan'[q].parsed = v
  BY OthersStay
<1> QED
  BY <1>1 DEF Known, Moves

-----------------------------------------------------------------------------
(* Each step, and the plan v that is counted.                                 *)
LEMMA ParseOnce ==
  ASSUME IInv, OnceInv, NEW v \in Plan, NEW s \in Scanner, NEW x \in Path, Parse(s, x)
  PROVE  Balance(v)'
<1>1. /\ scan[s].todo = scan'[s].todo \union {x} /\ x \notin scan'[s].todo
      /\ file[x] \in Plan => /\ scan'[s].pc = "check"
                             /\ scan'[s].path = x /\ scan'[s].parsed = file[x]
                             /\ receipts' = receipts
      /\ file[x] \notin Plan => /\ scan'[s].pc = "next"
                                /\ receipts' = receipts \union {file[x]}
      /\ disturbed' \in Nat
      /\ \A q \in Scanner \ {s} : scan'[q] = scan[q]
  BY ParseDoes DEF IInv
<1>2. scan[s].pc = "next" /\ executed' = executed /\ watch' = watch /\ file' = file
  BY DEF Parse, At
<1>3. Moves(s)
  BY <1>1, <1>2 DEF Moves
<1>4. ~Due(s, v) /\ ~Due(s, v)' /\ ~Begun(s)
  BY <1>1, <1>2 DEF Due, Begun, At
<1>5. Cardinality(Loaded(v)') <= Cardinality(Loaded(v))
  BY <1>3, <1>4, LoadedStay
<1>6. Known(v) => Known(v)'
  BY <1>3, <1>4, KnownStays
<1>7. /\ executed[v] \in Nat /\ disturbed \in Nat /\ disturbed' \in Nat
      /\ Balance(v)
  BY <1>1 DEF IInv, TypeOK, OnceInv
<1> USE Counts, CountsNext
<1>8. CASE file[x] \notin Plan
  <2>1. Cardinality(Held') = Cardinality(Held) - 1
    BY <1>1, <1>2, <1>3, <1>8, HeldLess DEF Holds
  <2>2. Cardinality(Free(v)) - 1 <= Cardinality(Free(v)')
    BY <1>1, <1>2, <1>3, FreeLess DEF Open
  <2>3. disturbed' = disturbed
    BY <1>8 DEF Parse
  <2> QED
    BY <1>2, <1>5, <1>6, <1>7, <2>1, <2>2, <2>3 DEF Balance
<1>9. CASE file[x] \in Plan
  <2>1. Held' = Held
    BY <1>1, <1>2, <1>3, <1>9, HeldStay DEF Holds
  <2>2. disturbed <= disturbed'
    BY <1>7, <1>9 DEF Parse
  <2>3. CASE file[x] # v \/ v \in receipts
    <3>1. Cardinality(Free(v)) <= Cardinality(Free(v)')
      BY <1>1, <1>2, <1>3, <1>9, <2>3, FreeStay DEF Open, Doomed, At
    <3> QED
      BY <1>2, <1>5, <1>6, <1>7, <2>1, <2>2, <3>1 DEF Balance
  <2>4. CASE file[x] = v /\ v \notin receipts
    <3>1. Cardinality(Free(v)) - 1 <= Cardinality(Free(v)')
      BY <1>1, <1>2, <1>3, FreeLess DEF Open
    <3>2. Known(v)'
      BY <1>1, <1>9, <2>4 DEF Known, Begun, At
    <3>3. CASE \E q \in Scanner \ {s} : Begun(q) /\ scan[q].parsed = file[x]
      <4>1. disturbed' = disturbed + 1
        BY <1>9, <3>3 DEF Parse
      <4>2. Known(v)
        BY <2>4, <3>3 DEF Known
      <4> QED
        BY <1>2, <1>5, <1>7, <2>1, <3>1, <3>2, <4>1, <4>2 DEF Balance
    <3>4. CASE ~\E q \in Scanner \ {s} : Begun(q) /\ scan[q].parsed = file[x]
      <4>1. ~Known(v)
        BY <1>4, <2>4, <3>4 DEF Known
      <4> QED
        BY <1>2, <1>5, <1>7, <2>1, <2>2, <3>1, <3>2, <4>1 DEF Balance
    <3> QED
      BY <3>3, <3>4
  <2> QED
    BY <2>3, <2>4
<1> QED
  BY <1>8, <1>9

LEMMA LoadOnce ==
  ASSUME IInv, OnceInv, NEW v \in Plan, NEW s \in Scanner, Load(s)
  PROVE  Balance(v)'
<1> DEFINE x == scan[s].path
<1>1. /\ scan'[s].pc \notin {"check", "load", "idle", "next"}
      /\ scan'[s].plan = file[scan[s].path]
      /\ scan'[s].todo = scan[s].todo /\ scan'[s].path = scan[s].path
      /\ scan'[s].parsed = scan[s].parsed
      /\ \A q \in Scanner \ {s} : scan'[q] = scan[q]
  BY LoadDoes DEF IInv
<1>2. /\ scan[s].pc = "load" /\ executed' = executed /\ watch' = watch /\ file' = file
      /\ receipts' = receipts /\ disturbed' = disturbed
  BY DEF Load, At, world, bounds, history
<1>3. Moves(s) /\ ~Due(s, v)
  BY <1>1, <1>2 DEF Moves, Due
<1>4. x \in Path /\ x \notin scan[s].todo
  BY <1>2 DEF IInv, TypeOK, Scan, OnceInv, ReadOnce
<1>5. Known(v) => Known(v)'
  BY <1>1, <1>3, KnownStays DEF Begun, At
<1>6. Cardinality(Held') = Cardinality(Held) - 1
  BY <1>1, <1>2, <1>3, <1>4, HeldLess DEF Holds
<1>7. executed[v] \in Nat /\ disturbed \in Nat /\ Balance(v)
  BY DEF IInv, TypeOK, OnceInv
<1> USE Counts, CountsNext
<1>8. CASE file[x] = v
  <2>1. Cardinality(Free(v)) <= Cardinality(Free(v)')
    BY <1>1, <1>2, <1>3, <1>8, FreeStay DEF Open, Doomed, At
  <2>2. Cardinality(Loaded(v)') <= Cardinality(Loaded(v)) + 1
    BY <1>3, LoadedMore
  <2> QED
    BY <1>2, <1>5, <1>6, <1>7, <2>1, <2>2 DEF Balance
<1>9. CASE file[x] # v
  <2>1. Cardinality(Free(v)) - 1 <= Cardinality(Free(v)')
    BY <1>1, <1>2, <1>3, <1>4, FreeLess DEF Open
  <2>2. Cardinality(Loaded(v)') <= Cardinality(Loaded(v))
    BY <1>1, <1>3, <1>9, LoadedStay DEF Due
  <2> QED
    BY <1>2, <1>5, <1>6, <1>7, <2>1, <2>2 DEF Balance
<1> QED
  BY <1>8, <1>9

LEMMA CheckOnce ==
  ASSUME IInv, OnceInv, NEW v \in Plan, NEW s \in Scanner, CheckReceipt(s)
  PROVE  Balance(v)'
<1> DEFINE x == scan[s].path
<1>1. /\ scan'[s].todo = scan[s].todo /\ scan'[s].path = scan[s].path
      /\ scan'[s].parsed = scan[s].parsed
      /\ \A q \in Scanner \ {s} : scan'[q] = scan[q]
  BY OthersDo DEF IInv, Others
<1>2. /\ scan[s].pc = "check" /\ executed' = executed /\ watch' = watch /\ file' = file
      /\ receipts' = receipts /\ disturbed' = disturbed
  BY DEF CheckReceipt, At, world, bounds, history
<1>3. scan'[s].pc = IF scan[s].parsed \in receipts THEN "next" ELSE "load"
  BY GotoDoes DEF CheckReceipt, IInv, PCs
<1>4. Moves(s) /\ ~Due(s, v) /\ ~Due(s, v)'
  BY <1>1, <1>2, <1>3 DEF Moves, Due
<1>5. Cardinality(Loaded(v)') <= Cardinality(Loaded(v))
  BY <1>4, LoadedStay
<1>6. Known(v) => Known(v)'
  BY <1>1, <1>2, <1>3, <1>4, KnownStays DEF Begun, At
<1>7. executed[v] \in Nat /\ disturbed \in Nat /\ Balance(v)
  BY DEF IInv, TypeOK, OnceInv
<1> USE Counts, CountsNext
<1>8. CASE scan[s].parsed \in receipts
  <2>1. x \in Path /\ x \notin scan[s].todo
    BY <1>2 DEF IInv, TypeOK, Scan, OnceInv, ReadOnce
  <2>2. Cardinality(Held') = Cardinality(Held) - 1
    BY <1>1, <1>2, <1>3, <1>4, <1>8, <2>1, HeldLess DEF Holds
  <2>3. Cardinality(Free(v)) - 1 <= Cardinality(Free(v)')
    BY <1>1, <1>2, <1>4, <2>1, FreeLess DEF Open
  <2> QED
    BY <1>2, <1>5, <1>6, <1>7, <2>2, <2>3 DEF Balance
<1>9. CASE scan[s].parsed \notin receipts
  <2>1. Held' = Held
    BY <1>1, <1>2, <1>3, <1>4, <1>9, HeldStay DEF Holds
  <2>2. Cardinality(Free(v)) <= Cardinality(Free(v)')
    BY <1>1, <1>2, <1>3, <1>4, <1>9, FreeStay DEF Open, Doomed, At
  <2> QED
    BY <1>2, <1>5, <1>6, <1>7, <2>1, <2>2 DEF Balance
<1> QED
  BY <1>8, <1>9

(* The steps of a scan that has read its file.                                *)
Later(s) ==
  \/ Ask(s) \/ GiveUp(s) \/ Poll(s) \/ Timeout(s)
  \/ Execute(s) \/ CampaignEnds(s) \/ WriteReceipt(s)

LEMMA LaterOnce ==
  ASSUME IInv, OnceInv, NEW v \in Plan, NEW s \in Scanner, Later(s)
  PROVE  Balance(v)'
<1>1. /\ scan'[s].todo = scan[s].todo /\ scan'[s].parsed = scan[s].parsed
      /\ scan'[s].plan = scan[s].plan
      /\ \A q \in Scanner \ {s} : scan'[q] = scan[q]
      /\ scan'[s].pc # "idle"
      /\ scan'[s].pc = "next" =>
           receipts' = receipts \union {scan[s].parsed} \/ scan[s].parsed \in receipts
      /\ receipts \subseteq receipts' /\ file' = file /\ watch' = watch
  BY OthersDo DEF IInv, Others, Later
<1>2. /\ scan[s].pc \in {"ask", "poll", "execute", "running", "receipt"}
      /\ scan'[s].pc \notin {"check", "load"}
      /\ disturbed' = disturbed
      /\ scan[s].pc \in {"running", "receipt"} =>
           scan'[s].pc \notin {"ask", "poll", "execute"}
  BY GotoDoes DEF Later, Ask, GiveUp, Poll, Timeout, Execute, CampaignEnds, WriteReceipt,
                  At, IInv, PCs, world, history
<1>3. Moves(s)
  BY <1>1 DEF Moves
<1>4. Held' = Held
  BY <1>1, <1>2, <1>3, HeldStay DEF Holds
<1>5. Cardinality(Free(v)) <= Cardinality(Free(v)')
  BY <1>1, <1>2, <1>3, FreeStay DEF Open
<1>6. Known(v) => Known(v)'
  BY <1>1, <1>3, KnownStays DEF Begun, At
<1>7. executed[v] \in Nat /\ disturbed \in Nat /\ Balance(v)
  BY DEF IInv, TypeOK, OnceInv
<1> USE Counts, CountsNext
<1>8. CASE Execute(s)
  <2>1. scan[s].pc = "execute" /\ scan'[s].pc = "running" /\ scan[s].plan \in Plan
    BY <1>8, GotoDoes DEF Execute, At, IInv, ReadyIsPlan, PCs
  <2>2. executed' = [executed EXCEPT ![scan[s].plan] = @ + 1]
    BY <1>8 DEF Execute
  <2>3. CASE scan[s].plan = v
    <3>1. executed'[v] = executed[v] + 1
      BY <2>2, <2>3 DEF IInv, TypeOK
    <3>2. Cardinality(Loaded(v)') = Cardinality(Loaded(v)) - 1
      BY <1>3, <2>1, <2>3, LoadedLess DEF Due
    <3> QED
      BY <1>2, <1>4, <1>5, <1>6, <1>7, <3>1, <3>2 DEF Balance
  <2>4. CASE scan[s].plan # v
    <3>1. executed'[v] = executed[v]
      BY <2>2, <2>4 DEF IInv, TypeOK
    <3>2. Cardinality(Loaded(v)') <= Cardinality(Loaded(v))
      BY <1>1, <1>3, <2>4, LoadedStay DEF Due
    <3> QED
      BY <1>2, <1>4, <1>5, <1>6, <1>7, <3>1, <3>2 DEF Balance
  <2> QED
    BY <2>3, <2>4
<1>9. CASE ~Execute(s)
  <2>1. executed' = executed
    BY <1>9 DEF Later, Ask, GiveUp, Poll, Timeout, CampaignEnds, WriteReceipt, world, bounds, history
  <2>2. Cardinality(Loaded(v)') <= Cardinality(Loaded(v))
    BY <1>1, <1>2, <1>3, LoadedStay DEF Due
  <2> QED
    BY <1>2, <1>4, <1>5, <1>6, <1>7, <2>1, <2>2 DEF Balance
<1> QED
  BY <1>8, <1>9

LEMMA EndScanOnce ==
  ASSUME IInv, OnceInv, NEW v \in Plan, NEW s \in Scanner, EndScan(s)
  PROVE  Balance(v)'
<1>1. /\ scan[s].pc = "next" /\ scan[s].todo = {} /\ scan'[s] = NoScan
      /\ \A q \in Scanner \ {s} : scan'[q] = scan[q]
      /\ watch' = watch /\ file' = file /\ receipts' = receipts
      /\ disturbed' = disturbed /\ executed' = executed
  BY DEF EndScan, IInv, TypeOK, At, world, bounds, history
<1>2. Moves(s) /\ ~Due(s, v) /\ ~Due(s, v)' /\ ~Begun(s)
  BY <1>1, NoScanIsScan DEF Moves, Due, Begun, At
<1>3. \A p \in Path : ~Holds(s, p) /\ ~Holds(s, p)' /\ ~Open(s, p, v)
  BY <1>1, NoScanIsScan DEF Holds, Open
<1>4. Held' = Held
  BY <1>2, <1>3, HeldStay
<1>5. Cardinality(Free(v)) <= Cardinality(Free(v)')
  BY <1>2, <1>3, FreeStay
<1>6. Cardinality(Loaded(v)') <= Cardinality(Loaded(v))
  BY <1>2, LoadedStay
<1>7. Known(v) => Known(v)'
  BY <1>2, KnownStays
<1>8. executed[v] \in Nat /\ disturbed \in Nat /\ Balance(v)
  BY DEF IInv, TypeOK, OnceInv
<1> QED
  BY <1>1, <1>4, <1>5, <1>6, <1>7, <1>8, Counts, CountsNext DEF Balance

(* The files that a scan claims come with one free holder each.               *)
LEMMA BeginOnce ==
  ASSUME IInv, OnceInv, NEW v \in Plan, NEW s \in Scanner, NEW settled \in SUBSET Path,
         BeginScan(s, settled)
  PROVE  Balance(v)'
<1>1. /\ scan'[s].pc = "next" /\ scan'[s].todo = settled
      /\ \A q \in Scanner \ {s} : scan'[q] = scan[q]
  BY BeginDoes DEF IInv
<1>2. /\ scan[s].pc = "idle" /\ file' = file /\ receipts' = receipts
      /\ executed' = executed /\ disturbed' = disturbed
      /\ \A p \in settled : watch[p] # "claimed" /\ watch'[p] = "claimed"
      /\ \A p \in Path : watch[p] = "claimed" => watch'[p] = "claimed"
  BY ObserveDoes DEF BeginScan, At, world, bounds, history, IInv
<1>3. scan[s].todo = {}
  BY <1>2 DEF IInv, IdleIsEmpty, At
<1>4. ASSUME NEW q \in Scanner, q # s
      PROVE  /\ \A p \in Path : (Holds(q, p)' <=> Holds(q, p)) /\ (Open(q, p, v) => Open(q, p, v)')
             /\ (Due(q, v)' <=> Due(q, v)) /\ (Begun(q)' <=> Begun(q))
  <2>1. scan'[q] = scan[q]
    BY <1>1, <1>4
  <2> QED
    BY <1>2, <2>1 DEF Holds, Open, Doomed, Due, Begun, At
<1> DEFINE new == {s} \X settled
<1>5. Held' = Held \union new /\ Held \cap new = {}
  <2>1. ASSUME NEW q \in Scanner, NEW p \in Path
        PROVE  /\ <<q, p>> \in Held' <=> <<q, p>> \in Held \union new
               /\ ~(<<q, p>> \in Held /\ <<q, p>> \in new)
    <3>1. CASE q # s
      BY <1>4, <3>1 DEF Held
    <3>2. CASE q = s
      BY <1>1, <1>2, <1>3, <3>2 DEF Held, Holds
    <3> QED
      BY <3>1, <3>2
  <2>2. Held' \subseteq Scanner \X Path /\ Held \subseteq Scanner \X Path
        /\ new \subseteq Scanner \X Path
    BY DEF Held
  <2> QED
    BY <2>1, <2>2
<1>6. IsFiniteSet(settled) /\ Cardinality(settled) \in Nat
  BY FewPaths
<1>7. IsFiniteSet(new) /\ Cardinality(new) = Cardinality(settled)
  <2>1. IsFiniteSet({s}) /\ Cardinality({s}) = 1
    BY FS_Singleton
  <2>2. IsFiniteSet(new) /\ Cardinality(new) = Cardinality({s}) * Cardinality(settled)
    BY <1>6, <2>1, FS_Product
  <2> QED
    BY <1>6, <2>1, <2>2
<1>8. Cardinality(Held') = Cardinality(Held) + Cardinality(settled)
  <2>1. Cardinality(Held \union new) =
          Cardinality(Held) + Cardinality(new) - Cardinality(Held \cap new)
    BY <1>7, Counts, FS_Union
  <2>2. Cardinality(Held \cap new) = 0
    BY <1>5, FS_EmptySet
  <2> QED
    BY <1>5, <1>6, <1>7, <2>1, <2>2, Counts
<1>9. Free(v) \union settled \subseteq Free(v)' /\ Free(v) \cap settled = {}
  <2>1. ASSUME NEW p \in Free(v) PROVE p \in Free(v)' /\ p \notin settled
    <3>1. PICK q \in Scanner : Open(q, p, v)
      BY <2>1 DEF Free
    <3>2. ~Open(s, p, v)
      BY <1>2, <1>3 DEF Open
    <3>3. Open(q, p, v)' /\ p \in Path /\ watch[p] = "claimed"
      BY <1>4, <2>1, <3>1, <3>2 DEF Free
    <3> QED
      BY <1>2, <3>3 DEF Free
  <2>2. ASSUME NEW p \in settled PROVE p \in Free(v)'
    BY <1>1, <1>2, <2>2 DEF Free, Open
  <2> QED
    BY <2>1, <2>2
<1>10. Cardinality(Free(v)) + Cardinality(settled) <= Cardinality(Free(v)')
  <2>1. /\ IsFiniteSet(Free(v) \union settled)
        /\ Cardinality(Free(v) \union settled) =
             Cardinality(Free(v)) + Cardinality(settled) - Cardinality(Free(v) \cap settled)
    BY <1>6, Counts, FS_Union
  <2>2. Cardinality(Free(v) \cap settled) = 0
    BY <1>9, FS_EmptySet
  <2>3. Cardinality(Free(v) \union settled) <= Cardinality(Free(v)')
    BY <1>9, CountsNext, FS_Subset
  <2> QED
    BY <1>6, <2>1, <2>2, <2>3, Counts, CountsNext
<1>11. Loaded(v)' = Loaded(v)
  BY <1>1, <1>2, <1>4 DEF Loaded, Due
<1>12. Known(v) => Known(v)'
  <2>1. ~Begun(s)
    BY <1>2 DEF Begun, At
  <2> QED
    BY <1>1, <1>2, <1>4, <2>1 DEF Known
<1>13. executed[v] \in Nat /\ disturbed \in Nat /\ Balance(v)
  BY DEF IInv, TypeOK, OnceInv
<1> QED
  BY <1>2, <1>6, <1>8, <1>10, <1>11, <1>12, <1>13, Counts, CountsNext DEF Balance

LEMMA EditOnce ==
  ASSUME IInv, OnceInv, NEW v \in Plan, NEW x \in Path, NEW w \in Content, Edit(x, w)
  PROVE  Balance(v)'
<1>1. /\ scan' = scan /\ receipts' = receipts /\ executed' = executed
      /\ \A p \in Path \ {x} : watch'[p] = watch[p] /\ file'[p] = file[p]
      /\ disturbed' = IF InHand(x) THEN disturbed + 1 ELSE disturbed
  BY DEF Edit, IInv, TypeOK
<1>2. Held' = Held /\ Loaded(v)' = Loaded(v) /\ (Known(v)' <=> Known(v))
  BY <1>1 DEF Held, Holds, Loaded, Due, Known, Begun, At
<1>3. \A p \in Free(v) : p # x => p \in Free(v)'
  BY <1>1 DEF Free, Open, Doomed, At
<1>4. executed[v] \in Nat /\ disturbed \in Nat /\ Balance(v)
  BY DEF IInv, TypeOK, OnceInv
<1> USE Counts, CountsNext
<1>5. CASE x \in Free(v)
  <2>1. InHand(x)
    BY <1>5 DEF Free, Open, InHand, Has, Begun, At
  <2>2. Free(v) \ {x} \subseteq Free(v)'
    BY <1>3
  <2>3. IsFiniteSet(Free(v) \ {x}) /\ Cardinality(Free(v) \ {x}) = Cardinality(Free(v)) - 1
    BY <1>5, FS_RemoveElement
  <2>4. Cardinality(Free(v) \ {x}) <= Cardinality(Free(v)')
    BY <2>2, FS_Subset
  <2> QED
    BY <1>1, <1>2, <1>4, <2>1, <2>3, <2>4 DEF Balance
<1>6. CASE x \notin Free(v)
  <2>1. Free(v) \subseteq Free(v)'
    BY <1>3, <1>6
  <2>2. Cardinality(Free(v)) <= Cardinality(Free(v)')
    BY <2>1, FS_Subset
  <2> QED
    BY <1>1, <1>2, <1>4, <2>2 DEF Balance
<1> QED
  BY <1>5, <1>6

LEMMA RestartOnce ==
  ASSUME IInv, OnceInv, NEW v \in Plan, Restart
  PROVE  Balance(v)'
<1>1. /\ \A s \in Scanner : scan'[s] = NoScan
      /\ executed' = executed /\ disturbed' = disturbed + 1
  BY DEF Restart
<1>2. Held' = {} /\ Loaded(v)' = {}
  BY <1>1, NoScanIsScan DEF Held, Holds, Loaded, Due
<1>3. Cardinality(Held') = 0 /\ Cardinality(Loaded(v)') = 0
  BY <1>2, FS_EmptySet
<1>4. executed[v] \in Nat /\ disturbed \in Nat /\ Balance(v)
  BY DEF IInv, TypeOK, OnceInv
<1>5. Cardinality(Free(v)) <= Cardinality(Held)
  BY FreeAreHeld
<1>6. executed[v] <= disturbed + 1
  BY <1>4, <1>5, Counts DEF Balance
<1>7. Cardinality(Free(v)') >= 0
  BY CountsNext
<1> QED
  BY <1>1, <1>3, <1>4, <1>6, <1>7, CountsNext DEF Balance

(* A scan that raises lets go of its files, the free ones among them.  It     *)
(* takes away what is known of a plan only if it has parsed a file as it: if  *)
(* it had not read the file yet the file was not free, and if it had not      *)
(* written the receipt that is a disturbance.                                 *)
LEMMA RaiseOnce ==
  ASSUME IInv, OnceInv, NEW v \in Plan, NEW s \in Scanner, Raise(s)
  PROVE  Balance(v)'
<1> DEFINE S == {p \in Path : Holds(s, p)}
           O == {p \in Path : Open(s, p, v)}
<1>1. /\ scan'[s] = NoScan /\ \A q \in Scanner \ {s} : scan'[q] = scan[q]
      /\ scan[s].pc \in {"next", "check", "receipt"}
      /\ watch' = watch /\ file' = file /\ receipts' = receipts /\ executed' = executed
      /\ disturbed' = IF scan[s].pc = "receipt" THEN disturbed + 1 ELSE disturbed
  BY DEF Raise, IInv, TypeOK, At
<1>2. Moves(s) /\ ~Due(s, v) /\ ~Due(s, v)' /\ \A p \in Path : ~Holds(s, p)'
  BY <1>1, NoScanIsScan DEF Moves, Due, Holds
<1>3. Cardinality(Loaded(v)') <= Cardinality(Loaded(v))
  BY <1>2, LoadedStay
<1>4. /\ S \in SUBSET Path /\ IsFiniteSet(S) /\ Cardinality(S) \in Nat
      /\ O \in SUBSET Path /\ IsFiniteSet(O) /\ Cardinality(O) \in Nat
  BY FewPaths
<1>5. Cardinality(Held') = Cardinality(Held) - Cardinality(S)
  <2>1. Held' = Held \ ({s} \X S) /\ {s} \X S \subseteq Held
    <3>1. ASSUME NEW q \in Scanner, NEW p \in Path
          PROVE  <<q, p>> \in Held' <=> <<q, p>> \in Held \ ({s} \X S)
      <4>1. CASE q = s
        BY <1>2, <4>1 DEF Held
      <4>2. CASE q # s
        BY <1>2, <4>2, OthersStay DEF Held
      <4> QED
        BY <4>1, <4>2
    <3> QED
      BY <3>1 DEF Held
  <2>2. IsFiniteSet({s}) /\ Cardinality({s}) = 1
    BY FS_Singleton
  <2>3. IsFiniteSet({s} \X S) /\ Cardinality({s} \X S) = Cardinality(S)
    <3>1. IsFiniteSet({s} \X S) /\ Cardinality({s} \X S) = 1 * Cardinality(S)
      BY <1>4, <2>2, FS_Product
    <3> QED
      BY <1>4, <3>1
  <2>4. Cardinality(Held \ ({s} \X S)) =
          Cardinality(Held) - Cardinality(Held \cap ({s} \X S))
    BY <2>3, Counts, FS_Difference
  <2>5. Held \cap ({s} \X S) = {s} \X S
    BY <2>1
  <2> QED
    BY <2>1, <2>3, <2>4, <2>5
<1>6. Cardinality(Free(v)) - Cardinality(O) <= Cardinality(Free(v)')
  <2>1. Free(v) \subseteq Free(v)' \union O
    <3>1. ASSUME NEW p \in Free(v), p \notin O PROVE p \in Free(v)'
      <4>1. PICK q \in Scanner : Open(q, p, v)
        BY DEF Free
      <4>2. p \in Path /\ watch[p] = "claimed"
        BY DEF Free
      <4>3. q # s
        BY <3>1, <4>1, <4>2
      <4>4. Open(q, p, v)'
        BY <1>2, <4>1, <4>3, OthersStay
      <4> QED
        BY <1>1, <4>2, <4>4 DEF Free
    <3> QED
      BY <3>1
  <2>2. /\ IsFiniteSet(Free(v)' \union O)
        /\ Cardinality(Free(v)' \union O) =
             Cardinality(Free(v)') + Cardinality(O) - Cardinality(Free(v)' \cap O)
    BY <1>4, CountsNext, FS_Union
  <2>3. Cardinality(Free(v)' \cap O) \in Nat
    BY <1>4, FS_Intersection, FS_CardinalityType
  <2>4. Cardinality(Free(v)) <= Cardinality(Free(v)' \union O)
    BY <2>1, <2>2, FS_Subset
  <2> QED
    BY <1>4, <2>2, <2>3, <2>4, Counts, CountsNext
<1>7. O \subseteq S /\ Cardinality(O) <= Cardinality(S)
  <2>1. O \subseteq S
    BY DEF Open, Holds, Doomed, At
  <2> QED
    BY <1>4, <2>1, FS_Subset
<1>8. executed[v] \in Nat /\ disturbed \in Nat /\ Balance(v)
  BY DEF IInv, TypeOK, OnceInv
<1> HIDE DEF S, O
<1> USE Counts, CountsNext
<1>9. CASE Known(v) => Known(v)'
  BY <1>1, <1>3, <1>4, <1>5, <1>6, <1>7, <1>8, <1>9 DEF Balance
<1>10. CASE Known(v) /\ ~Known(v)'
  <2>1. Begun(s) /\ scan[s].parsed = v /\ v \notin receipts
    <3>1. ~(Begun(s) /\ scan[s].parsed = v) => Known(v)'
      BY <1>2, <1>10, KnownStays
    <3> QED
      BY <1>1, <1>10, <3>1 DEF Known
  <2>2. CASE scan[s].pc = "receipt"
    <3>1. disturbed' = disturbed + 1
      BY <1>1, <2>2
    <3> QED
      BY <1>1, <1>3, <1>4, <1>5, <1>6, <1>7, <1>8, <1>10, <3>1 DEF Balance
  <2>3. CASE scan[s].pc = "check"
    <3>1. scan[s].path \in Path /\ scan[s].path \notin scan[s].todo
      BY <2>3 DEF IInv, TypeOK, Scan, OnceInv, ReadOnce
    <3>2. scan[s].path \in S /\ scan[s].path \notin O
      BY <2>1, <2>3, <3>1 DEF S, O, Holds, Open, Doomed
    <3>3. /\ O \subseteq S \ {scan[s].path}
          /\ IsFiniteSet(S \ {scan[s].path})
          /\ Cardinality(S \ {scan[s].path}) = Cardinality(S) - 1
      BY <1>4, <1>7, <3>2, FS_RemoveElement
    <3>4. Cardinality(O) <= Cardinality(S) - 1
      BY <3>3, FS_Subset
    <3>5. disturbed' = disturbed
      BY <1>1, <2>3
    <3> QED
      BY <1>1, <1>3, <1>4, <1>5, <1>6, <1>8, <1>10, <3>4, <3>5 DEF Balance
  <2> QED
    BY <1>1, <2>1, <2>2, <2>3 DEF Begun, At
<1> QED
  BY <1>9, <1>10

LEMMA BeginRaisesOnce ==
  ASSUME IInv, OnceInv, NEW v \in Plan, NEW s \in Scanner, NEW reached \in SUBSET Path,
         NEW settled \in SUBSET Path, BeginRaises(s, reached, settled)
  PROVE  Balance(v)'
<1>1. /\ scan' = scan /\ file' = file /\ receipts' = receipts
      /\ executed' = executed /\ disturbed' = disturbed
      /\ \A p \in Path : watch[p] = "claimed" => watch'[p] = "claimed"
  BY ObserveDoes DEF BeginRaises, IInv
<1>2. Held' = Held /\ Loaded(v)' = Loaded(v) /\ (Known(v)' <=> Known(v))
  BY <1>1 DEF Held, Holds, Loaded, Due, Known, Begun, At
<1>3. Free(v) \subseteq Free(v)'
  BY <1>1 DEF Free, Open, Doomed, At
<1>4. Cardinality(Free(v)) <= Cardinality(Free(v)')
  BY <1>3, CountsNext, FS_Subset
<1>5. executed[v] \in Nat /\ disturbed \in Nat /\ Balance(v)
  BY DEF IInv, TypeOK, OnceInv
<1> QED
  BY <1>1, <1>2, <1>4, <1>5, Counts, CountsNext DEF Balance

LEMMA ReadOnceStep ==
  ASSUME IInv, ReadOnce, Actions
  PROVE  ReadOnce'
<1> USE DEF IInv
<1>1. ASSUME NEW x \in Path, NEW v \in Content, Edit(x, v) PROVE ReadOnce'
  BY <1>1 DEF Edit, ReadOnce
<1>2. ASSUME NEW s \in Scanner, NEW settled \in SUBSET Path, BeginScan(s, settled)
      PROVE  ReadOnce'
  <2>1. scan'[s].pc = "next" /\ \A q \in Scanner \ {s} : scan'[q] = scan[q]
    BY <1>2, BeginDoes
  <2> QED
    BY <2>1 DEF ReadOnce
<1>3. ASSUME NEW s \in Scanner, NEW x \in Path, Parse(s, x) PROVE ReadOnce'
  <2>1. /\ x \notin scan'[s].todo
        /\ scan'[s].pc = "next" \/ (scan'[s].pc = "check" /\ scan'[s].path = x)
        /\ \A q \in Scanner \ {s} : scan'[q] = scan[q]
    BY <1>3, ParseDoes
  <2> QED
    BY <2>1 DEF ReadOnce
<1>4. ASSUME NEW s \in Scanner, EndScan(s) PROVE ReadOnce'
  <2>1. scan'[s] = NoScan /\ \A q \in Scanner \ {s} : scan'[q] = scan[q]
    BY <1>4 DEF EndScan, TypeOK
  <2> QED
    BY <2>1, NoScanIsScan DEF ReadOnce
<1>5. ASSUME NEW s \in Scanner, Load(s) PROVE ReadOnce'
  <2>1. scan'[s].pc \notin {"check", "load"} /\ \A q \in Scanner \ {s} : scan'[q] = scan[q]
    BY <1>5, LoadDoes
  <2> QED
    BY <2>1 DEF ReadOnce
<1>6. ASSUME NEW s \in Scanner, Others(s) PROVE ReadOnce'
  <2>1. /\ scan'[s].todo = scan[s].todo /\ scan'[s].path = scan[s].path
        /\ \A q \in Scanner \ {s} : scan'[q] = scan[q]
    BY <1>6, OthersDo
  <2>2. scan'[s].pc \in {"check", "load"} => scan[s].pc = "check"
    BY <1>6, GotoDoes DEF Others, CheckReceipt, Ask, GiveUp, Poll, Timeout, Execute,
                          CampaignEnds, WriteReceipt, At, PCs
  <2> QED
    BY <2>1, <2>2 DEF ReadOnce
<1>7. ASSUME NEW s \in Scanner, NEW d \in {"approved", "rejected"}, Decide(s, d)
      PROVE  ReadOnce'
  BY <1>7 DEF Decide, ReadOnce
<1>8. CASE Restart
  BY <1>8, NoScanIsScan DEF Restart, ReadOnce
<1>9. ASSUME NEW s \in Scanner, Raise(s) PROVE ReadOnce'
  <2>1. scan'[s] = NoScan /\ \A q \in Scanner \ {s} : scan'[q] = scan[q]
    BY <1>9 DEF Raise, TypeOK
  <2> QED
    BY <2>1, NoScanIsScan DEF ReadOnce
<1>10. ASSUME NEW s \in Scanner, NEW reached \in SUBSET Path, NEW settled \in SUBSET Path,
              BeginRaises(s, reached, settled)
       PROVE  ReadOnce'
  BY <1>10 DEF BeginRaises, ReadOnce
<1> QED
  BY <1>1, <1>2, <1>3, <1>4, <1>5, <1>6, <1>7, <1>8, <1>9, <1>10 DEF Actions

LEMMA StillOnce ==
  ASSUME OnceInv, UNCHANGED <<file, watch, scan, receipts, executed, disturbed>>
  PROVE  OnceInv'
<1>1. \A v : Loaded(v)' = Loaded(v)
  BY DEF Loaded, Due
<1>2. Held' = Held
  BY DEF Held, Holds
<1>3. \A v : Free(v)' = Free(v)
  BY DEF Free, Open, Doomed, At
<1>4. \A v : Known(v)' <=> Known(v)
  BY DEF Known, Begun, At
<1>5. ReadOnce'
  BY DEF OnceInv, ReadOnce
<1>6. ASSUME NEW v \in Plan PROVE Balance(v)'
  <2>1. Balance(v)
    BY DEF OnceInv
  <2> QED
    BY <1>1, <1>2, <1>3, <1>4, <2>1 DEF Balance
<1> QED
  BY <1>5, <1>6 DEF OnceInv

LEMMA StepOnce == IInv /\ OnceInv /\ [Next]_vars => OnceInv'
<1>1. ASSUME IInv, OnceInv, Next PROVE OnceInv'
  <2>1. Actions
    BY <1>1, NextIsActions
  <2>2. ReadOnce'
    BY <1>1, <2>1, ReadOnceStep DEF OnceInv
  <2>3. CASE \E s \in Scanner, d \in {"approved", "rejected"} : Decide(s, d)
    BY <1>1, <2>3, StillOnce DEF Decide, world, bounds, history
  <2>4. ASSUME NEW v \in Plan, ~\E s \in Scanner, d \in {"approved", "rejected"} : Decide(s, d)
        PROVE  Balance(v)'
    <3>1. ASSUME NEW s \in Scanner, Others(s) PROVE CheckReceipt(s) \/ Later(s)
      BY <3>1 DEF Others, Later
    <3> QED
      BY <1>1, <2>1, <2>4, <3>1, ParseOnce, LoadOnce, CheckOnce, LaterOnce, EndScanOnce,
         BeginOnce, EditOnce, RestartOnce, RaiseOnce, BeginRaisesOnce DEF Actions
  <2> QED
    BY <2>2, <2>3, <2>4 DEF OnceInv
<1>2. ASSUME OnceInv, UNCHANGED vars PROVE OnceInv'
  BY <1>2, StillOnce DEF vars
<1> QED
  BY <1>1, <1>2

LEMMA InitOnce == Init => OnceInv
<1> SUFFICES ASSUME Init PROVE OnceInv
  OBVIOUS
<1>1. \A s \in Scanner : scan[s].pc = "idle" /\ scan[s].todo = {}
  BY NoScanIsScan DEF Init
<1>2. ASSUME NEW v \in Plan PROVE Balance(v)
  <2>1. Held = {} /\ Loaded(v) = {} /\ Free(v) = {}
    BY <1>1 DEF Init, Held, Holds, Loaded, Due, Free
  <2>2. executed[v] = 0 /\ disturbed = 0
    BY DEF Init
  <2> QED
    BY <2>1, <2>2, FS_EmptySet DEF Balance
<1> QED
  BY <1>1, <1>2 DEF OnceInv, ReadOnce

(* A plan is executed again only because the leader restarted, its file       *)
(* changed in hand, or two scans had copies of it, once for each such event.  *)
THEOREM ExecutedOnce == Spec => []OnceUnlessDisturbed
<1>1. IInv /\ OnceInv => OnceUnlessDisturbed
  <2> SUFFICES ASSUME IInv, OnceInv, NEW v \in Plan PROVE executed[v] <= 1 + disturbed
    BY DEF OnceUnlessDisturbed
  <2>1. executed[v] \in Nat /\ disturbed \in Nat /\ Balance(v)
    BY DEF IInv, TypeOK, OnceInv
  <2>2. Cardinality(Free(v)) <= Cardinality(Held)
    BY FreeAreHeld
  <2> QED
    BY <2>1, <2>2, Counts DEF Balance
<1> QED
  BY <1>1, Invariance, InitOnce, StepOnce, InitIInv, StepIInv, PTL DEF Spec
=============================================================================
