-------------------------- MODULE ApprovalsProofs --------------------------
(* Theorems about Approvals, for any number of requests.                     *)
EXTENDS Approvals, FiniteSetTheorems, TLAPS

USE OpsAssumption, DraftsAssumption, MayCrashAssumption, Bounds

(* The rows and the requests always have their types.                        *)
THEOREM TypeCorrect == Spec => []TypeOK
<1>1. Init => TypeOK
  BY DEF Init, TypeOK, Idle, Resolvable, AgentStatus, AllOps
<1>2. TypeOK /\ [Next]_vars => TypeOK'
  <2> SUFFICES ASSUME TypeOK, [Next]_vars PROVE TypeOK'
    OBVIOUS
  <2> USE DEF TypeOK, Idle, Goto, Finish, Resolvable, Decisions, AgentStatus, AllOps
  <2>1. ASSUME NEW c \in Caller, NEW op \in Ops, Read(c, op) PROVE TypeOK'
    BY <2>1 DEF Read
  <2>2. ASSUME NEW c \in Caller, Resolve(c) PROVE TypeOK'
    BY <2>2 DEF Resolve, Target
  <2>3. ASSUME NEW c \in Caller, Revise(c) PROVE TypeOK'
    BY <2>3 DEF Revise
  <2>4. ASSUME NEW c \in Caller, ReadDraft(c) PROVE TypeOK'
    BY <2>4 DEF ReadDraft
  <2>5. ASSUME NEW c \in Caller, ActivateDraft(c) PROVE TypeOK'
    BY <2>5 DEF ActivateDraft, Write
  <2>6. ASSUME NEW c \in Caller, CreateAgent(c) PROVE TypeOK'
    BY <2>6 DEF CreateAgent
  <2>7. ASSUME NEW c \in Caller, TerminateDraft(c) PROVE TypeOK'
    BY <2>7 DEF TerminateDraft, Write
  <2>8. ASSUME NEW c \in Caller, SetAgent(c) PROVE TypeOK'
    BY <2>8 DEF SetAgent, Write
  <2>9. CASE Restart
    BY <2>9 DEF Restart
  <2>10. CASE UNCHANGED vars
    BY <2>10 DEF vars
  <2> QED
    BY <2>1, <2>2, <2>3, <2>4, <2>5, <2>6, <2>7, <2>8, <2>9, <2>10 DEF Next, Continue
<1> QED
  BY <1>1, <1>2, PTL DEF Spec

(* No revision and no resubmission is ever in flight.                        *)
NoRevision == \A c \in Caller : request[c].op \notin {"revise", "resubmit"}

LEMMA NothingRevised ==
  ASSUME Ops \intersect {"revise", "resubmit"} = {}
  PROVE  Spec => []NoRevision
<1>1. Init => NoRevision
  BY DEF Init, NoRevision, Idle
<1>2. TypeOK /\ NoRevision /\ [Next]_vars => NoRevision'
  <2> SUFFICES ASSUME TypeOK, NoRevision, [Next]_vars PROVE NoRevision'
    OBVIOUS
  <2> USE DEF TypeOK, NoRevision, Idle, Goto, Finish, Serving
  <2>1. ASSUME NEW c \in Caller, NEW op \in Ops, Read(c, op) PROVE NoRevision'
    BY <2>1 DEF Read
  <2>2. ASSUME NEW c \in Caller, Continue(c) PROVE NoRevision'
    BY <2>2 DEF Continue, Resolve, Revise, ReadDraft, ActivateDraft, CreateAgent,
                TerminateDraft, SetAgent
  <2>3. CASE Restart
    BY <2>3 DEF Restart
  <2>4. CASE UNCHANGED vars
    BY <2>4 DEF vars
  <2> QED
    BY <2>1, <2>2, <2>3, <2>4 DEF Next
<1> QED
  BY <1>1, <1>2, TypeCorrect, PTL DEF Spec

(* However many approve and reject requests overlap, and whatever happens to *)
(* the agent meanwhile, the first decision stands as long as nobody revises: *)
(* the status condition of the update in resolveApproval is enough.          *)
THEOREM DecisionsStand ==
  ASSUME Ops \intersect {"revise", "resubmit"} = {}
  PROVE  Spec => DecisionStands
<1>1. TypeOK /\ NoRevision /\ [Next]_vars => [approval' # approval => approval \notin Decisions]_vars
  <2> SUFFICES ASSUME TypeOK, NoRevision, [Next]_vars, approval' # approval
               PROVE  approval \notin Decisions
    BY DEF vars
  <2>1. PICK c \in Caller : Resolve(c) \/ Revise(c)
    BY DEF Next, Continue, Read, ReadDraft, ActivateDraft, CreateAgent,
           TerminateDraft, SetAgent, Restart, vars
  <2>2. ~Revise(c)
    BY DEF NoRevision, Revise, Serving
  <2> QED
    BY <2>1, <2>2 DEF Resolve, Resolvable, Decisions
<1> QED
  BY <1>1, NothingRevised, TypeCorrect, PTL DEF Spec, DecisionStands

-----------------------------------------------------------------------------
(* What follows a decision is carried out by the request that decided, which  *)
(* is the only one between its update and its last statement.                 *)
Effecting(c) == request[c].next \in {"effect", "activate"}

OneDecides ==
  /\ \A c \in Caller : Effecting(c) => /\ request[c].op \in {"approve", "reject"}
                                       /\ approval = Target(request[c].op)
                                       /\ created = 0
  /\ \A c, d \in Caller : Effecting(c) /\ Effecting(d) => c = d
  /\ approval \in Resolvable => created = 0 /\ \A c \in Caller : ~Effecting(c)
  /\ created <= 1

(* Only the request that moves changes, and it is as it was served.           *)
LEMMA OneMoves ==
  ASSUME TypeOK, NEW c \in Caller,
         NEW op \in AllOps, NEW next \in {"idle", "update", "effect", "activate"},
         Goto(c, op, next) \/ Finish(c)
  PROVE  /\ \A d \in Caller \ {c} : request'[d] = request[d]
         /\ Goto(c, op, next) => request'[c].op = op /\ request'[c].next = next
         /\ Finish(c) => request'[c] = Idle
BY DEF TypeOK, Goto, Finish, Idle

LEMMA OneDecidesKept ==
  ASSUME TypeOK, NoRevision, OneDecides, [Next]_vars
  PROVE  OneDecides'
<1> USE DEF Effecting, Idle, TypeOK
<1>1. ASSUME NEW c \in Caller, NEW op \in Ops, Read(c, op) PROVE OneDecides'
  BY <1>1 DEF Read, Goto, OneDecides
<1>2. ASSUME NEW c \in Caller, Resolve(c) PROVE OneDecides'
  <2>1. PICK op \in {"approve", "reject"} :
          /\ Serving(c, op, "update")
          /\ IF approval \in Resolvable
             THEN approval' = Target(op) /\ Goto(c, op, "effect")
             ELSE approval' = approval /\ Finish(c)
          /\ UNCHANGED <<agent, created>>
    BY <1>2 DEF Resolve
  <2>2. CASE approval \in Resolvable
    <3>1. /\ request'[c].op = op /\ request'[c].next = "effect" /\ approval' = Target(op)
          /\ \A d \in Caller \ {c} : request'[d] = request[d]
      BY <2>1, <2>2, OneMoves DEF AllOps
    <3>2. approval' \notin Resolvable
      BY <3>1 DEF Target, Resolvable
    <3> QED
      BY <2>1, <2>2, <3>1, <3>2 DEF OneDecides
  <2>3. CASE approval \notin Resolvable
    BY <2>1, <2>3 DEF Finish, OneDecides
  <2> QED
    BY <2>2, <2>3
<1>3. ASSUME NEW c \in Caller, Revise(c) PROVE FALSE
  BY <1>3 DEF NoRevision, Revise, Serving
<1>4. ASSUME NEW c \in Caller, ReadDraft(c) PROVE OneDecides'
  BY <1>4 DEF ReadDraft, Serving, Goto, Finish, OneDecides
<1>5. ASSUME NEW c \in Caller, ActivateDraft(c) \/ TerminateDraft(c) \/ SetAgent(c)
      PROVE  OneDecides'
  BY <1>5 DEF ActivateDraft, TerminateDraft, SetAgent, Finish, OneDecides
<1>6. ASSUME NEW c \in Caller, CreateAgent(c) PROVE OneDecides'
  <2>1. /\ Effecting(c) /\ request[c].op = "approve" /\ Finish(c)
        /\ created' \in {created, created + 1} /\ approval' = approval
    BY <1>6 DEF CreateAgent, Serving
  <2>2. created = 0 /\ approval = "approved" /\ \A d \in Caller \ {c} : ~Effecting(d)
    BY <2>1 DEF OneDecides, Target
  <2>3. \A d \in Caller : ~(request'[d].next \in {"effect", "activate"})
    BY <2>1, <2>2 DEF Finish
  <2> QED
    BY <2>1, <2>2, <2>3 DEF OneDecides, Resolvable
<1>7. CASE Restart
  BY <1>7 DEF Restart, OneDecides
<1>8. CASE UNCHANGED vars
  BY <1>8 DEF vars, OneDecides
<1> QED
  BY <1>1, <1>2, <1>3, <1>4, <1>5, <1>6, <1>7, <1>8 DEF Next, Continue

LEMMA OneDecidesAlways ==
  ASSUME Ops \intersect {"revise", "resubmit"} = {}
  PROVE  Spec => []OneDecides
<1>1. Init => OneDecides
  BY DEF Init, OneDecides, Effecting, Idle, Resolvable
<1> QED
  BY <1>1, OneDecidesKept, NothingRevised, TypeCorrect, PTL DEF Spec

(* One approval never hires twice, however many requests approve and reject   *)
(* it at the same time and whatever is done to the agent meanwhile.           *)
THEOREM HiresOnce ==
  ASSUME Ops \intersect {"revise", "resubmit"} = {}
  PROVE  Spec => []HiredOnce
<1>1. TypeOK /\ OneDecides => HiredOnce
  <2> SUFFICES ASSUME TypeOK, OneDecides PROVE HiredOnce
    OBVIOUS
  <2>1. CASE Hiring = {}
    <3>1. Cardinality(Hiring) = 0
      BY <2>1, FS_EmptySet
    <3> QED
      BY <3>1 DEF OneDecides, TypeOK, HiredOnce
  <2>2. CASE Hiring # {}
    <3>1. PICK c \in Hiring : TRUE
      BY <2>2
    <3>2. Hiring = {c} /\ created = 0
      BY <3>1 DEF OneDecides, Effecting, Hiring
    <3>3. Cardinality(Hiring) = 1
      BY <3>2, FS_Singleton
    <3> QED
      BY <3>2, <3>3 DEF HiredOnce
  <2> QED
    BY <2>1, <2>2
<1> QED
  BY <1>1, OneDecidesAlways, TypeCorrect, PTL

-----------------------------------------------------------------------------
(* Where the agent is left alone and the server stays up, the draft waits for *)
(* the effect of the decision, and has it once nobody is carrying it out.     *)
DraftFollows ==
  Linked =>
    /\ approval \in Resolvable => agent = "pending_approval"
    /\ (\E c \in Caller : Effecting(c)) => agent = "pending_approval"
    /\ approval = "approved" => agent = "idle" \/ \E c \in Caller : Effecting(c)
    /\ approval = "rejected" => agent = "terminated" \/ \E c \in Caller : Effecting(c)

OnlyDecisions == \A c \in Caller : request[c].op \in {"approve", "reject", "none"}

(* What is in flight was asked for.                                           *)
LEMMA OnlyDecisionsAsked ==
  ASSUME Ops \subseteq {"approve", "reject"}
  PROVE  Spec => []OnlyDecisions
<1>1. Init => OnlyDecisions
  BY DEF Init, OnlyDecisions, Idle
<1>2. TypeOK /\ OnlyDecisions /\ [Next]_vars => OnlyDecisions'
  <2> SUFFICES ASSUME TypeOK, OnlyDecisions, [Next]_vars PROVE OnlyDecisions'
    OBVIOUS
  <2> USE DEF TypeOK, OnlyDecisions, Idle, Goto, Finish, Serving
  <2>1. ASSUME NEW c \in Caller, NEW op \in Ops, Read(c, op) PROVE OnlyDecisions'
    BY <2>1 DEF Read
  <2>2. ASSUME NEW c \in Caller, Continue(c) PROVE OnlyDecisions'
    BY <2>2 DEF Continue, Resolve, Revise, ReadDraft, ActivateDraft, CreateAgent,
                TerminateDraft, SetAgent
  <2>3. CASE Restart
    BY <2>3 DEF Restart
  <2>4. CASE UNCHANGED vars
    BY <2>4 DEF vars
  <2> QED
    BY <2>1, <2>2, <2>3, <2>4 DEF Next
<1> QED
  BY <1>1, <1>2, TypeCorrect, PTL DEF Spec

LEMMA DraftFollowsKept ==
  ASSUME ~MayCrash, TypeOK, OnlyDecisions, OneDecides, DraftFollows, [Next]_vars
  PROVE  DraftFollows'
<1> USE DEF Effecting, Idle, TypeOK
<1>1. ASSUME NEW c \in Caller, NEW op \in Ops, Read(c, op) PROVE DraftFollows'
  <2>1. \A d \in Caller : (request'[d].next \in {"effect", "activate"}) <=> Effecting(d)
    BY <1>1 DEF Read, Goto
  <2> QED
    BY <1>1, <2>1 DEF Read, DraftFollows, Linked
<1>2. ASSUME NEW c \in Caller, Resolve(c) PROVE DraftFollows'
  <2>1. PICK op \in {"approve", "reject"} :
          /\ Serving(c, op, "update")
          /\ IF approval \in Resolvable
             THEN approval' = Target(op) /\ Goto(c, op, "effect")
             ELSE approval' = approval /\ Finish(c)
          /\ UNCHANGED <<agent, created>>
    BY <1>2 DEF Resolve
  <2>2. CASE approval \in Resolvable
    <3>1. request'[c].next = "effect" /\ approval' = Target(op)
      BY <2>1, <2>2, OneMoves DEF AllOps
    <3>2. approval' \notin Resolvable
      BY <3>1 DEF Target, Resolvable
    <3> QED
      BY <2>1, <2>2, <3>1, <3>2 DEF DraftFollows, Linked
  <2>3. CASE approval \notin Resolvable
    <3>1. \A d \in Caller : (request'[d].next \in {"effect", "activate"}) <=> Effecting(d)
      BY <2>1, <2>3 DEF Finish, Serving
    <3> QED
      BY <2>1, <2>3, <3>1 DEF DraftFollows, Linked
  <2> QED
    BY <2>2, <2>3
<1>3. ASSUME NEW c \in Caller, ReadDraft(c) PROVE DraftFollows'
  <2>1. Effecting(c) /\ agent = "pending_approval"
    BY <1>3 DEF ReadDraft, Serving, DraftFollows
  <2>2. request'[c].next = "activate" /\ UNCHANGED <<approval, agent>>
    BY <1>3, <2>1 DEF ReadDraft, Goto
  <2> QED
    BY <2>1, <2>2 DEF DraftFollows, Linked
<1>4. ASSUME NEW c \in Caller, ActivateDraft(c) PROVE DraftFollows'
  <2>1. Effecting(c) /\ request[c].op = "approve" /\ Finish(c) /\ approval' = approval
    BY <1>4 DEF ActivateDraft, Serving
  <2>2. approval = "approved" /\ \A d \in Caller \ {c} : ~Effecting(d)
    BY <2>1 DEF OneDecides, Target
  <2>3. \A d \in Caller : ~(request'[d].next \in {"effect", "activate"})
    BY <2>1, <2>2 DEF Finish
  <2>4. Linked => agent' = "idle"
    BY <1>4, <2>1 DEF ActivateDraft, Write, Exists, DraftFollows
  <2>5. ~Linked => ~Linked'
    BY <1>4 DEF ActivateDraft, Write, Exists, Linked
  <2> QED
    BY <2>1, <2>2, <2>3, <2>4, <2>5 DEF DraftFollows, Resolvable
<1>5. ASSUME NEW c \in Caller, TerminateDraft(c) PROVE DraftFollows'
  <2>1. Effecting(c) /\ request[c].op = "reject" /\ Finish(c) /\ approval' = approval
    BY <1>5 DEF TerminateDraft, Serving
  <2>2. approval = "rejected" /\ \A d \in Caller \ {c} : ~Effecting(d)
    BY <2>1 DEF OneDecides, Target
  <2>3. \A d \in Caller : ~(request'[d].next \in {"effect", "activate"})
    BY <2>1, <2>2 DEF Finish
  <2>4. Linked => agent' = "terminated"
    BY <1>5, <2>1 DEF TerminateDraft, Write, Exists, DraftFollows
  <2>5. ~Linked => ~Linked'
    BY <1>5 DEF TerminateDraft, Write, Exists, Linked
  <2> QED
    BY <2>1, <2>2, <2>3, <2>4, <2>5 DEF DraftFollows, Resolvable
<1>6. ASSUME NEW c \in Caller, CreateAgent(c) PROVE DraftFollows'
  BY <1>6 DEF CreateAgent, DraftFollows, Linked
<1>7. ASSUME NEW c \in Caller, Revise(c) \/ SetAgent(c) PROVE FALSE
  BY <1>7 DEF Revise, SetAgent, Serving, OnlyDecisions
<1>8. CASE Restart
  BY <1>8 DEF Restart
<1>9. CASE UNCHANGED vars
  BY <1>9 DEF vars, DraftFollows, Linked
<1> QED
  BY <1>1, <1>2, <1>3, <1>4, <1>5, <1>6, <1>7, <1>8, <1>9 DEF Next, Continue

(* However many approve and reject requests overlap, once none is in flight   *)
(* the draft agent is what was decided: idle or terminated.                   *)
THEOREM DraftIsAsDecided ==
  ASSUME Ops \subseteq {"approve", "reject"}, ~MayCrash
  PROVE  Spec => []AgentFollowsDecision
<1>1. Init => DraftFollows
  BY DEF Init, DraftFollows, Linked, Effecting, Idle, Decisions, Resolvable
<1>2. Ops \intersect {"revise", "resubmit"} = {}
  OBVIOUS
<1>3. Spec => []DraftFollows
  BY <1>1, <1>2, DraftFollowsKept, OnlyDecisionsAsked, OneDecidesAlways, TypeCorrect, PTL
     DEF Spec
<1>4. TypeOK /\ DraftFollows => AgentFollowsDecision
  BY DEF TypeOK, DraftFollows, AgentFollowsDecision, Effecting, Idle, Resolvable,
         Decisions
<1> QED
  BY <1>3, <1>4, TypeCorrect, PTL

-----------------------------------------------------------------------------
(* With every operation in flight: what has been hired and is being hired is  *)
(* paid for, by the decision as it stands or by one that a revision undid.    *)
HiresArePaid ==
  created + Cardinality(Hiring) <= undone + (IF approval \in Decisions THEN 1 ELSE 0)

LEMMA FewHire ==
  /\ IsFiniteSet(Hiring) /\ Cardinality(Hiring) \in Nat
  /\ IsFiniteSet(Hiring') /\ Cardinality(Hiring') \in Nat
<1>1. Hiring \subseteq Caller /\ Hiring' \subseteq Caller
  BY DEF Hiring
<1> QED
  BY <1>1, CallerAssumption, FS_Subset, FS_CardinalityType

(* One request moves: to or from carrying out an approval, or neither.        *)
LEMMA HiringMoves ==
  ASSUME TypeOK, NEW c \in Caller,
         \A d \in Caller \ {c} : request'[d] = request[d]
  PROVE  /\ Cardinality(Hiring') <= Cardinality(Hiring) + 1
         /\ c \notin Hiring' => Cardinality(Hiring') <= Cardinality(Hiring)
         /\ c \in Hiring => Cardinality(Hiring') <= Cardinality(Hiring)
         /\ c \in Hiring /\ c \notin Hiring' => Cardinality(Hiring') = Cardinality(Hiring) - 1
<1>1. Hiring' \subseteq Hiring \union {c}
  BY DEF Hiring
<1>2. c \notin Hiring' \/ c \in Hiring => Hiring' \subseteq Hiring
  BY <1>1
<1>3. c \in Hiring /\ c \notin Hiring' => Hiring' = Hiring \ {c}
  BY DEF Hiring
<1>4. IsFiniteSet(Hiring \union {c})
      /\ Cardinality(Hiring \union {c}) <= Cardinality(Hiring) + 1
  <2>1. IsFiniteSet(Hiring \union {c})
        /\ Cardinality(Hiring \union {c}) =
             IF c \in Hiring THEN Cardinality(Hiring) ELSE Cardinality(Hiring) + 1
    BY FewHire, FS_AddElement
  <2> QED
    BY <2>1, FewHire
<1>5. Cardinality(Hiring') <= Cardinality(Hiring) + 1
  <2>1. Cardinality(Hiring') <= Cardinality(Hiring \union {c})
    BY <1>1, <1>4, FS_Subset
  <2>2. Cardinality(Hiring \union {c}) \in Nat
    BY <1>4, FS_CardinalityType
  <2> QED
    BY <1>4, <2>1, <2>2, FewHire
<1>6. c \notin Hiring' \/ c \in Hiring => Cardinality(Hiring') <= Cardinality(Hiring)
  BY <1>2, FewHire, FS_Subset
<1>7. c \in Hiring /\ c \notin Hiring' => Cardinality(Hiring') = Cardinality(Hiring) - 1
  BY <1>3, FewHire, FS_RemoveElement
<1> QED
  BY <1>5, <1>6, <1>7

LEMMA HiresArePaidKept ==
  ASSUME TypeOK, HiresArePaid, [Next]_vars
  PROVE  HiresArePaid'
<1>t. created \in Nat /\ undone \in Nat
  BY DEF TypeOK
<1> USE FewHire
<1>1. ASSUME NEW c \in Caller, NEW op \in Ops, Read(c, op) PROVE HiresArePaid'
  <2>1. /\ \A d \in Caller \ {c} : request'[d] = request[d]
        /\ request'[c].next = "update" /\ UNCHANGED <<approval, created, undone>>
    BY <1>1 DEF Read, Goto, TypeOK
  <2>2. c \notin Hiring'
    BY <2>1 DEF Hiring
  <2> QED
    BY <1>t, <2>1, <2>2, HiringMoves DEF HiresArePaid
<1>2. ASSUME NEW c \in Caller, Resolve(c) PROVE HiresArePaid'
  <2>1. /\ \A d \in Caller \ {c} : request'[d] = request[d]
        /\ UNCHANGED <<created, undone>>
        /\ IF approval \in Resolvable THEN approval' \in Decisions
           ELSE approval' = approval /\ request'[c] = Idle
    BY <1>2 DEF Resolve, Goto, Finish, Target, Decisions, TypeOK
  <2>2. CASE approval \in Resolvable
    <3>1. approval \notin Decisions
      BY <2>2 DEF Resolvable, Decisions
    <3> QED
      BY <1>t, <2>1, <2>2, <3>1, HiringMoves DEF HiresArePaid
  <2>3. CASE approval \notin Resolvable
    <3>1. c \notin Hiring'
      BY <2>1, <2>3 DEF Hiring, Idle
    <3> QED
      BY <1>t, <2>1, <2>3, <3>1, HiringMoves DEF HiresArePaid
  <2> QED
    BY <2>2, <2>3
<1>3. ASSUME NEW c \in Caller, Revise(c) PROVE HiresArePaid'
  <2>1. /\ \A d \in Caller \ {c} : request'[d] = request[d]
        /\ request'[c] = Idle /\ created' = created /\ approval' \notin Decisions
        /\ undone' = IF approval \in Decisions THEN undone + 1 ELSE undone
    BY <1>3 DEF Revise, Finish, Decisions, TypeOK
  <2>2. c \notin Hiring'
    BY <2>1 DEF Hiring, Idle
  <2> QED
    BY <1>t, <2>1, <2>2, HiringMoves DEF HiresArePaid
<1>4. ASSUME NEW c \in Caller, ReadDraft(c) PROVE HiresArePaid'
  <2>1. /\ \A d \in Caller \ {c} : request'[d] = request[d]
        /\ c \in Hiring /\ UNCHANGED <<approval, created, undone>>
    BY <1>4 DEF ReadDraft, Goto, Finish, Serving, Hiring, TypeOK
  <2> QED
    BY <1>t, <2>1, HiringMoves DEF HiresArePaid
<1>5. ASSUME NEW c \in Caller, ActivateDraft(c) \/ TerminateDraft(c) \/ SetAgent(c)
      PROVE  HiresArePaid'
  <2>1. /\ \A d \in Caller \ {c} : request'[d] = request[d]
        /\ request'[c] = Idle /\ UNCHANGED <<approval, created, undone>>
    BY <1>5 DEF ActivateDraft, TerminateDraft, SetAgent, Finish, TypeOK
  <2>2. c \notin Hiring'
    BY <2>1 DEF Hiring, Idle
  <2> QED
    BY <1>t, <2>1, <2>2, HiringMoves DEF HiresArePaid
<1>6. ASSUME NEW c \in Caller, CreateAgent(c) PROVE HiresArePaid'
  <2>1. /\ \A d \in Caller \ {c} : request'[d] = request[d]
        /\ c \in Hiring /\ request'[c] = Idle /\ UNCHANGED <<approval, undone>>
        /\ created' = created + 1 \/ created' = created
    BY <1>6 DEF CreateAgent, Finish, Serving, Hiring, TypeOK
  <2>2. c \notin Hiring'
    BY <2>1 DEF Hiring, Idle
  <2>3. Cardinality(Hiring') = Cardinality(Hiring) - 1
    BY <2>1, <2>2, HiringMoves
  <2> QED
    BY <1>t, <2>1, <2>3 DEF HiresArePaid
<1>7. CASE Restart
  <2>1. /\ Hiring' = {} /\ UNCHANGED <<approval, created, undone>>
    BY <1>7 DEF Restart, Hiring, Idle
  <2>2. Cardinality(Hiring') = 0
    BY <2>1, FS_EmptySet
  <2> QED
    BY <1>t, <2>1, <2>2 DEF HiresArePaid
<1>8. CASE UNCHANGED vars
  <2>1. Hiring' = Hiring /\ UNCHANGED <<approval, created, undone>>
    BY <1>8 DEF vars, Hiring
  <2> QED
    BY <2>1 DEF HiresArePaid
<1> QED
  BY <1>1, <1>2, <1>3, <1>4, <1>5, <1>6, <1>7, <1>8 DEF Next, Continue

(* Whatever is asked for, and however the requests overlap or are cut short,  *)
(* an approval is carried out at most once, and once more for each revision   *)
(* that was written over a decision.                                          *)
THEOREM HiresOncePerDecision == Spec => []HiredOncePerDecision
<1>1. Init => HiresArePaid
  <2> SUFFICES ASSUME Init PROVE HiresArePaid
    OBVIOUS
  <2>1. Hiring = {}
    BY DEF Init, Hiring, Idle
  <2>2. Cardinality(Hiring) = 0
    BY <2>1, FS_EmptySet
  <2> QED
    BY <2>2 DEF Init, HiresArePaid
<1>2. TypeOK /\ HiresArePaid => HiredOncePerDecision
  BY FewHire DEF TypeOK, HiresArePaid, HiredOncePerDecision
<1> QED
  BY <1>1, <1>2, HiresArePaidKept, TypeCorrect, PTL DEF Spec

-----------------------------------------------------------------------------
(* Nothing brings a terminated agent back but a request that was in flight    *)
(* when it was terminated, however many requests there are.                   *)
THEOREM TerminatedSettles == Spec => TerminationSettles
<1>1. TypeOK /\ [Next]_vars
        => [agent = "terminated" /\ NoneToRevive =>
              agent' = "removed" \/ (agent' = "terminated" /\ NoneToRevive')]_vars
  <2> SUFFICES ASSUME TypeOK, Next, agent = "terminated", NoneToRevive
               PROVE  agent' = "removed" \/ (agent' = "terminated" /\ NoneToRevive')
    BY DEF vars
  <2> USE DEF NoneToRevive, Serving, Idle, TypeOK
  <2>1. ASSUME NEW c \in Caller, NEW op \in Ops, Read(c, op)
        PROVE  agent' = "terminated" /\ NoneToRevive'
    <3>1. op # "pause" /\ op # "resume"
      BY <2>1 DEF Read, Admits
    <3> QED
      BY <2>1, <3>1 DEF Read, Goto
  <2>2. ASSUME NEW c \in Caller, Resolve(c) PROVE agent' = "terminated" /\ NoneToRevive'
    BY <2>2 DEF Resolve, Goto, Finish
  <2>3. ASSUME NEW c \in Caller, ReadDraft(c) PROVE agent' = "terminated" /\ NoneToRevive'
    BY <2>3 DEF ReadDraft, Finish
  <2>4. ASSUME NEW c \in Caller, Revise(c) \/ CreateAgent(c) \/ TerminateDraft(c)
        PROVE  agent' = "terminated" /\ NoneToRevive'
    BY <2>4 DEF Revise, CreateAgent, TerminateDraft, Finish, Write
  <2>5. ASSUME NEW c \in Caller, SetAgent(c)
        PROVE  agent' = "removed" \/ (agent' = "terminated" /\ NoneToRevive')
    BY <2>5 DEF SetAgent, Finish, Write
  <2>6. ASSUME NEW c \in Caller PROVE ~ActivateDraft(c)
    BY DEF ActivateDraft
  <2>7. CASE Restart
    BY <2>7 DEF Restart
  <2> QED
    BY <2>1, <2>2, <2>3, <2>4, <2>5, <2>6, <2>7 DEF Next, Continue
<1> QED
  BY <1>1, TypeCorrect, PTL DEF Spec, TerminationSettles
=============================================================================
