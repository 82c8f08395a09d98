SPECIFICATION Spec
CHECK_DEADLOCK FALSE
CONSTANTS
  Caller = {c1, c2, c3}
  Ops <- DecideOps
  Drafts = {"none", "pending_approval"}
  MayCrash = FALSE
  MaxCreated = 2
  MaxUndone = 0
INVARIANTS AgentFollowsDecision HiredOnce
PROPERTIES DecisionStands
