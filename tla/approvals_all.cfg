SPECIFICATION Spec
CHECK_DEADLOCK FALSE
CONSTANTS
  Caller = {c1, c2, c3}
  Ops <- AllOps
  Drafts = {"none", "pending_approval"}
  MayCrash = TRUE
  MaxCreated = 4
  MaxUndone = 2
INVARIANTS HiredOncePerDecision
PROPERTIES TerminationSettles
