SPECIFICATION Spec
CHECK_DEADLOCK FALSE
CONSTANTS
  Caller = {c1}
  Ops <- HireOps
  Drafts = {"pending_approval"}
  MayCrash = FALSE
  MaxCreated = 2
  MaxUndone = 0
INVARIANTS HireNeedsApproval
