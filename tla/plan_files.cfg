SPECIFICATION FairSpec
CONSTANTS
  p1 = p1 p2 = p2 loop = loop request = request v1 = v1 v2 = v2
  Path = {p1, p2}
  Scanner = {loop, request}
  Loop = loop
  Plan = {v1, v2}
  AsksFirst = {v2}
  Bad = Bad Gone = Gone
  MaxEdits = 2
  MaxCrashes = 1
  MaxFailures = 1
INVARIANTS ClaimIsSettled ApprovedFirst OnceUnlessDisturbed
PROPERTIES PlanSettles
CHECK_DEADLOCK FALSE
