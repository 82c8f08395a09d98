SPECIFICATION FairSpec
CONSTANTS
  r1 = r1
  r2 = r2
  r3 = r3
  web = web
  Run = {r1, r2}
  Key = {web}
  NoKey = NoKey
  Wants <- TwoRuns
  Policy <- StopsWhenIdle
  FixedPort = {web}
  MayFail = TRUE
  MaxServices = 3
INVARIANTS KeyLeadsToService LeaseIsGivenUp UnleasedServiceEnds
PROPERTIES ImplementsPool ServiceStops
CHECK_DEADLOCK FALSE
