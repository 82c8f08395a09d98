SPECIFICATION Spec
CHECK_DEADLOCK FALSE
CONSTANTS
  Agent = {a1, a2}
  Issue = {s1}
  NoAgent = NoAgent
  NoIssue = NoIssue
  NoJob = NoJob
  Handler = {h1, h2}
  MaxConcurrent <- OneEach
  Kinds = {"plain", "comment"}
  Commands = {"cancel", "pause", "terminate", "resume"}
  Outcomes = {"succeeded"}
  LocalAgents = {}
  Budgeted = {a1}
  SlowRuns = FALSE
  MayFail = FALSE
  MaxRuns = 2
  MaxCommands = 1
  MaxCrashes = 0
INVARIANTS DeferredHasOwner WakeupEndsWithRun
PROPERTIES NoRunIsRevived
SYMMETRY Handlers
