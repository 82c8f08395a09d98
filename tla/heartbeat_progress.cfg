SPECIFICATION FairSpec
CHECK_DEADLOCK FALSE
CONSTANTS
  Agent = {a1, a2}
  Issue = {s1}
  NoAgent = NoAgent
  NoIssue = NoIssue
  NoJob = NoJob
  Handler = {h1}
  MaxConcurrent <- OneEach
  Kinds = {"plain", "comment", "mention"}
  Commands = {}
  Outcomes = {"succeeded"}
  LocalAgents = {}
  Budgeted = {}
  SlowRuns = FALSE
  MayFail = TRUE
  MaxRuns = 2
  MaxCommands = 0
  MaxCrashes = 0
PROPERTIES QueuedRunLeaves RunningRunEnds DeferredWakeLeaves
