SPECIFICATION Spec
CHECK_DEADLOCK FALSE
CONSTANTS
  Agent = {a1, a2}
  Issue = {s1}
  NoAgent = NoAgent
  NoIssue = NoIssue
  NoJob = NoJob
  Handler = {h1, h2}
  MaxConcurrent <- OneEach
  Kinds = {"plain", "comment"}
  Commands = {}
  Outcomes = {"succeeded"}
  LocalAgents = {a1}
  Budgeted = {}
  SlowRuns = FALSE
  MayFail = TRUE
  MaxRuns = 2
  MaxCommands = 0
  MaxCrashes = 1
INVARIANTS OneOwnerPerIssue
SYMMETRY Handlers
