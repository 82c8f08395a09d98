SPECIFICATION Spec
CHECK_DEADLOCK FALSE
CONSTANTS
  Agent = {a1, a2}
  Issue = {s1}
  NoAgent = NoAgent
  NoIssue = NoIssue
  NoJob = NoJob
  Handler = {h1, h2}
  MaxConcurrent <- OneEach
  Kinds = {"plain", "comment"}
  Commands = {}
  Outcomes = {"succeeded"}
  LocalAgents = {}
  Budgeted = {}
  SlowRuns = FALSE
  MayFail = FALSE
  MaxRuns = 3
  MaxCommands = 0
  MaxCrashes = 0
  TheIssue = s1
INVARIANTS RunningBounded OneExecutionPerIssue WakesStayWithAgent
PROPERTIES ImplementsGate ImplementsCheckout
SYMMETRY Symmetry
