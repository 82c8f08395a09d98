SPECIFICATION FairSpec
CONSTANTS
  ghost = 9
  Step = {1, 2, 3}
  MaxParallel = 2
  Retries <- MCRetries
  Plans <- MCPlans
INVARIANTS DependenciesFirst EndIsAccounted
PROPERTIES ImplementsGraph Ends

CHECK_DEADLOCK FALSE
