SPECIFICATION Spec
CONSTANTS
  a1 = a1 a2 = a2 r1 = r1 r2 = r2 r3 = r3
  Agent = {a1, a2}
  Run = {r1, r2, r3}
  Board = Board
  NoAgent = NoAgent NoRun = NoRun Keep = Keep
  AgentOf <- MCAgentOf
  About <- MCAbout
  Patches <- MCPatches
  MaxOpen = 2
  Expected <- MCExpected
INVARIANTS CheckoutIsWork CheckoutHoldsLock
PROPERTIES TakenOnlyFromTheDead 
CHECK_DEADLOCK FALSE
SYMMETRY Symmetry
