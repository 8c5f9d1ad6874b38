SPECIFICATION Spec
CONSTANTS
  Runs = {p1, c1, g1}
  Roots = {p1}
  Modes = {"none"}
  MaximumDepth = 2
  MaximumNodes = 3
  MaximumConcurrentSubagents = 3
  MaximumConcurrentTurns = 8
  MaximumConcurrentRuns = 2
  Env = {}
SYMMETRY ChildSymmetry
CHECK_DEADLOCK FALSE
INVARIANTS
  DelegationNeverStalls
