SPECIFICATION Spec
CONSTANTS
  Runs = {p1, c1, g1}
  Roots = {p1}
  Modes = {"shared_serialized"}
  MaximumDepth = 2
  MaximumNodes = 3
  MaximumConcurrentSubagents = 3
  MaximumConcurrentTurns = 8
  MaximumConcurrentRuns = 8
  Env = {}
SYMMETRY ChildSymmetry
CHECK_DEADLOCK FALSE
INVARIANTS
  DelegationNeverStalls
