SPECIFICATION SubagentsSpec
CONSTANTS
  Runs = {p1, c1, d1, g1}
  Roots = {p1}
  Modes = {"none", "shared_serialized", "isolated"}
  MaximumDepth = 2
  MaximumNodes = 2
  MaximumConcurrentSubagents = 2
  MaximumConcurrentTurns = 3
  MaximumConcurrentRuns = 3
  Env = {}
  Leaves = {c1, d1}
  Asks = {q1}
  Replies = {m1, m2}
  NoReply = NoReply
  NoLeaf = NoLeaf
  MaxChannelFaults = 1
  p1 = p1
  c1 = c1
  d1 = d1
  g1 = g1
SYMMETRY ChildSymmetry
CHECK_DEADLOCK FALSE
INVARIANTS
  TreeSound
  ExecutionReflectsRun
  CancellationRelayed
  StallsOnlyBelowHolder
  LeavesSound
PROPERTIES
  SettledExecutionIsFinal
