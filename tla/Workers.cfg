SPECIFICATION WorkersSpec
CONSTANTS
  Replicas = {v1, v2}
  MaxBoots = 2
  MaxSockets = 2
  MaxHistory = 2
  MaxFaults = 1
  Sessions = {1, 2}
  Root = 1
  MaxRuns = 2
  MaxCalls = 1
  MaxRetries = 1
  MaxPrunes = 1
  MaxDetours = 2
  Parents = {v1, v2}
  Children = {e1}
  MaximumConcurrentRuns = 2
  MaxExecutions = 3
  MaxPoolFaults = 1
  Steers = {v1, v2}
  MaxPendingCommands = 1
  MaxConnections = 2
  MaxTries = 2
  MaxExchangeFaults = 2
  Activations = {v1, v2}
  Environments = {e1, e2}
  NoActivation = NoActivation
  ToolBudget = 1
  MaxContextRuns = 3
  MaxContextSteps = 2
  v1 = v1
  v2 = v2
  e1 = e1
  e2 = e2
SYMMETRY WorkerSymmetry
CHECK_DEADLOCK FALSE
INVARIANTS
  OwnershipSound
  LogSound
  LanesSound
  SteersSound
  ContextSound
