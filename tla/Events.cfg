SPECIFICATION EventsSpec
CONSTANTS
  MaxFence = 2
  PerTurn = 2
  MaxBatch = 2
  MaxBuffered = 2
  MaxPending = 2
  Modes = {TRUE, FALSE}
  Faults = {"lease", "crash", "timeout", "rollback", "compaction", "wipe", "gateway"}
  MaxFaults = 1
  MaxOrphans = 1
  Browsers = {"b"}
  Calls = {"call"}
  ToolOutcomes = {"completed"}
  MaxRetries = 2
  MaxDeltas = 2
  MaxSteps = 2
  MaxFragments = 1
  MaxLag = 1
CHECK_DEADLOCK FALSE
INVARIANTS
  AcceptedIsKept
  ProjectionSound
  ViewsFollowTheLog
  TranscriptsAgree
PROPERTIES
  ImplementsEventLog
