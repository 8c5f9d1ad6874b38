SPECIFICATION SandboxesSpec
CONSTANTS
  Brokers = {b1, b2}
  Runs = {r1, r2}
  Terminals = {t1, t2}
  Envs = {e1}
  Workspaces = {w1, w2}
  WorkspaceOf <- MCWorkspaceOf
  SessionOf <- MCSessionOf
  Delegations <- MCDelegations
  MaxAdmitted = 1
  DomainLimit = 3
  MaxWarm = 1
  MaxFaults = 1
  Forks = {r2}
  Dispositions = {"ephemeral", "destroy"}
  None = None
  Ops = {r1, r2}
  Workers = {b1, b2}
  MaxTurns = 2
  MaxCubeFaults = 2
  b1 = b1
  b2 = b2
  r1 = r1
  r2 = r2
  t1 = t1
  t2 = t2
  e1 = e1
  w1 = w1
  w2 = w2
  s1 = s1
  s2 = s2
SYMMETRY BrokerSymmetry
CHECK_DEADLOCK FALSE
INVARIANTS
  OneWriter
  RuntimesManaged
  VolumeSound
