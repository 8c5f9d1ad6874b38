SPECIFICATION Spec
CONSTANTS
  r1 = r1
  r2 = r2
  s1 = s1
  s2 = s2
  k1 = k1
  k2 = k2
  w1 = w1
  Sessions = {s1}
  Runs = {r1}
  Workers = {w1}
  Workspaces = {k1}
  SessionOf <- OneSession
  WorkspaceOf <- OneWorkspace
  Forked = {}
  MaxAttempts = 1
  MaxClaims = 1
  Capacity = 1
  TenantLimit = 1
  QueueLimit = 2
  Env = {"cancel"}
CHECK_DEADLOCK FALSE
INVARIANTS
  SettledTurnHasTerminalEvent
