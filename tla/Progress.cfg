SPECIFICATION ProgressSpec
CONSTANTS
  r1 = r1
  r2 = r2
  s1 = s1
  k1 = k1
  Sessions = {s1}
  Runs = {r1, r2}
  Workers = {w1, w2}
  Workspaces = {k1}
  SessionOf <- MCSessionOf
  WorkspaceOf <- MCWorkspaceOf
  Forked = {}
  MaxAttempts = 2
  MaxClaims = 3
  Capacity = 1
  TenantLimit = 1
  QueueLimit = 2
  Env = {"crash"}
CHECK_DEADLOCK FALSE
PROPERTIES
  AcceptedTurnSettles
  SpoolsDrain
  ViewCatchesUp
  FencedIsRetiredInTheEnd
