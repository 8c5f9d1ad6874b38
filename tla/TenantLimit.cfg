SPECIFICATION Spec
CONSTANTS
  r1 = r1
  r2 = r2
  s1 = s1
  s2 = s2
  k1 = k1
  k2 = k2
  w1 = w1
  w2 = w2
  Sessions = {s1, s2}
  Runs = {r1, r2}
  Workers = {w1, w2}
  Workspaces = {k1, k2}
  SessionOf <- TwoSessions
  WorkspaceOf <- TwoWorkspaces
  Forked = {}
  MaxAttempts = 1
  MaxClaims = 1
  Capacity = 1
  TenantLimit = 1
  QueueLimit = 2
  Env = {}
SYMMETRY WorkerSymmetry
CHECK_DEADLOCK FALSE
INVARIANTS
  TenantConcurrencyLimit
