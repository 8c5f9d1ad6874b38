SPECIFICATION MCSpec
CONSTANTS
  r1 = r1
  r2 = r2
  r3 = r3
  r4 = r4
  s1 = s1
  s2 = s2
  s3 = s3
  k1 = k1
  w1 = w1
  w2 = w2
  Sessions = {s1, s2, s3}
  Runs = {r1, r2, r3, r4}
  Workers = {w1, w2}
  Workspaces = {k1}
  SessionOf <- MCSessionOf
  WorkspaceOf <- MCWorkspaceOf
  Forked = {s3}
  MaxAttempts = 2
  MaxClaims = 2
  Capacity = 1
  TenantLimit = 2
  QueueLimit = 2
  Env = {"crash", "lease", "claim", "fence"}
SYMMETRY WorkerSymmetry
CHECK_DEADLOCK FALSE
INVARIANTS
  TypeOK
  OpenClaimIsCurrent
  MailboxOrder
  AcknowledgedHoldsLease
  ExecutionOwnsSession
  CapacityAccounting
  BranchesSound
  LifecycleAgreement
  OneActiveTurn
PROPERTIES
  ImplementsContract
  RunSettlesOnce
  TransitionsAreLegal
