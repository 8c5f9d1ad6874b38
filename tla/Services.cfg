SPECIFICATION ServicesSpec
CONSTANTS
  Clients = {v1, v2}
  Sessions <- MCSessions
  Workspaces = {w1, w2}
  Domains = {d1, d2}
  Keys = {1, 2}
  Images = {1, 2}
  FirstSession = s1
  FirstWorkspace = w1
  MaximumProjects = 1
  MaximumSessions = 3
  MaximumUnsettledTurns = 2
  MaxTurns = 2
  MaxVersions = 2
  MaxRequests = 4
  Runs = {x1}
  Attempts <- MCAttempts
  RunOf <- MCRunOf
  ModelRequests = {v1, v2}
  Secrets = {1, 2}
  ConfiguredModels = {"flash"}
  RequestLimit = 2
  RunCostLimit = 3
  TenantCostLimit = 3
  DailyTokenLimit = 3
  MaxCredentialVersions = 2
  MaxGatewayFaults = 1
  NoSecret = NoSecret
  NoRequest = NoRequest
  SteerCalls = {v1, v2}
  Replicas = {1, 2}
  SteerTexts = {1, 2}
  SteerKeys = {1}
  SteerAttempts = {1, 2}
  MaxSteerFaults = 3
  NoCall = NoCall
  Tabs = {v1, v2}
  Instances = {1, 2}
  NoInstance = NoInstance
  MaximumRedirects = 2
  MaxTerminalFaults = 2
  Registrations = {v1, v2}
  Logins = {v1, v2}
  ApiCredentials = {a1, a2}
  BootstrapCredential = a1
  Slugs = {v1, v2}
  Operator = op
  TenantIds = {1, 2, 3}
  WebSessions = {1, 2, 3}
  MaximumTenants = 2
  MaximumActiveSessions = 1
  NoSlug = NoSlug
  Tunnels = {"tunnel"}
  Proxies = {v1, v2}
  NoProxyUrl = NoProxyUrl
  MaxRevisions = 3
  v1 = v1
  v2 = v2
  s1 = s1
  s2 = s2
  s3 = s3
  s4 = s4
  w1 = w1
  w2 = w2
  d1 = d1
  d2 = d2
  x1 = x1
  a1 = a1
  a2 = a2
SYMMETRY ServiceSymmetry
CHECK_DEADLOCK FALSE
INVARIANTS
  ConversationsSound
  GatewaySound
  TenancySound
  ServicesSound
PROPERTIES
  SettledStays
