SPECIFICATION Spec
CONSTANTS
  Clients = {"console", "agent"}
  ConsoleClient = "console"
  Burst = 1
  Rate = 1
  Ttl = 0
  MaxClients = 1
  MaxTime = 2
  NoBucket = NoBucket
  Browsers = {b1, b2}
  Keys = {office, home}
  Accounts <- MCAccounts
  Roles = {"admin", "analyst"}
  RolesOf <- MCRolesOf
  MaxFailed = 2
  Window = 1
  Block = 1
  MaxTracked = 1
  SessionTtl = 1
  UpstreamTimeout = 1
  MaxRequests = 5
  MaxDeploys = 1
  Nothing = Nothing
INVARIANTS
  TypeOK
  AdmissionsAreBounded
  AttemptsAreBounded
  StaleRoleIsBounded
  AnswersAreTrue
CHECK_DEADLOCK FALSE
SYMMETRY Alike
