SPECIFICATION MCSpec
CONSTANTS
  Null = Null
  None = None
  Text = Text
  Cents <- MCCents
  Mills <- MCMills
  Tenths = {0, 3, 5, 55}
  Hours = {0, 1, 2, 3}
  Elements <- MCElements
  Contract = {k1, k2}
  Periods = 2
  Account <- MCAccount
  Pool <- MCPool
  Exceptions <- MCExceptions
  Transactions <- MCTransactions
  JobCosts <- MCJobCosts
  Invoices <- MCInvoices
  Registers <- MCRegisters
  Delay = {2}
  Performance <- MCPerformance
  Overhead = {10}
  MIN_HISTORY = 2
  Tolerance = 1
  MaxRows = 3
  k1 = k1
  k2 = k2
  MayDie = TRUE
  Thread = {"t1", "t2"}
  Address = {"a1", "a2"}
  Environment <- MCEnvironment
  Token <- MCToken
  NoToken <- MCNoToken
  Limit = 2
  Window = 1
  MAX_KEYS = 1
  MaxClock = 3
  MaxGrants = 4
  Maker = {"m1", "m2"}
  Name = {"n1", "n2"}
  MAX_CACHED_WORKSPACES = 1
  Payload <- MCPayload
  Prose <- MCProse
  MAX_SANE = 80000
  ModelTool <- MCModelTool
  Mode = {"synthetic", "real", "other"}
  Client = {"local", "cloud", "none"}
  CallCost = {1, 2}
  Ceiling = 3
  MaxUses = 2
  MAX_TURNS = 3
INVARIANTS TablesMatchLegacy ValidDraftEvaluates UnsettledIsSaid FiguresFoot BooksTieUnlessLate ReportsAgree ClaimsStand ShippedIsGrounded SpendIsBounded LimitHolds AdmittedIsVerified WorkspacesStayWhole EnforcementStands
PROPERTY RequestsEnd
CHECK_DEADLOCK FALSE
