SPECIFICATION Spec
CONSTANTS
  MAX_SESSION_COUNT = 1
  MAX_NUMBER_SUB = 3
  Keys = {a, b}
  Clients = {c1}
  JobThreads = {t1}
  None = None
  NoKey = NoKey
  MaxRequests = 4
  MaxChanges = 2
  MaxSweeps = 0
  MaxCrashes = 1
SYMMETRY Symmetry
INVARIANTS TypeOK SubscriptionsAgree SteadyNotified QuietClients
CHECK_DEADLOCK FALSE
