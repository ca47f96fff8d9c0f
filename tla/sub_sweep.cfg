SPECIFICATION FairSpec
CONSTANTS
  MAX_SESSION_COUNT = 1
  MAX_NUMBER_SUB = 1
  Keys = {a}
  Clients = {c1, c2}
  JobThreads = {t1}
  None = None
  NoKey = NoKey
  MaxRequests = 1
  MaxChanges = 1
  MaxSweeps = 1
  MaxCrashes = 0
INVARIANTS SubscriptionsAgree QuietClients ClientsServed
PROPERTIES RequestAnswered SweptManagerFreed
CHECK_DEADLOCK FALSE
