SPECIFICATION Spec
CONSTANTS
  MAX_SESSION_COUNT = 1
  MAX_NUMBER_SUB = 1
  Keys = {a}
  Clients = {c1}
  JobThreads = {t1}
  None = None
  NoKey = NoKey
  MaxRequests = 1
  MaxChanges = 1
  MaxSweeps = 0
  MaxCrashes = 0
SYMMETRY Symmetry
INVARIANT ServerSurvives
CHECK_DEADLOCK FALSE
