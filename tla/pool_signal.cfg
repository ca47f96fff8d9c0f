SPECIFICATION LeavingSpec
CONSTANTS
  MAX_SESSION_COUNT = 1
  Managers = {m1}
  Clients = {c1, c2}
  NoClient = NoClient
  MaxSignals = 2
INVARIANTS TokensAccounted ActiveEntryHeld
PROPERTY SignalSwept
