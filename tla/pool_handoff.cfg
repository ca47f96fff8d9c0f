SPECIFICATION Spec
CONSTANTS
  MAX_SESSION_COUNT = 2
  Managers = {m1, m2}
  Clients = {c1, c2, c3, c4}
  NoClient = NoClient
  MaxSignals = 0
SYMMETRY Symmetry
INVARIANTS TypeOK BufferRespected ScanInv ScanFindsEntry
