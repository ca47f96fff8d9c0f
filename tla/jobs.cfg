SPECIFICATION JobFairSpec
CONSTANTS
  JobThreads = {t1, t2}
  max_backups = 1
  None = None
  MaxSignals = 1
  Stem <- MCStem
  Directory <- MCDirectory
  NumberFits <- MCNumberFits
  JobNames <- MCJobNames
  MaxJobBackups = 2
  MaxOpenFails = 1
  MaxCreateFails = 1
  Destroyed = Destroyed
INVARIANTS BackupsBounded JobTypeOK JobsOpenedOnce BackupsNamed
PROPERTIES GateReleased EveryJobOpened
CHECK_DEADLOCK FALSE
