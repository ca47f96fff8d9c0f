SPECIFICATION Spec
CONSTANTS
  MAX_STRING_SIZE = 3
  MAX_WRITE_SIZE = 3
  Characters <- MCCharacters
  Digits = {"1", "9"}
  HugeNumber = "9"
  Strings <- MCStrings
  JobTexts <- MCJobTexts
  ClientTexts <- MCClientTexts
INVARIANTS TypeOK LinesUnderstood TakenAsWritten ResumesAtLine TakenFits
CHECK_DEADLOCK FALSE
