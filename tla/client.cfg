SPECIFICATION Spec
CONSTANTS
  None = None
  MaxCommands = 2
  MaxNotifications = 2
  Capacity = 1
  ResponseRoom = 2
INVARIANTS TypeOK AnswersItsCommand NothingUnprinted
PROPERTIES ErrorsExplained ConnectCompletes ClientEnds NotificationsRead
CHECK_DEADLOCK FALSE
