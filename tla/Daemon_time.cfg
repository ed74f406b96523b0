SPECIFICATION Spec
CONSTANTS
  DayLength = 4
  Week = 2
  Dates = 2
  Quota <- Weekly
  Policies <- Nights
  Session = {x}
  None = None
  Checkpoint = 2
  Retry = 3
  Warning = 3
  FiveMinutes = 2
  OneMinute = 1
  Rearm = 1
  Sleep = 3
  MaxChanges = 3
CONSTRAINT OneOfAKind
INVARIANTS TypeOK NoInstantCountedTwice BalanceIsNotOverdrawn OverlapTestIsExact NextStartIsExactToday
PROPERTIES RoutineTimeIsNotCounted WarnedBeforeBlocked BlockingLocksAtOnce
CHECK_DEADLOCK FALSE
