\* The computer sleeps over midnight.
SPECIFICATION Spec
CONSTANTS
  DayLength = 4
  Week = 2
  Dates = 2
  Quota <- Weekly
  Policies <- NoRoutines
  Session = {x}
  None = None
  Checkpoint = 2
  Retry = 2
  Warning = 3
  FiveMinutes = 2
  OneMinute = 1
  Rearm = 1
  Sleep = 3
  MaxChanges = 1
PROPERTY OnlyAwakeTimeIsCounted
CHECK_DEADLOCK FALSE
