\* Whatever a device reports, however late or often, while the administrator edits,
\* grants and clicks between the statements of an exchange.
SPECIFICATION Spec
CONSTANTS
  Slot = {h1}
  Day = {d1, d2}
  Session = {x}
  RemoteBonus = {b1}
  LocalBonus = {}
  ControlOp = {2, 3}
  Quota = {1}
  Routines = {r1}
  MaxRevision = 3
  CleanupDue = TRUE
  None = None
  Reports <- SomeReports
CONSTRAINT EditsOrCommands
INVARIANTS TypeOK AckedBonusIsInLedger ActivityFollowsCommand PendingControlIsDesired AnswerNotAheadOfPolicy
PROPERTY NothingIsTakenBack
SYMMETRY Dates
CHECK_DEADLOCK FALSE
