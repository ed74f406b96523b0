\* The same bonuses while midnight passes.
SPECIFICATION Spec
CONSTANTS
  Slot = {h1}
  Day = {1, 2}
  Session = {x}
  RemoteBonus = {}
  LocalBonus = {e1}
  ControlOp = {}
  Quota = {}
  Routines = {}
  MaxRevision = 1
  CleanupDue = FALSE
  None = None
  Checkpoint = 1
  MaxUsage = 1
  MaxFaults = 2
  MaxMoves = 2
INVARIANTS LocalBonusIsReportedOnce BalanceCountsLocalBonusOnce
CHECK_DEADLOCK FALSE
