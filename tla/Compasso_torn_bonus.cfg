\* A bonus granted between the statements that build an answer.
SPECIFICATION Spec
CONSTANTS
  Slot = {h1}
  Day = {1}
  Session = {x}
  RemoteBonus = {b1}
  LocalBonus = {}
  ControlOp = {}
  Quota = {}
  Routines = {}
  MaxRevision = 2
  CleanupDue = FALSE
  None = None
  Checkpoint = 1
  MaxUsage = 0
  MaxFaults = 0
  MaxMoves = 1
INVARIANT AckedBonusIsInBalance
CHECK_DEADLOCK FALSE
