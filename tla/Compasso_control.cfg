\* Two clicks while the agent synchronizes, times out and restarts.
SPECIFICATION Spec
CONSTANTS
  Slot = {h1}
  Day = {1}
  Session = {x}
  RemoteBonus = {}
  LocalBonus = {}
  ControlOp = {2, 3}
  Quota = {}
  Routines = {}
  MaxRevision = 1
  CleanupDue = FALSE
  None = None
  Checkpoint = 1
  MaxUsage = 0
  MaxFaults = 1
  MaxMoves = 1
CONSTRAINT ClicksAfterPolicy
INVARIANT HeldControlIsDesired
CHECK_DEADLOCK FALSE
