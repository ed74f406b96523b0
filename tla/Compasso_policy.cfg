\* Overlapping exchanges while the policy is edited.
SPECIFICATION Spec
CONSTANTS
  Slot = {h1, h2}
  Day = {1}
  Session = {x}
  RemoteBonus = {}
  LocalBonus = {}
  ControlOp = {}
  Quota = {1}
  Routines = {r1}
  MaxRevision = 3
  CleanupDue = FALSE
  None = None
  Checkpoint = 1
  MaxUsage = 0
  MaxFaults = 1
  MaxMoves = 0
INVARIANTS PolicyIsWhatWasReported
SYMMETRY Exchanges
CHECK_DEADLOCK FALSE
