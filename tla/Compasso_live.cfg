\* Bonuses from both sides, with a lost exchange, a crash or a midnight anywhere.
SPECIFICATION FairSpec
CONSTANTS
  Slot = {h1}
  Day = {1, 2}
  Session = {x}
  RemoteBonus = {b1}
  LocalBonus = {e1}
  ControlOp = {}
  Quota = {}
  Routines = {}
  MaxRevision = 2
  CleanupDue = FALSE
  None = None
  Checkpoint = 1
  MaxUsage = 0
  MaxFaults = 1
  MaxMoves = 1
INVARIANTS AckedBonusIsDurable BalanceCountsLocalBonusOnce
PROPERTIES ImplementsCredit GrantedBonusIsSettled LocalBonusIsReported
CHECK_DEADLOCK FALSE
