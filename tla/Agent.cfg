\* Usage across checkpoints, crashes, reconciliations and midnight, while answers carry
\* older and newer documents and offer a bonus and a control command again and again.
SPECIFICATION Spec
CONSTANTS
  Day = {1, 2}
  Session = {x}
  RemoteBonus = {b1}
  LocalBonus = {}
  ControlOp = {2}
  Routines = {}
  None = None
  Checkpoint = 2
  MaxUsage = 3
  Answers <- SomeAnswers
CONSTRAINT UsageOrOffers
INVARIANTS TypeOK CheckpointBoundsLoss AppliedBonusIsRecorded
PROPERTY NothingGoesBack
CHECK_DEADLOCK FALSE
