\* Two runs of the helper for two enrollments, with faults at any step.
SPECIFICATION Spec
CONSTANTS
  Interval = 1
  ServerIntervals = {0, 2, 3}
  Slowest = 2
  AttemptTimeout = 2
  Enrollment = {e1, e2}
  None = None
  MaxRuns = 2
  MaxFaults = 2
INVARIANTS TypeOK OnlyOwnStateIsUsed MarkerConfirmsConfiguration ComesBackSoon ReportIsLastResult
PROPERTIES NoBusyLoop ConfirmedComputerIsControlled
CHECK_DEADLOCK FALSE
