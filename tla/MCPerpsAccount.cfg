SPECIFICATION Spec
CONSTANTS
  QueueSize = 2
  MaxSequence = 4
  MaxReconnects = 1
  OrderCount = 2
  MaxAttempts = 3
INVARIANTS CancelReportIsTruthful
PROPERTIES NoSilentGap UpdateIsNotMissed
CHECK_DEADLOCK FALSE
