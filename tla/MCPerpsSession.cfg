SPECIFICATION FairSpec
CONSTANTS
  Sockets = {s1, s2}
  NoSocket = NoSocket
  Connectors = {k1, k2}
  Opener = k1
  Closer = closer
  Callers = {k1, k2, closer}
  Commands = {c1}
  MaxId = 6
  MaxLosses = 2
INVARIANTS NeverStranded NothingPendingAfterClose
PROPERTIES CommandsSettle
CHECK_DEADLOCK FALSE
