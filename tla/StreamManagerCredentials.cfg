SPECIFICATION Spec
CONSTANTS
  h1 = h1
  h2 = h2
  t1 = t1
  t2 = t2
  Sockets = {s1, s2, s3}
  NoSocket = NoSocket
  Callers = {"holder", "closer"}
  Handles = {h1, h2}
  Topics = {t1, t2}
  Wants <- MCWants
  Authenticated = {TRUE, FALSE}
  Hazards = {"credentials"}
  MaxLosses = 2
  MaxFailures = 1
INVARIANT ServerMatchesRegistry
CHECK_DEADLOCK FALSE
