SPECIFICATION Spec
CONSTANTS
  MaxSessions = 2
  Users = {u1, u2, u3}
  Quotes = {q1, q2, q3}
  MaxFaults = 1
SYMMETRY Symmetry
INVARIANTS CloseReachesEverySession OneLiveSession AckIsInOrder
CHECK_DEADLOCK FALSE
