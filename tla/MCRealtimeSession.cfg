SPECIFICATION FairSpec
CONSTANTS
  a = a
  b = b
  one = one
  both = both
  Keys = {a, b}
  Listeners = {one, both}
  NoListener = NoListener
  Wants <- MCWants
  MaxLosses = 2
  MaxFailures = 2
INVARIANTS
  TypeOK
  ServerFollowsKeys
  AcceptedIsServed
  HandlesAreWhole
  CloseIsComplete
PROPERTIES
  LiveHandlesSurviveReconnects
  SubscribesEnd
  UnusedSessionsClose
CHECK_DEADLOCK FALSE
