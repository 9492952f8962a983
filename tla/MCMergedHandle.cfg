SPECIFICATION FairSpec
CONSTANTS
  Children = {c1, c2}
  ChildSize = 1
  QueueSize = 2
  MaxEvents = 2
INVARIANTS
  EndsWhenPumpsAreGone
  ErrorNotMasked
  DroppedCountsLosses
PROPERTIES
  ChildOrderKept
  OutcomeIsFinal
  FailureSurfaces
