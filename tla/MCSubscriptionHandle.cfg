SPECIFICATION FairSpec
CONSTANTS
  QueueSize = 3
  MaxEvents = 6
INVARIANTS
  QueueIsNewest
  EveryEventAccounted
  NeverStuckAfterEnd
PROPERTIES
  OutcomeIsFinal
  EndIsObserved
  KeepsPromise
