SPECIFICATION Spec
CONSTANTS
  Orders = {o1, o2}
  Senders = {o1, o2}
  MaxVersion = 3
  Without = {2}
  MaxLoads = 3
  MaxAttempts = 3
SYMMETRY Symmetry
INVARIANTS ApprovedAtMostOnce RepostFollowsApproval MetadataNeverOlder
CHECK_DEADLOCK FALSE
