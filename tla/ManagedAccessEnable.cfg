\* An account that is re-enabled gets its clients back without the user's lease.
SPECIFICATION Spec
CONSTANTS
  MaxTime = 1
  MaxRequests = 3
  MaxFaults = 0
  Requests = {"disable", "enable", "delete"}
INVARIANTS DeletedIsGone
CHECK_DEADLOCK FALSE
