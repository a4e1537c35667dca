\* Everything but the re-enabling of an account, which adds clients on its own.
SPECIFICATION Spec
CONSTANTS
  MaxTime = 2
  MaxRequests = 3
  MaxFaults = 1
  Requests = {"select", "deselect", "grant", "disable", "delete", "crash"}
INVARIANTS TypeOK DeletedIsGone RevokedIsGone DeadlineKept
CHECK_DEADLOCK FALSE
