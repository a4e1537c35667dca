\* Deletions and revocations are carried out, with everything that can go wrong.
SPECIFICATION FairSpec
CONSTANTS
  MaxTime = 1
  MaxRequests = 3
  MaxFaults = 1
  Requests = {"select", "deselect", "grant", "disable", "enable", "delete", "crash"}
 
PROPERTIES RemovalEnds
CHECK_DEADLOCK FALSE
