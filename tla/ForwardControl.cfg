\* Two requests at once and the reconciler on two hops, one fault of any kind.
SPECIFICATION FairSpec
CONSTANTS
  r1 = r1
  r2 = r2
  reconciler = reconciler
  NoOp = NoOp
  N = 2
  Request = {r1, r2}
  MaxRequest = 2
  MaxFault = 1
  MaxGen = 6
INVARIANTS TypeOK
PROPERTIES UnwantedGoesDown ActiveComesUp CleanupFinishes
CHECK_DEADLOCK FALSE
