\* Every sequence of three requests or changes of the entitlement beside the
\* reconciler, three hops.
SPECIFICATION Spec
CONSTANTS
  r1 = r1
  r2 = r2
  reconciler = reconciler
  NoOp = NoOp
  N = 3
  Request = {r1}
  MaxRequest = 3
  MaxFault = 1
  MaxGen = 6
INVARIANTS EntryLast DeployedTogether
PROPERTIES ReleasedForGood
CHECK_DEADLOCK FALSE
