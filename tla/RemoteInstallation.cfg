\* Two installers of one server, whose calls are tried twice, and an ordinary operation.
SPECIFICATION Spec
CONSTANTS
  n1 = n1
  n2 = n2
  m1 = m1
  m2 = m2
  NoNonce = NoNonce
  Nonce = {n1, n2}
  Mutation = {m1}
  TTL = 2
  MaxLife = 2
  MaxTry = 2
  MaxLate = 1
  MaxNow = 2
SYMMETRY Installers
CHECK_DEADLOCK FALSE
INVARIANTS TypeOK Excluded QuietRestore CommitAgreement LockEnds
PROPERTIES NoWayBack ImplementsOwner
