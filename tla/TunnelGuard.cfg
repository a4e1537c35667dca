\* Two resources on one port, one of them with source CIDRs, and a third with CIDRs
\* and a port of its own.
SPECIFICATION Spec
CONSTANTS
  t1 = t1
  t2 = t2
  t3 = t3
  Tunnel = {t1, t2, t3}
  Port <- SharedPort
  Restricted = {t1, t3}
  MaxGen = 2
  MaxLease = 1
  MaxHard = 1
  RetryDelay = 0
  Hour = 1
  MaxCrash = 1
CONSTRAINT Pairs
INVARIANTS TypeOK NoOrphanInbound PortExclusive
PROPERTIES GenerationFence RebuildKeepsACL ImplementsContract
