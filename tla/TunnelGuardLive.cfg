\* One resource with source CIDRs, renewals, deadlines that differ.
SPECIFICATION FairSpec
CONSTANTS
  t1 = t1
  t2 = t2
  t3 = t3
  Tunnel = {t1}
  Port <- SharedPort
  Restricted = {t1}
  MaxGen = 2
  MaxLease = 2
  MaxHard = 1
  RetryDelay = 1
  Hour = 3
  MaxCrash = 1
PROPERTIES LeaseEnforced PendingSettles
