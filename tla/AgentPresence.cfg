\* An agent that stops, moves and reports, broken connections, panel restarts.
CONSTANTS
  Slot = {c1, c2}
  Upsets = {"stop", "break", "move", "report", "restart"}
  None = none
  Address = {a1, a2}
  Silence = 1
  Tolerance = 1
  Freshness = 1
  Cooldown = 2
  Stale = 2
SPECIFICATION FairSpec
INVARIANTS TypeOK NoGhost
PROPERTIES OncePerOutage GoneIsMarked GetsIn
