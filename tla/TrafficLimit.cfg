\* One request or turn of the calendar, one failure, two starts of Xray.
SPECIFICATION Spec
CONSTANTS
  Slot = {s1, s2}
  MaxPassed = 1
  MaxBoot = 2
  Limit = 1
  Requests = {"limit", "reset", "month", "end"}
  MaxRequests = 1
  MaxFaults = 1
SYMMETRY Slots
CONSTRAINT Focus
INVARIANTS TypeOK NeverOvercharged DroppedIsGone
