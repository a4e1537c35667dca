\* Forwards, and operations that ask for a server when they have the mutex.
SPECIFICATION Spec
CONSTANTS
  p1 = p1
  p2 = p2
  p3 = p3
  NoProcess = NoProcess
  Process = {p1, p2, p3}
  Server = {1, 2}
  Kind = {"forward", "add", "provision"}
  MaxHops = 2
SYMMETRY Operations
CHECK_DEADLOCK FALSE
INVARIANTS NoCircularWait
