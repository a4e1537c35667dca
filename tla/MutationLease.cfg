\* Two operations on two servers, none of which asks for a server when it has the
\* mutex.
SPECIFICATION FairSpec
CONSTANTS
  p1 = p1
  p2 = p2
  p3 = p3
  NoProcess = NoProcess
  Process = {p1, p2}
  Server = {1, 2}
  Kind = {"forward", "chain", "add", "install", "prepare"}
  MaxHops = 2
INVARIANTS TypeOK NoCircularWait WorksUndisturbed
PROPERTIES Finishes
