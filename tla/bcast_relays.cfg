SPECIFICATION FairSpec
CONSTANTS
  a = a
  b = b
  l1 = l1
  l2 = l2
  l3 = l3
  r1 = r1
  r2 = r2
  q1 = q1
  q2 = q2
  q3 = q3
  q4 = q4
  Client = {a, b}
  LiveID = {l1, l2}
  Owner <- OwnerOf
  Proc = {q1, q2}
  Request = {r1, r2}
  None = None
  Ops = {"SetActiveClient", "Start", "Stop", "RestartDestination", "Shutdown"}
  ObsFaults = FALSE
  SpawnFaults = TRUE
  MaxGen = 3
INVARIANTS TypeOK DestsOfActiveClient ConnectedHasProcess HeldProcessWatched
CHECK_DEADLOCK FALSE
PROPERTIES DeathNoticed
