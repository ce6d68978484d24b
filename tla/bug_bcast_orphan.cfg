SPECIFICATION Spec
CONSTANTS
  a = a
  b = b
  l1 = l1
  l2 = l2
  l3 = l3
  r1 = r1
  r2 = r2
  q1 = q1
  q2 = q2
  q3 = q3
  q4 = q4
  Client = {a, b}
  LiveID = {l1}
  Owner <- OwnerOf
  Proc = {q1, q2, q3}
  Request = {r1}
  None = None
  Ops = {"SetActiveClient", "Start", "Stop", "RestartDestination"}
  ObsFaults = FALSE
  SpawnFaults = FALSE
  MaxGen = 4
SYMMETRY Alike
INVARIANTS NoOrphanProcess
