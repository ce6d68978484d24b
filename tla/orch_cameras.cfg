SPECIFICATION Spec
CONSTANTS
  p1 = p1
  p2 = p2
  s1 = s1
  s2 = s2
  n1 = n1
  n2 = n2
  r1 = r1
  r2 = r2
  Position = {p1, p2}
  simple = simple
  Camera = {c1}
  None = None
  ObsFaults = FALSE
  Scene = {}
  Name = {n1}
  Request = {r1, r2}
  Ticker = ticker
  Ops = {"Streams", "CreatePosition", "DeletePosition", "AssignCamera", "UnassignPosition", "SetPreviewCamera", "Cut"}
  SaveFaults = FALSE
  MediaFaults = TRUE
  BootPositions <- NoPositions
  BootScenes <- NoScenes
SYMMETRY AllAlike
INVARIANTS TypeOK CameraExclusive OfflineTracked InputsMatchPositions
