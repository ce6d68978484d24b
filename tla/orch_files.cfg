SPECIFICATION Spec
CONSTANTS
  p1 = p1
  p2 = p2
  s1 = s1
  s2 = s2
  n1 = n1
  n2 = n2
  r1 = r1
  r2 = r2
  Position = {p1, p2}
  simple = simple
  Camera = {}
  None = None
  ObsFaults = TRUE
  Scene = {s1, s2}
  Name = {n1, n2}
  Request = {r1, r2}
  Ticker = ticker
  Ops = {"CreatePosition", "RenamePosition", "CreateScene", "RenameScene", "UpdateScenePositions", "DeleteScene", "SetPreviewScene", "Restart"}
  SaveFaults = TRUE
  MediaFaults = FALSE
  BootPositions <- NoPositions
  BootScenes <- NoScenes
SYMMETRY AllAlike
INVARIANTS PositionNamesUnique SceneNamesUnique PreviewSceneExists
