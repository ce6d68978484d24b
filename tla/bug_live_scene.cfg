SPECIFICATION Spec
CONSTANTS
  p1 = p1
  p2 = p2
  s1 = s1
  s2 = s2
  n1 = n1
  n2 = n2
  r1 = r1
  r2 = r2
  Position = {p1}
  simple = simple
  Camera = {}
  None = None
  ObsFaults = FALSE
  Scene = {s1}
  Name = {n1}
  Request = {r1, r2}
  Ticker = ticker
  Ops = {"SetPreviewScene", "Cut", "DeleteScene"}
  SaveFaults = FALSE
  MediaFaults = FALSE
  BootPositions <- OnePosition
  BootScenes <- OneScene1
INVARIANTS LiveSceneExists
