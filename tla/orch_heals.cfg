SPECIFICATION HealSpec
CONSTANTS
  p1 = p1
  s1 = s1
  n1 = n1
  Position = {p1}
  simple = simple
  Camera = {c1, c2}
  None = None
  ObsFaults = FALSE
  Scene = {s1}
  Name = {n1}
  Request = {r1, r2}
  Ticker = ticker
  Ops = {"AssignCamera", "UpdateScenePositions", "SetPreviewCamera", "SetPreviewScene", "Cut"}
  SaveFaults = FALSE
  MediaFaults = FALSE
  BootPositions <- OnePosition
  BootScenes <- OneScene
SYMMETRY Alike
INVARIANTS OnAirHeals SourceHeals
