SPECIFICATION Spec
CONSTANTS
  p1 = p1
  p2 = p2
  s1 = s1
  s2 = s2
  n1 = n1
  n2 = n2
  r1 = r1
  r2 = r2
  Position = {p1, p2}
  simple = simple
  Camera = {c1, c2}
  None = None
  ObsFaults = FALSE
  Scene = {}
  Name = {n1, n2}
  Request = {r1, r2}
  Ticker = ticker
  Ops = {"AssignCamera", "SetAudioPosition"}
  SaveFaults = FALSE
  MediaFaults = FALSE
  BootPositions <- TwoPositions
  BootScenes <- NoScenes
INVARIANTS AudioSole

