SPECIFICATION Spec
CONSTANTS
  ClientID = {a1}
  PlatformID = {f1}
  IngestID = {i1, i2}
  LiveID = {l1, l2}
  Key = {k1, k2}
  Extra = {x1}
  Request = {r1, r2}
  None = None
SYMMETRY Alike
INVARIANTS TypeOK TuplesUnique PlatformReferenced
