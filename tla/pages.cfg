SPECIFICATION Spec
CONSTANTS
  Row <- Uuids
  Time <- Times
  RawLimit <- Limits
  DefaultLimit = 1
  MaxLimit = 2
  None = None
INVARIANTS TypeOK InOrder NoneSkipped
