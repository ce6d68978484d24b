SPECIFICATION FairSpec
CONSTANTS
  Conn = {k1, k2, k3}
  Request = {r1, r2}
  None = None
  MaxBackoff = 3
INVARIANTS TypeOK OneConnection ActsOnWhatItSaw OutageStartsFresh
PROPERTIES Recovers LossNoticed EveryCallReturns CloseEnds
