SPECIFICATION FairSpec
CONSTANTS
  live = live
  broadcast = broadcast
  Topic = {live, broadcast}
  Locked = {broadcast}
  Order <- SentOrder
  Publisher = {g1}
  Page = {pg1}
  Conn = {c1, c2}
  None = None
  Buffer = 1
  Wire = 1
  MaxVer <- Versions
  MaxFaults = 1
INVARIANTS TypeOK NothingElseLost
PROPERTIES ShowsOnlyProgress Released Reconnects
CHECK_DEADLOCK FALSE
