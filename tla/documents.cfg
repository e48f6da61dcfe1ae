SPECIFICATION FairSpec
CONSTANTS
  r1 = r1
  r2 = r2
  r3 = r3
  v1 = v1
  s1 = s1
  NoFile = NoFile
  NoEntry = NoEntry
  Requests = {r1, r2, r3}
  Visitors = {v1}
  Slugs = {s1}
  MaxFills = 1
INVARIANTS
  RowNamesObject
  OrphansNeedCause
PROPERTIES
  CacheHeals
CHECK_DEADLOCK FALSE
