SPECIFICATION FairSpec
CONSTANTS
  a = a
  b = b
  s1 = s1
  s2 = s2
  s3 = s3
  s4 = s4
  NoSlot = NoSlot
  Callers = {a, b}
  Slots = {s1, s2, s3, s4}
INVARIANTS
  NoStickyFailure
  LeaksNeedRace
PROPERTIES
  ReadyIsShared
  MemoHeals
