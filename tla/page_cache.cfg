SPECIFICATION FairSpec
CONSTANTS
  v1 = v1
  t1 = t1
  p1 = p1
  p2 = p2
  Gone = Gone
  Products = {p1}
  Absent = Absent
  Draft = Draft
  Nothing = Nothing
  NoEntry = NoEntry
  MaxEdits = 2
  Visitors = {v1}
  Texts = {t1}
  TTL = 1
  MaxFills = 1
INVARIANTS
  OutdatedNeedsCause
PROPERTIES
  PagesHeal
