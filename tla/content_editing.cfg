SPECIFICATION FormsSpec
CONSTANTS
  s1 = s1
  s2 = s2
  s3 = s3
  x1 = x1
  x2 = x2
  m1 = m1
  m2 = m2
  d1 = d1
  d2 = d2
  a1 = a1
  a2 = a2
  e1 = e1
  i1 = i1
  Idle = Idle
  None = None
  Steps = {s1, s2, s3}
  Parts = {"process", s1}
  Locales = {"en", "tr"}
  Texts = {x1, x2}
  Fixture = x1
  Moves = {m1, m2}
  Editors = {e1}
  Deploys = {d1, d2}
  Admins = {a1, a2}
  Images = {i1}
  Foreign = Foreign
  Unfit = Unfit
  Blank = Blank
  Absent = Absent
  Gone = Gone
  MaxMade = 5
  MaxTouched = 1
SYMMETRY Symmetry
INVARIANTS
  OwnerTextStays
  MovesAreAtomic
  StoredCanBeSaved
PROPERTIES
  SavesAreExact
CHECK_DEADLOCK FALSE
