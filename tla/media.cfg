SPECIFICATION DeliverySpec
CONSTANTS
  i1 = i1
  i2 = i2
  k1 = k1
  k2 = k2
  k3 = k3
  l1 = l1
  t1 = t1
  g1 = g1
  j1 = j1
  j2 = j2
  a1 = a1
  a2 = a2
  None = None
  Images = {i1, i2}
  Copies = {k1, k2}
  Logos = {l1}
  Photos = {t1}
  Pictures = {g1}
  ProjectMedia = {j1, j2}
  Admins = {a1, a2}
  MaxRequests = 3
SYMMETRY Symmetry
CHECK_DEADLOCK FALSE
INVARIANTS
  RowHasObject
  HeldIsKept
  RepliesAreTrue

