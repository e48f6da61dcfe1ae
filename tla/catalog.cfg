SPECIFICATION RunSpec
CONSTANTS
  c1 = c1
  c2 = c2
  c3 = c3
  m1 = m1
  s1 = s1
  p1 = p1
  p2 = p2
  a1 = a1
  a2 = a2
  None = None
  Categories = {c1, c2, c3}
  Manufacturers = {m1}
  Series = {s1}
  Products = {p1, p2}
  Slug <- OneSlug
  Admins = {a1, a2}
  MaxRequests = 2
  MaxRows = 2
  n1 = n1
  n2 = n2
  b1 = b1
  l1 = l1
  NumItems = 2
  Nodes = {n1, n2}
  ParentOf <- TwoLevels
  Makers = {b1}
  Lines = {l1}
  Unset = Unset
  Unknown = Unknown
  Cap = 1
  MaxActs = 1
SYMMETRY Symmetry
CHECK_DEADLOCK FALSE
INVARIANTS
  HarmNeedsRace
  ListsAreTrue
PROPERTIES
  ClicksKeepTheirWord
