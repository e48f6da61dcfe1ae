SPECIFICATION Spec
CONSTANTS
  i1 = i1
  i2 = i2
  p1 = p1
  c1 = c1
  c2 = c2
  None = None
  Industries = {i1, i2}
  Products = {p1}
  Categories = {c1, c2}
  SlugOrder <- Order
  Texts = {t1, t2}
  Files = {f1, f2}
  BadFiles = {f2}
  Catalogues <- States
  Doorways <- Urls
  ChipBudget = 2
  MaxItems = 3
  MaxActs = 4
  MaxRequests = 2
  MaxEdits = 1
INVARIANTS
  OwnInputStays
  DoorwayIsTrue
  ExtraLeadNeedsLostAnswer
CHECK_DEADLOCK FALSE
