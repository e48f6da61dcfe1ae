SPECIFICATION DeskSpec
CONSTANTS
  r1 = r1
  r2 = r2
  c1 = c1
  c2 = c2
  e1 = e1
  e2 = e2
  d1 = d1
  NoRequest = NoRequest
  Requests = {r1, r2}
  Clients = {c1, c2}
  Forms <- AllForms
  Limit = 1
  Erasers = {e1, e2}
  Desks = {d1}
SYMMETRY Symmetry
INVARIANTS
  AnswersAreTrue
  ReferencesAreUnique
  ErasedLeavesNoFile
  ThrottleIsEarned
  DeskIsTrue
PROPERTIES
  OnlyCleanIsStored
CHECK_DEADLOCK FALSE
