SPECIFICATION Spec
CONSTANTS
  w1 = w1
  w2 = w2
  NoWorker = NoWorker
  NumLeads = 1
  Workers = {w1, w2}
  MaxAttempts = 3
  SendErrors = {"transport"}
  ReplayLimit = 1
  MaxStalls = 1
  MaxFaults = 1
  LockLoss = FALSE
  OperatorFaults = TRUE
SYMMETRY Symmetry
INVARIANTS
  DeliveryInv
  FailedIsExplained
PROPERTIES
  ImplementsContract
