CONSTANTS
  Call = {c1, c2, c3}
  NumNames = 2
  MaxWorkers = 2
  OwnsRouter = TRUE
  WaitForLosesCancel = FALSE
  RestartsAfterStop = FALSE
SPECIFICATION Spec
SYMMETRY CallSymmetry
INVARIANTS ServingOnlyWhileListening StopLeavesQuiet
PROPERTY KeepsItsPromise
