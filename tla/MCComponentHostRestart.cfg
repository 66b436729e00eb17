CONSTANTS
  Call = {c1}
  NumNames = 2
  MaxWorkers = 2
  OwnsRouter = TRUE
  WaitForLosesCancel = FALSE
  RestartsAfterStop = TRUE
SPECIFICATION Spec
INVARIANT StopLeavesQuiet
