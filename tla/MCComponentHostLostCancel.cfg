CONSTANTS
  Call = {c1}
  NumNames = 2
  MaxWorkers = 1
  OwnsRouter = TRUE
  WaitForLosesCancel = TRUE
  RestartsAfterStop = FALSE
SPECIFICATION FairSpec
PROPERTY StopCompletes
