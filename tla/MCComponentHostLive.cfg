CONSTANTS
  Call = {c1, c2}
  NumNames = 2
  MaxWorkers = 1
  OwnsRouter = TRUE
  WaitForLosesCancel = FALSE
  RestartsAfterStop = FALSE
SPECIFICATION FairSpec
PROPERTIES QueuedCallsSettle StartedHostServes StopCompletes SignalEndsRun
