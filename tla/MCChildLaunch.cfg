CONSTANTS
  Call = {c1}
  NumNames = 2
  MaxWorkers = 1
  OwnsRouter = TRUE
  WaitForLosesCancel = FALSE
  RestartsAfterStop = FALSE
SPECIFICATION FairLaunchSpec
INVARIANTS HandshakeIsKept EndedChildIsQuiet
PROPERTIES EofEndsChild StartedChildShakesHands
