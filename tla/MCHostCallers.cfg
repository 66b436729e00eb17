CONSTANTS
  App = {a1, a2}
  Worker = {w1, w2}
  HandlersStop = TRUE
  HandlersExit = TRUE
SPECIFICATION FairSpec
INVARIANT ReturnedStopIsAtRest
PROPERTY LoneStopEnds
CHECK_DEADLOCK FALSE
