CONSTANTS
  App = {a1}
  Worker = {w1}
  HandlersStop = FALSE
  HandlersExit = TRUE
SPECIFICATION FairSpec
PROPERTY EscapesAreAnswered
CHECK_DEADLOCK FALSE
