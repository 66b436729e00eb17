CONSTANTS
  Input = {i1, i2}
  u1 = u1
  u2 = u2
  State <- MCState
  Factory <- MCFactory
  Event <- MCEvent
  Decisions <- MCDecisions
  HasApplier <- MCHasApplier
  Apply <- MCApply
  Changed <- MCChanged
  Left <- MCLeft
  MaxLog = 3
  Type <- MCType
  Declared <- MCDeclared
  Output <- MCOutput
  Call = {c1, c2}
  Worker = {w1, w2}
  MaxPages = 3
  MaxDepth = 1
  NoPage = NoPage
  MessageType <- MCMessageType
  Content <- MCContent
  Empty = "empty"
  Unset = Unset
  MaxRead = 2
  Raised = Raised
  None = None
SPECIFICATION MCSpec
SYMMETRY MCSymmetry
INVARIANTS SnapshotIsReplay HistoryFolds CommutativeCommitsAreDisjoint ConflictWindowIsComplete
INVARIANTS HandlerSeesItsPage AnswerIsItsBook ReaderTakesItsPages
