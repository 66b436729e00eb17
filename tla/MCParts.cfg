CONSTANTS
  t1 = t1
  t2 = t2
  Table = {t1, t2}
  KindOf <- MCKindOf
  NamesDomains <- MCNamesDomains
  Version = {"", "v1", "v2"}
  NoVersion = ""
  HostVersion = "v1"
  Service = {"app"}
  MaxGiven = 1
  NoTable = NoTable
  NoServer = NoServer
  Process = {p1, p2, p3}
  Nobody = Nobody
  Piece <- MCPiece
  Path <- MCPath
  Noise <- MCNoise
  MaxNoise = 2
  Error = {e1, e2}
  Attempts <- MCAttempts
  MinDelay = 2
  MaxDelay = 3
  Exponents = 2
  None = None
  Step = {"deposit", "reserve", "charge"}
  CompletedBy <- MCCompletedBy
  TargetOf <- MCTargetOf
  Commands = {"charge", "reserve"}
  MaxHops = 2
  Key = {"K1"}
  Refusal = {"R"}
  Given <- MCGiven
  Nothing = Nothing
SPECIFICATION MCSpec
INVARIANTS RunningHostIsConsistent NothingSilentlyDropped
INVARIANTS TurnsKeepThePath AnnouncedSocketIsRead
INVARIANTS NeverTriedTooOften RaisesTheLast RetriesAreAnnouncedAndSpaced
INVARIANTS DoneStepsAreUndoneOnce RollbackIsNewestFirst RefusalBlamesItsStep
INVARIANTS ReasonSurvives StatusIsGivenOrInternal
