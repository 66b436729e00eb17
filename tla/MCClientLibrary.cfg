CONSTANTS
  Root = {r1}
  c1 = c1
  c2 = c2
  Correlation <- MCCorrelation
  Edition <- MCEdition
  NoEdition = ""
  Sequence <- MCSequence
  Time = {t1}
  TypeUrl <- MCTypeUrl
  NoTypeUrl = ""
  Payload <- MCPayload
  CorrelationId = {c1}
  Expected = {0, 1}
  ConflictResolution <- MCConflictResolution
  NoResolution = "UNSPECIFIED"
  MaxCalls = 3
  Absent = Absent
  Table <- MCTable
  Version = {"", "v1", "v2"}
  NoVersion = ""
  State <- MCState
  Resolution = {0, 2}
  Unspecified = 0
  Base = {1, 3}
  Unset = Unset
  Client = {k1, k2, k3, k4}
  Channel = {x1, x2}
  Thread = {t1}
  Nothing = Nothing
  None = None
SPECIFICATION MCSpec
SYMMETRY MCSymmetry
INVARIANTS NamesOneTarget BookIsWhatWasGiven NoRefusableDescriptor HostTakesDescriptor ChannelsCloseWithTheirOwner OnlyOwnersCutCalls
PROPERTIES SingleSlot
