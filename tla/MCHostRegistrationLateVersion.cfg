CONSTANTS
  t1 = t1
  t2 = t2
  Table = {t1, t2}
  KindOf <- MCKindOf
  NamesDomains <- MCNamesDomains
  Version = {"", "v1", "v2"}
  NoVersion = ""
  HostVersion = "v1"
  Service = {"app"}
  MaxGiven = 1
  NoTable = NoTable
  NoServer = NoServer
SPECIFICATION RegistrationSpec
INVARIANT DescribedVersionIsAnswered
