\* Three independent views; nothing runs for ever in the bounded instances.
SPECIFICATION Spec
CONSTANTS
  Zero = Zero
  MaxRuns = 3
  MaxSamples = 2
  Id = {1, 2}
  Outbound = {1, 2}
  MaxLogChunks = 8
  MaxConnections = 2
  MaxLines = 5
  None = None
  Name = {"server", "gemini", "cnsite", "foreign"}
  Net = {"server4", "server6", "private", "cn", "v6", "abroad"}
  SetName = {"set"}
  Server = "server"
  Server4 = "server4"
  Server6 = "server6"
  Gemini = "gemini"
  CnSite = "cnsite"
  Private = "private"
  Cn = "cn"
  V6 = "v6"
  NoValue = NoValue
  Blank = Blank
  Illegal = Illegal
  Refused = Refused
  MaxRules = 3
  RawRule <- TestRules
INVARIANTS
  LiveTypeOK
  RateIsCurrent
  EntriesExact
  TruncationTold
  DecisionsWanted
  ProvidersComplete
  SavedStaysReadable
PROPERTIES
  DownShowsZero
CHECK_DEADLOCK FALSE
