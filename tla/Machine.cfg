SPECIFICATION FairSpec
CONSTANTS
  c1 = c1
  c2 = c2
  Clients = {c1, c2}
  Hosts <- ServerNames
  Lower <- LowerCase
  Texts <- Targets
  Presences <- Presence
  OptionSets <- SomeOptions
  ClientHost <- ThisHost
  DefaultPort = 12398
  MaxRecords = 2
  MaxIds = 2
  Deployments <- Plain
  MaxKeys = 2
INVARIANTS
  TypeOK
  HistoryOrdered
  HistoryKept
  OneIdentity
  MirrorListedAlike
  NodeIdStatic
  RequestsVisible
PROPERTIES
  ResolvesLatest
  PicksEligible
  ServiceComesBack
