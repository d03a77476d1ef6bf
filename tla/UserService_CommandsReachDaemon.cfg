SPECIFICATION Spec
CONSTANTS
  c1 = c1
  c2 = c2
  Clients = {c1, c2}
  Hosts <- ServerNames
  Lower <- LowerCase
  Texts <- Targets
  Presences <- Presence
  OptionSets <- SomeOptions
  ClientHost <- ThisHost
  DefaultPort = 12398
  MaxRecords = 2
  MaxIds = 2
  Deployments <- UserService
  MaxKeys = 2
INVARIANTS
  CommandsReachDaemon
