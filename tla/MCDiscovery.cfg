SPECIFICATION DiscoverySpec
CONSTANTS
  Walk <- TheWalk
  KnownTypes <- Types
  Entries <- SomeEntries
  Configs <- SomeConfigs
  Worlds <- SomeWorlds
  MaxFindings = 2
  MaxGaps = 1
  MaxDay = 1
  WritesFail = FALSE
INVARIANTS
  DiscoveryTypeOK
  ReportFollowsRegistry
  NothingHidden
  RegistryIsAsSaved
