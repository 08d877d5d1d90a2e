SPECIFICATION DiscoverySpec
CONSTANTS
  Walk <- TheWalk
  KnownTypes <- Types
  Entries <- SomeEntries
  Configs <- SomeConfigs
  Worlds <- SomeWorlds
  MaxFindings = 2
  MaxGaps = 1
  MaxDay = 0
  WritesFail = TRUE
INVARIANT
  SavedCanBeLoaded
