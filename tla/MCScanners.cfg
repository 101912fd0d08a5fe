CONSTANTS
  Sites <- MCSites
  Words <- MCWords
  Business <- MCBusiness
  Docs <- MCDocs
  Admins <- MCAdmins
  Objects <- MCObjects
  Numbers = {"7", "8", "9", "72", "92"}
  Sorted <- MCSorted
  Longer <- MCLonger
  Many = 3
  MaxProbed = 4
  MaxTried = 3
  MaxOutages = 1
  Targets <- MCTargets
  SameBody = 1
  MaxTroubles = 2
  Repos <- MCRepos
  MaxDepth = 2
  Sources <- MCSources
  Window = 2
  Far = 3
  Worlds <- MCWorlds
  Troubles <- MCTroubles
  Filters <- MCFilters
  Severity <- MCSeverity
  Enough = 2
  Large = 1
  MaxScripts = 2
  MaxShifts = 1
  Parts <- AllParts
SPECIFICATION ScannersSpec
CHECK_DEADLOCK FALSE
INVARIANTS RedScanSound LiveTestsSound SourcesSound OsintSound
PROPERTIES ProbesFresh ScannersEnd
