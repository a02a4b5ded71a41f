SPECIFICATION FairSpec
CONSTANTS
  Uuids = {h1, h2}
  Names = {n1, n2}
  AppLists = {NoApps, apps}
  NoApps = NoApps
  MaxChanges = 3
  MaxCrashes = 2
INVARIANTS ListInv HostsSurvive
PROPERTIES SavedEventually ExitEnds
