SPECIFICATION AccountSpec
CONSTANTS
  MaxLaunches = 4
  MaxLogins = 2
  MaxRefreshes = 2
  MaxMishaps = 2
  org1 = org1
  org2 = org2
  proj1 = proj1
  proj2 = proj2
  team1 = team1
  team2 = team2
  sprint = sprint
  None = None
  OrgList <- MCOrgs
  ProjectList <- MCProjects
  TeamList <- MCTeams
  Sprints <- MCSprints
  MaxPicks = 4
  MaxFaults = 1
  MaxRestarts = 1
INVARIANTS SessionTypeOK StaysSignedIn StaysSignedOut CacheForgets
  RowsOfScope ScopeHealed PrefsOnDisk SwitchIsCovered PickWins
PROPERTIES MutexIsFreed SkeletonEnds
CHECK_DEADLOCK FALSE
