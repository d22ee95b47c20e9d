SPECIFICATION Spec
CONSTANTS
  Absent = Absent
  NotDomainsGo <- MCNotDomainsGo
  NotDomainsTS <- MCNotDomainsTS
  MaxKnownHosts = 1
  GroupIds <- MCGroupIds
  Profiles <- MCProfiles
  InitialDisks <- MCInitialDisks
  Edits <- MCEdits
  Hosts <- MCHosts
  Overlap = FALSE
  MaxOps = 2
  MaxCrashes = 1
INVARIANTS RouteShown
PROPERTIES RulesOnlyEdited
CHECK_DEADLOCK FALSE
