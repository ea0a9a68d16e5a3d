SPECIFICATION AskSpec
CONSTANTS
  Versions <- MCVersions
  UpgradeEntries <- MCUpgradeEntries
  PatchedRanges <- MCPatchedRanges
  Listings <- MCListings
  Packages <- MCPackages
  Numbers <- MCNumbers
  Manifests <- MCManifests
  Locks <- MCLocks
  Findings <- MCFindings
  Programs <- MCPrograms
  MaxArguments = 4
  PolicyLists <- MCPolicyLists
  Suppressions <- MCSuppressions
INVARIANTS
  
  DeltaMissesNothing
  NotReachableMisses
  EditsLand
  ArgumentsLand
  SuppressionHolds
