SPECIFICATION Spec
CONSTANTS
  Calls <- MCCalls
  Packages <- MCPackages
  PackageOf <- MCPackageOf
  DiffsOf <- MCDiffsOf
  ProofOf <- MCProofOf
  Requiring = {"c2"}
  TestKinds <- MCTestKinds
  MaxFaults = 1
INVARIANTS ProofIsGenuine PatchStaysConfigured
PROPERTIES AppliedIsInTree FailureCleansUp
