CONSTANTS
  MaxRestores = 2
  MaxFaults = 3
  MaxCrashes = 2
SPECIFICATION FairSpec
INVARIANTS Recoverable NeverMixed
PROPERTIES ImplementsAtomicRestore StartsAgain
