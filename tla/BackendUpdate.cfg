CONSTANTS
  config = config
  units = units
  Artifacts <- MCArtifacts
  None = None
  Bad = {1}
  MaxRevision = 2
  MaxUpdates = 1
  MaxMishaps = 2
  MaxWrites = 1
SPECIFICATION FairSpec
INVARIANTS Orderly  DataFitsCode
PROPERTIES  ServiceReturns JobEnds
CHECK_DEADLOCK FALSE
