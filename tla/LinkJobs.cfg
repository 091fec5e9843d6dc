CONSTANTS
  Keys = {key}
  NoKey = noKey
  Slots = 1
  MaxJobs = 2
  MaxRetries = 1
  MaxStops = 2
  MaxFaults = 1
SPECIFICATION FairSpec
INVARIANTS NotForgotten ImportsInOrder MadeOnce
PROPERTIES Settles KeepsPromise
CHECK_DEADLOCK FALSE
