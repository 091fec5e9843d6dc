CONSTANTS
  alice = alice
  bob = bob
  novel = novel
  comic = comic
  Owners <- MCOwners
  NoOwner = NoOwner
  N = 2
  Books <- MCBooks
  Chapters = {1, 2}
  BookOf <- MCBookOf
  OwnerOf <- MCOwnerOf
  Kind <- MCKind
  Selected <- MCSelected
  Listed = {1, 2}
  Concurrency = 1
  MaxQueued = 3
  MaxCrashes = 1
  MaxMaintenance = 1
SPECIFICATION FairSpec
PROPERTIES StopSettles QueuedTaskTaken
