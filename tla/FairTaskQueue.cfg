CONSTANTS
  u1 = u1
  u2 = u2
  u3 = u3
  t1 = t1
  t2 = t2
  Owners <- MCOwners
  Items <- MCItems
  NoOwner = NoOwner
  NoItem = NoItem
  MaxItems = 5
SPECIFICATION QueueSpec
INVARIANTS QueueIsCoherent BoundedBypass
PROPERTIES ImplementsOwnerFifo
