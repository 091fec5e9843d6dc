CONSTANTS
  Chapters = {1, 2, 3}
  Imported = {1, 2}
SPECIFICATION Spec
INVARIANTS NothingLost
