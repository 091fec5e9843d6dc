CONSTANTS
  Clients = {editor, task}
  Texts = {t1, t2, t3}
  NoText = none
  Sources = {s1, s2}
  MaxHistory = 2
  MaxEdits = 3
  MaxOutside = 1
  MaxFetches = 1
  MaxCrashes = 2
  MaxFaults = 2
SPECIFICATION Spec
INVARIANTS NeverStuck
PROPERTIES NoLostUpdate EditsAtOnce
CHECK_DEADLOCK FALSE
