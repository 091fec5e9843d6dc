CONSTANTS
  Devices = {phone, tablet}
  MaxReceipts = 1
  MaxSaves = 2
  MaxOps = 3
  MaxForeign = 1
  MaxRestarts = 1
  MaxFaults = 1
SPECIFICATION Spec
INVARIANTS AppliedOnce NothingForgotten
PROPERTIES NoBlindOverwrite ReceiptNeverLowers
CHECK_DEADLOCK FALSE
