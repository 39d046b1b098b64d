SPECIFICATION Spec
CONSTANTS
  Files <- ExtraFile
  MaxSections = 2
  HeadBytes = 3
  Scratches = {1, 8}
  MaxRestarts = 0
INVARIANTS
  Restorable
CHECK_DEADLOCK FALSE
