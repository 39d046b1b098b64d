SPECIFICATION FairSpec
CONSTANTS
  Files <- MCFiles
  MaxSections = 2
  HeadBytes = 3
  Scratches = {1, 8}
  MaxRestarts = 2
INVARIANTS
  TypeOK
  InMapOrder
  Accounted
  RestorableListed
PROPERTIES
  Ends
CHECK_DEADLOCK FALSE
