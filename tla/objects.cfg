SPECIFICATION Spec
CONSTANTS
  Files <- MCFiles
  MaxMc = 3
  HeadBytes = 4
  NoHandle = NoHandle
  StageBytes = 4
  Pieces = {1, 3, 9}
  Interrupted <- ResumedFiles
  MaxRestarts = 2
INVARIANTS
  TypeOK
  Agrees
  Restorable
CHECK_DEADLOCK FALSE
