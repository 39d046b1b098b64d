SPECIFICATION FairSpec
CONSTANTS
  Files <- MCFiles
  Scratches = {1, 512}
  MaxChunk = 14
  HeadBytes = 3
  MaxHandle = 1000
  MaxLocation = 5000
  Interrupted <- ResumedFiles
  MaxRestarts = 1
INVARIANTS
  TypeOK
  Agrees
  DemandInBounds
  RestorableEntry
PROPERTIES
  Ends
CHECK_DEADLOCK FALSE
