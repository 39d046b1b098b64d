SPECIFICATION Spec
CONSTANTS
  Files <- OverlongFile
  Scratches = {512}
  MaxChunk = 14
  HeadBytes = 3
  MaxHandle = 1000
  MaxLocation = 5000
  Interrupted <- NoFiles
  MaxRestarts = 0
INVARIANTS
  Restorable
CHECK_DEADLOCK FALSE
