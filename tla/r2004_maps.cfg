SPECIFICATION FairSpec
CONSTANTS
  Files <- AllFiles
  MagicBytes = 2
  HeaderBytes = 8
  Align = 4
  SysBytes = 3
  EntryBytes = 2
  GapBytes = 3
  CountBytes = 2
  SectionBytes = 3
  RefBytes = 2
  CarryBytes = 2
  ChunkBytes = 3
  Scratches = {1, 8}
  Interrupted <- ResumedFiles
  MaxRestarts = 1
INVARIANTS
  TypeOK
  RestorableInSource
  ReadsInPage
  Agrees
PROPERTIES
  Rests
CHECK_DEADLOCK FALSE
