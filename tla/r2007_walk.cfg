SPECIFICATION FairSpec
CONSTANTS
  SourceSize = 13
  GatherWindow = 3
  CodeWord = 3
  Message = 2
  ChunkBytes = 3
  HeadBytes = 2
  PageBase = 2
  EntryBytes = 2
  DescriptorBytes = 2
  ReferenceBytes = 2
  Files <- AllFiles
  Scratches = {2, 3}
  MaxFailures = 1
  Interrupted <- ResumedFiles
  MaxRestores = 1
INVARIANTS
  Agrees
  Restorable
  SourceTrue
PROPERTIES
  Rests
CHECK_DEADLOCK FALSE
