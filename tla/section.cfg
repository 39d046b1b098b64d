SPECIFICATION FairSpec
CONSTANTS
  Sections <- MCSections
  Jobs <- MCJobs
  SourceLength = 12
  HeadBytes = 2
  OutBytes = 2
  CarryBytes = 2
  ChunkBytes = 3
  Scratches = {1, 8}
  MaxRestarts = 2
INVARIANTS
  Restorable
  VerifiedFirst
  ReadInPage
  PagesApart
  PagesWhole
PROPERTIES
  AssemblySpec
  Rests
CHECK_DEADLOCK FALSE
