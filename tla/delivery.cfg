SPECIFICATION FairSpec
CONSTANTS
  ChunkBytes = 2
  Units <- MCUnits
  Early = {2}
  SourceLengths = {4, 5}
  Scratches = {1, 3}
  MaxFails = 1
  MaxCrashes = 1
INVARIANTS
  FetchedOnce
  HeldContinues
  TruncatedAtEnd
PROPERTIES
  FeedSpec
  ComesToRest
