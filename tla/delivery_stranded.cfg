SPECIFICATION Spec
CONSTANTS
  ChunkBytes = 2
  Units <- MCDecodeUnits
  Early = {1}
  SourceLengths = {5}
  Scratches = {1, 3}
  MaxFails = 1
  MaxCrashes = 1
INVARIANTS
  HeldServesDemand
