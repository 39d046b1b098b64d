SPECIFICATION FairSpec
CONSTANTS
  Streams <- MCStreams
  Limits = {20, 60}
  Lead = 1
  Run = 2
  Far = 4
  Feeds = {0, 1, 100}
  Rooms = {1, 5}
  Interrupted <- ResumedStreams
  MaxBackref = 33
  MaxRestarts = 2
INVARIANTS
  TypeOK
  Restorable
  WindowHolds
  Agrees
PROPERTIES
  Bargain
  Ends
CHECK_DEADLOCK FALSE
