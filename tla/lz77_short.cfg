SPECIFICATION Spec
CONSTANTS
  Streams <- ShortStreams
  Limits = {8}
  Lead = 15
  Run = 255
  Far = 4
  Feeds = {1, 100}
  Rooms = {1, 5}
  Interrupted <- NoStreams
  MaxBackref = 33
  MaxRestarts = 0
INVARIANTS
  Restorable
CHECK_DEADLOCK FALSE
