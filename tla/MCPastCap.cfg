SPECIFICATION FairSpec
CONSTANTS
  Cap = 2
  MaxChunk = 2
  MaxOut = 4
  Calls = {"stream"}
CHECK_DEADLOCK FALSE
PROPERTIES
  NoChunkPastCap
