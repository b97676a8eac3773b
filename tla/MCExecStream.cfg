SPECIFICATION FairSpec
CONSTANTS
  Cap = 2
  MaxChunk = 2
  MaxOut = 4
  Calls = {"exec", "stream", "mcp", "logs"}
CHECK_DEADLOCK FALSE
INVARIANTS
  TypeOK
  KeptIsPrefix
  ChunksThenNotice
  KeptWasSent
  ResultIsHonest
  AnsweredIsRecorded
PROPERTIES
  CallEnds
