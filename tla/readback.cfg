SPECIFICATION ReadbackFairSpec
CONSTANTS
  w1 = w1
  Word <- MCWord
  PortBWhile <- Never
  Size = 5
  MaxWords = 6
  MaxLength = 3
  Written <- Never
  MaxStarts = 9
  RamWords = 4
  ChunkWords = 3
  ImageChunks = 2
  M2sDepth = 1
  S2mDepth = 1
  Hold = 2
  MayBeKilled = TRUE
INVARIANTS
  ReadbackTypeOK
  ReadbackIsOfResults
  ImageIsLoaded
  ChunkIsComplete
  TransferHasItsBuffer
PROPERTY ProgramEnds
