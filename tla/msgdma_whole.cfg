SPECIFICATION FairSpec
CONSTANTS
  f1 = f1
  f2 = f2
  Files <- MCFiles
  WordBytes = 2
  Span = 8
  BufSize = 16
  OutputSize = 5
  FifoWords = 1
  Lengths = {3, 10}
  MayUnbind = FALSE
  MaxCalls = 2
  MaxStreamed = 3
INVARIANT TransferIsWhole
