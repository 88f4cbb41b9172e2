SPECIFICATION BspSpec
CONSTANTS
  w1 = w1
  Word <- MCWord
  PortBWhile <- Never
  Size = 2
  MaxWords = 0
  MaxLength = 0
  Written <- Never
  MaxStarts = 3
  OpSelect <- AllOps
  Hold = 2
  MayTimeOut = TRUE
INVARIANT OneOperationPerStart
