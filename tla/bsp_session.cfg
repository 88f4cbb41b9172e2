SPECIFICATION ConfigFairSpec
CONSTANTS
  w1 = w1
  Word <- MCWord
  PortBWhile <- Never
  Size = 2
  MaxWords = 0
  MaxLength = 0
  Written <- Never
  MaxStarts = 3
  OpSelect <- SomeOps
  Hold = 2
  MayTimeOut = TRUE
  ConvConfigs <- MCConvConfigs
  PoolConfigs <- MCPoolConfigs
  ActivationConfigs <- MCActivationConfigs
  BatchSizes <- MCBatchSizes
  MAX_KERNEL_SIZE = 3
  MAX_CHANNELS = 16
  MAX_POOL_SIZE = 3
  MAX_TENSOR_SIZE = 3
  MAX_BATCH_SIZE = 4
INVARIANTS
  BspTypeOK
  WaitDoneIsCurrent
  ConfigTypeOK
  
PROPERTY WaitDoneReturns
