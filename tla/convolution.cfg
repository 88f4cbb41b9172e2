SPECIFICATION FairSpec
CONSTANTS
  Height = 3
  Width = 2
  WeightBase = 24
  BiasBase = 40
  OutputBase = 42
  Size = 90
  Configs <- MCConfigs
INVARIANTS
  TypeOK
  OperandsAreAddressed
  ResultIsConvolution
  OperandsAreKept
PROPERTY OperationEnds
