SPECIFICATION FairSpec
CONSTANTS
  Height = 3
  Width = 2
  OutputBase = 24
  Size = 50
  LutSize = 3
  Configs <- MCConfigs
INVARIANTS
  UnitsTypeOK
  PooledWindowsAreWhole
  OutsideResultIsKept
  TablesAreFilled
PROPERTY OperationEnds
