SPECIFICATION ControlFairSpec
CONSTANTS
  w1 = w1
  Word <- MCWord
  PortBWhile <- Never
  Size = 3
  MaxWords = 0
  MaxLength = 2
  MaxStarts = 2
  Written <- MCWritten
INVARIANTS
  ControlTypeOK
  DataStartIsPulse
  PacketIsVisible
  DoneIsNotBusy
PROPERTY PacketIsSent
