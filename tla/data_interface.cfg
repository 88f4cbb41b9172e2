SPECIFICATION Spec
CONSTANTS
  w1 = w1
  w2 = w2
  Word <- MCWord
  PortBWhile <- Always
  Size = 3
  MaxWords = 4
  MaxLength = 2
SYMMETRY Symmetry
INVARIANTS
  TypeOK
  StreamIsStored
  OfferedWordIsStored
  PacketAddresses
  PacketFraming
PROPERTIES
  OfferIsHeld
  ImplementsPacketBuffer
