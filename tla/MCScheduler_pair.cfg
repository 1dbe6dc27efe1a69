CONSTANTS
  Requests = {r1, r2}
  Fast = r1
  Capacity = 2
  RingSlots = 1
  PacketFrames = 1
  MaxFrames = 2
  ChannelCap = 1
SPECIFICATION FastClientSpec
INVARIANTS
  TypeOK
  SingleOwner
PROPERTIES
  SessionsCancelledBeforeDrop
  SlowPeerDoesNotBlock
CHECK_DEADLOCK FALSE
