CONSTANTS
  Requests = {r1}
  Fast = r1
  Capacity = 1
  RingSlots = 2
  PacketFrames = 2
  MaxFrames = 4
  ChannelCap = 3
SPECIFICATION FairSpec
INVARIANTS
  BufferConservation
  NoInternalFailure
  StreamIsTrue
PROPERTIES
  KeepsContract
