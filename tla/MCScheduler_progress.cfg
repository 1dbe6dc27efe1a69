CONSTANTS
  Requests = {r1, r2}
  Fast = r1
  Capacity = 1
  RingSlots = 1
  PacketFrames = 1
  MaxFrames = 1
  ChannelCap = 1
SPECIFICATION FairSpec
INVARIANTS
  SlotAccounting
  RetiredIsReleased
  ExitLeavesNothing
PROPERTIES
  CancelRetires
  ShutdownCompletes
  SendsReturn
