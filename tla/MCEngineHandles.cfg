CONSTANTS
  Requests = {r1, r2}
  Capacity = 1
  MaxFrames = 1
  MaxPacket = 2
  Builds <- MCBuilds
SPECIFICATION Spec
INVARIANTS
  CoreOutlivesHandles
  DestroyLeavesNothing
PROPERTIES
  DestroyReturns
