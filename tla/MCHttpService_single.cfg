CONSTANTS
  Stream = s1
  Other = w2
  Id = u1
  OtherId = u2
  Requests = {s1, w1}
  Ids = {u1}
  IdOf <- MCIdOf
  Buffered = {w1}
  Capacity = 1
  MaxFrames = 2
SPECIFICATION SingleSpec
INVARIANTS
  EndPartIsTrue
PROPERTIES
  CancelledJobEnds
  ShutdownDrains
  CancelledSlotReturns
