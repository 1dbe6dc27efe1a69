CONSTANTS
  Stream = s1
  Other = w2
  Id = u1
  OtherId = u2
  Requests = {s1, w1, w2}
  Ids = {u1, u2}
  IdOf <- MCIdOf
  Buffered = {w1, w2}
  Capacity = 2
  MaxFrames = 1
SPECIFICATION PairSpec
INVARIANTS
  ServiceAccounts
  NativeRequestsOwned
PROPERTIES
  NoStartAfterShutdown
