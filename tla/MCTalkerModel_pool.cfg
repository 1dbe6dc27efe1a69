CONSTANTS
  r1 = r1
  Requests = {r1, r2}
  Need <- OneSmall
  Handles = {h1, h2, h3}
  MaxPooled = 1
  MaxBatch = 2
  MaxFrames = 2
  MaxFaults = 1
SPECIFICATION Spec
INVARIANTS
  SessionsAccounted
  StartsFresh
PROPERTIES
  PumpServesAndEnds
