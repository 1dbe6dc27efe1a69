CONSTANTS
  Warmups = 2
  Measured = 5
  Concurrency = 3
SPECIFICATION Spec
INVARIANTS
  BatchesAreSound
PROPERTIES
  MeasurementIsClean
  BarrierHoldsNobody
