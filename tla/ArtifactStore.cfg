CONSTANTS
  Packers = {1, 2}
  Lost = 4
  Kept = 3
  Snapshots = {2, 5, 6, 8}
  MaxFaults = 2
  Absent = Absent
SPECIFICATION Spec
INVARIANTS
  AcceptedIsGenuine
PROPERTIES
  PublishedForGood
CHECK_DEADLOCK FALSE
