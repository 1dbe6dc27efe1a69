CONSTANTS
  PacketFrames = 4
  MaxFrames = 9
  MaxFaults = 2
SPECIFICATION Spec
INVARIANTS
  FramesAreWhole
  NothingLeftBehind
PROPERTIES
  CopiedBeforeOverwritten
  KeepsBackendContract
