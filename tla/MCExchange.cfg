SPECIFICATION Spec
CONSTANTS
  Cases <- MCCases
  Prompts <- MCPrompts
  Damages <- MCDamages
  WarmupPrompt = 21
  MaxPackets = 2
  PerFrame = 1
  ReadSize = 8
  MaxShort = 1
  MaxFraming = 12
  MaxPayload = 6
INVARIANTS
  OnlyIntactSucceeds
  EndToEnd
  FirstAudioStamp
  LayersAgree
