CONSTANTS
  ParamRange <- MCParamRange
  ParamDefaults <- MCParamDefaults
  ParamWrites <- NoWrites
  RmsValues <- NoCurrent
  Measurements <- NormalOrHigh
  HostFrames <- MixedHost
  PinReadings <- OnePinLow
  BootMayFail = TRUE
  TripMayLatch = FALSE
  MaxSequence = 2
  MaxPowerLoss = 1
  CAPACITY = 1
  TotalMod = 3
  U32 = 25
  U16 = 4
  FilterNode = 1
  NoBlock = NoBlock
  Blocks <- MCBlocks
  DefaultBlock <- MCParamDefaults
  NoFrame = NoFrame
  NoLog = NoLog
SPECIFICATION FirmwareSpec
INVARIANTS FirmwareTypeOK OutputOnlyEnergised LockedStaysOff LogDurable ParamsDurable ComparatorFollowsThreshold
CHECK_DEADLOCK FALSE
