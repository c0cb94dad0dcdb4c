CONSTANTS
  ParamRange <- MCParamRange
  ParamDefaults <- MCParamDefaults
  ParamWrites <- NoWrites
  RmsValues <- Overload
  Measurements <- OnlyNormal
  HostFrames <- NoHost
  PinReadings <- SoundPins
  BootMayFail = FALSE
  TripMayLatch = FALSE
  MaxSequence = 0
  MaxPowerLoss = 1
  CAPACITY = 1
  TotalMod = 3
  U32 = 25
  U16 = 4
  FilterNode = 1
  NoBlock = NoBlock
  Blocks <- MCBlocks
  DefaultBlock <- MCParamDefaults
  NoFrame = NoFrame
  NoLog = NoLog
SPECIFICATION FirmwareSpec
PROPERTIES LogSurvivesPowerLoss
