CONSTANTS
  ParamRange <- MCParamRange
  ParamDefaults <- MCParamDefaults
  ParamWrites <- NoWrites
  RmsValues <- AnyCurrent
  Measurements <- OnlyNormal
  HostFrames <- BusyHost
  PinReadings <- SoundPins
  BootMayFail = FALSE
  TripMayLatch = TRUE
  MaxSequence = 2
  MaxPowerLoss = 0
  CAPACITY = 1
  TotalMod = 3
  U32 = 25
  U16 = 4
  FilterNode = 1
  NoBlock = NoBlock
  Blocks <- MCBlocks
  DefaultBlock <- MCParamDefaults
  NoFrame = NoFrame
  NoLog = NoLog
SPECIFICATION FairFirmwareSpec
 
PROPERTIES OverloadRetries RecordsReachFram
