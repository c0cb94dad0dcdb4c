CONSTANTS
  ParamRange <- MCParamRange
  ParamDefaults <- MCParamDefaults
  ParamWrites <- MCParamWrites
  RmsValues <- MCRmsValues
  Measurements <- MCMeasurements
  U32 = 25
  U16 = 4
  CAPACITY = 1
  TotalMod = 2
SPECIFICATION SystemSpec
INVARIANTS SystemTypeOK StatusTellsState
PROPERTIES LockoutNeedsReset EnergiseOnlyWhenSafe TripsAreRecorded
