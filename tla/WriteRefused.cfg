CONSTANTS
  ParamRange <- MCParamRange
  ParamDefaults <- MCParamDefaults
  Rows = {"ShortThreshold", "OverCurrentThreshold"}
  HostValues <- MCHostValues
  MaxWord = 1000
  Unspecified = {0, 1000}
  HostNodes = {1, 2}
  FilterNode = 1
  NoFrame = NoFrame
  MaxSends = 3
  MaxLosses = 1
SPECIFICATION SessionSpec
PROPERTIES RefusalsAnswered
