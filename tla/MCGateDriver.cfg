CONSTANTS
  TimeoutLoops = 2
  ResetValue <- MCResetValue
  WrongBytes <- MCWrongBytes
  MaxUpsets = 2
  MaxBoots = 2
SPECIFICATION FairGateSpec
INVARIANTS SealedMeansConfigured PassedWritesArrived
PROPERTIES BootEnds
CHECK_DEADLOCK FALSE
