CONSTANTS
  CAPACITY = 2
  TotalMod = 3
  Records <- MCRecords
  Word = 3
  Second = 2
  Horizon = 3
  NoFrame = NoFrame
  ReadIndices = {0, 1}
  MaxFaults = 3
  MaxClears = 1
SPECIFICATION ReportingSpec
INVARIANTS ReadersAgree SyncedTimeExact MissesOnlyAfterClear HostLearnsNewest ListedTimeExact
PROPERTIES KeepsHistory ReportsAreNews ReadsGoForward
