CONSTANTS
  VoltageGain = 412
  PgaGain = 224
  PgaOffset <- MCPgaOffset
  RawGain = 1343
  CurrentCounts <- MCCurrentCounts
  OtherCounts <- MCOtherCounts
  Window = 4
  Samples <- MCSamples
  TopBit = 1048576
SPECIFICATION PathSpec
INVARIANTS SumMatchesWindow RmsIsRootOfMean ChannelsExact RmsTracksCurrent
