CONSTANTS
  Sessions = {s1, s2, s3, s4}
  NoSession = NoSession
SPECIFICATION FairBusSpec
INVARIANTS NoUseAfterClose OneReceiveLoop OnlyFaultedLeak
PROPERTIES ClosingEnds
CHECK_DEADLOCK FALSE
