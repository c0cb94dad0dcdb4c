CONSTANTS
  Blocks = {d, p, q}
  DefaultBlock = d
  NoBlock = NoBlock
  MaxSequence = 6
SPECIFICATION PersistenceSpec
INVARIANTS SurvivorExists IdleMeansDurable
PROPERTIES AtMostOneSaveBack
