SPECIFICATION RenderSpec
CONSTANTS
  Characters <- MCCharacters
  Contents <- MCContents
  SectionLimit = 14
  MaxBlocks = 9
  SoftBudget = 30
  ShortMax = 1
  LongMax = 32
INVARIANTS
  NothingDropped
  BlocksFit
  SentIsComplete
  SplitAdvances
PROPERTIES
  EntitiesWhole
  WordsWhole
CHECK_DEADLOCK FALSE
