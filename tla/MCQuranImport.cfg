SPECIFICATION Spec
CONSTANTS
  Calls <- MCCalls
  ayahCounts <- MCAyahCounts
  Invalid = {}
  batch <- MCBatch
  WithTafsir = TRUE
  MaxEvents = 1
INVARIANTS
  ImportedOnce
  NothingSkipped
  RetryAccepted
PROPERTIES
  CallsEnd
  EverythingImported
