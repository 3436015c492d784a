SPECIFICATION Spec
CONSTANTS
  h1 = h1
  h2 = h2
  weak = weak
  Calls <- MCCalls
  Hadiths <- MCHadiths
  Untranslated = {}
  Blank = {}
  Weak = {weak}
  Invalid = {}
  Catalogues <- MCCatalogues
  Batches = {2}
  MaxEvents = 1
INVARIANTS
  ImportedOnce
  NothingSkipped
PROPERTIES
  CallsEnd
  EverythingReached
