\* One team, two concurrent calls, two rows, two tokens, one fault.
SPECIFICATION FairSpec
CONSTANTS
  t1 = t1
  t2 = t2
  c1 = c1
  c2 = c2
  c3 = c3
  Teams = {t1}
  Calls = {c1, c2}
  Grace = 1
  MaxIds = 2
  MaxTokens = 2
  MaxEvents = 1
  MaxFaults = 1
INVARIANTS
  InstalledHasStream
  ClientIsCurrent
PROPERTIES
  NeverInstalledNeverPurged
  UninstalledIsPurged
