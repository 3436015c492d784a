\* The query that stands before the try fails.
SPECIFICATION FocusSpec
CONSTANTS
  u1 = u1
  ayah = ayah
  hadith = hadith
  None = None
  Admins = {1, 2}
  Days = {1}
  Types = {ayah, hadith}
  Users = {u1}
  Calls = {1, 2}
  Choices <- SomeChoices
  AdminPatches <- SomePatches
  MaxRequests = 4
  MaxFaults = 1
INVARIANT FailureIsReported
CHECK_DEADLOCK FALSE
