\* One person, two overlapping commands or requests, two overlapping stream
\* calls, one failure, restart or deactivation.
SPECIFICATION FocusSpec
CONSTANTS
  u1 = u1
  ayah = ayah
  hadith = hadith
  None = None
  Admins = {1, 2}
  Days = {1}
  Types = {ayah, hadith}
  Users = {u1}
  Calls = {1, 2}
  Choices <- SomeChoices
  AdminPatches <- SomePatches
  MaxRequests = 4
  MaxFaults = 1
INVARIANTS
  ConfirmedStays
  FailureHasCause
  StreamIsConsistent
PROPERTIES
  RepeatWritesNothing
  OnlyTheWillingAreDue
CHECK_DEADLOCK FALSE
