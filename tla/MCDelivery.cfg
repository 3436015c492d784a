\* One delivery, two overlapping ticks, two admin requests, one fault.
SPECIFICATION Spec
CONSTANTS
  d1 = d1
  d2 = d2
  t1 = t1
  t2 = t2
  a1 = a1
  a2 = a2
  None = None
  Deliveries = {d1}
  Ticks = {t1, t2}
  Admins = {a1}
  MaxAutomaticAttempts = 2
  StaleAfter = 2
  LockTimeout = 2
  Latency = 1
  BackoffSteps <- ShortBackoff
  RetryAfters = {0}
  Horizon = 5
  MaxFaults = 1
  MaxRequests = 2
SYMMETRY CallerSymmetry
INVARIANTS
  OneAttemptInFlight
  SentWasPosted
  WaitingRowCanBeRetried
PROPERTIES
  ImplementsAttempts
  AutomaticRetryAllowed
