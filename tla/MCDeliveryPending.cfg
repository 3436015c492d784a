\* One crash between reservation and claim.
SPECIFICATION FairSpec
CONSTANTS
  d1 = d1
  d2 = d2
  t1 = t1
  t2 = t2
  a1 = a1
  a2 = a2
  None = None
  Deliveries = {d1}
  Ticks = {t1}
  Admins = {}
  MaxAutomaticAttempts = 3
  StaleAfter = 2
  LockTimeout = 2
  Latency = 1
  BackoffSteps <- ShortBackoff
  RetryAfters = {0, 4}
  Horizon = 4
  MaxFaults = 1
  MaxRequests = 0
PROPERTY PendingIsHandled
