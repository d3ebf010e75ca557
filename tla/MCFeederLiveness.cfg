SPECIFICATION FairSpec
CONSTANTS
  a1 = a1
  a2 = a2
  h1 = h1
  h2 = h2
  d1 = d1
  d2 = d2
  Attempt = {a1}
  NoAttempt = NoAttempt
  ThresholdSats = {1}
  PaymentSats = {1}
  MaxSats = 1
  Handler = {h1, h2}
  MinInterval = 1
  MaxPerHour = 2
  Window = 1
  RefusalDelay = 1
  MaxDelay = 1
  MaxTime = 0
  Daemon = {d1}
PROPERTIES
  KnownOutcomeIsRecorded
CHECK_DEADLOCK FALSE
