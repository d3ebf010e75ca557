\* The ledger alone, its callers in any order, and what it implements.
SPECIFICATION Spec
CONSTANTS
  Attempt = {a1, a2}
  NoAttempt = none
  ThresholdSats = {2, 3}
  PaymentSats = {1, 3}
  RetrySeconds = {1, 2}
  MaxSats = 5
  MaxClock = 3
SYMMETRY AttemptSymmetry
INVARIANTS
  UnresolvedIsPayable
  DebitedExactlyConfirmed
  CooldownCoversRefusals
  PublishedCreditIsCurrent
PROPERTIES
  ImplementsFeedRuntime
