\* Two handlers, three UUIDs, both rate limits within reach.
SPECIFICATION Spec
CONSTANTS
  Attempt = {a1, a2, a3}
  Handler = {h1, h2}
  MinInterval = 1
  MaxPerHour = 2
  Window = 2
  RefusalDelay = 1
  MaxDelay = 9
  MaxTime = 4
SYMMETRY GatewaySymmetry
INVARIANTS
  AtMostOneDispatch
  OneFeedAtATime
  RepliesAreTrue
  RateLimitsHold
