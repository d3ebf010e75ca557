\* Three requests and two executions; two restarts or reloads.
SPECIFICATION Spec
CONSTANTS
  r1 = r1
  r2 = r2
  r3 = r3
  i1 = i1
  i2 = i2
  Request = {r1, r2, r3}
  Run = {i1, i2}
  MaxEntries = 2
  Cooldown = 2
  Window = 1
  MaxTime = 4
  MaxRestarts = 2
SYMMETRY OwnerSymmetry
INVARIANTS
  PulsesAreAccountedFor
  CompletionIsTrue
  StartsAreSpaced
CHECK_DEADLOCK FALSE
