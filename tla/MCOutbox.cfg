\* Two daemons on one database, two keys, a rehearsal, two events that say the same.
SPECIFICATION FairSpec
CONSTANTS
  d1 = d1
  d2 = d2
  k1 = k1
  k2 = k2
  Daemon = {d1, d2}
  Key = {k1, k2}
  Other = other
  Threshold = 3
  Digest <- MCDigest
  EventOf <- MCEventOf
  Second = {0, 1}
  Modes <- MCModes
INVARIANTS
  OneMessagePerEvent
  PostedInOrder
  NothingLost
PROPERTIES
  EveryEventIsPosted
CHECK_DEADLOCK FALSE
