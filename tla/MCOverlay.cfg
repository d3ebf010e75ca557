\* A page, an event of each kind, sockets that break, one restore.
SPECIFICATION FairOverlaySpec
CONSTANTS
  c1 = c1
  a = a
  b = b
  big = big
  Client = {c1}
  Event = {a, b, big}
  Unfit = {big}
  ReplayMax = 2
  BatchMax = 2
  MaxSeq = 4
  MaxStream = 2
INVARIANTS
  ViewIsHistory
PROPERTIES
  NoSilentSkip
  CatchesUp
CHECK_DEADLOCK FALSE
