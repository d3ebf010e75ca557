\* Two daemons, four invoices, two addresses, times of a few seconds in the
\* code's order.
SPECIFICATION AddressSpec
CONSTANTS
  p1 = p1
  p2 = p2
  none = none
  NoProcess = none
  i1 = i1
  i2 = i2
  i3 = i3
  i4 = i4
  r1 = r1
  r2 = r2
  r3 = r3
  herd = herd
  nova = nova
  Process = {p1, p2}
  Id = {i1, i2, i3, i4}
  Slots = 2
  ActiveLimit = 2
  RecentLimit = 3
  DayLimit = 2
  Window = 2
  Day = 2
  Lease = 2
  Deadline = 1
  MaxTime = 2
  Places = 2
  Skew = 1
  Omitted = omitted
  User = {herd, nova}
  Stranger = stranger
  MinSendable = 2
  MaxSendable = 3
  MsatPerSat = 2
  Expiry = 3
  Asks = {1, 2, 3, 4}
  RequestId = {r1, r2, r3}
SYMMETRY MCSymmetry
INVARIANTS
  InvoiceIsAsAsked
  ActiveBound
  RateBound
  DayBound
CHECK_DEADLOCK FALSE
