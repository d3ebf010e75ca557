\* Two calls, two requests, two receipts, a clock set back and forth over four seconds.
SPECIFICATION PaymentSpec
CONSTANTS
  c1 = c1
  c2 = c2
  i1 = i1
  i2 = i2
  k1 = k1
  k2 = k2
  p1 = p1
  s1 = s1
  s2 = s2
  none = none
  missing = missing
  NoRow = none
  Missing = missing
  Call = {c1, c2}
  Id = {i1, i2}
  Intent = {i1, i2}
  Client = {p1}
  Scope = {s1, s2}
  Key = {k1, k2}
  Minute = 1
  Market <- MCMarket
  Spot = {5}
  MinRate = 3
  MaxRate = 5
  Target = 2
  Unit = 4
  MaxPiconero = 3
  Window = 1
  MaxRecent = 2
  MaxPerClient = 1
  MaxPending = 2
  MaxRetained = 2
  Reservation = 2
  Lifetime = 1
  MaxRateAge = 1
  MaxTime = 3
  Quotes <- MCQuotes
  Amounts = {1, 3}
  SeenTimes = {0, 1, 2}
  MaxUnits = 6
  MaxCredit = 3
  MaxOther = 1
CONSTRAINT PaidAlone
SYMMETRY MCSymmetry
INVARIANTS
  QuotePromise
  EvidenceDecidesCredit
  QuotesAreKept
  RateIsMarket
PROPERTIES
  HoldStopsCredit
  StaleIsRefused
