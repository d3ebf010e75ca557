\* Two workers and two receives of one request.
SPECIFICATION Spec
CONSTANTS
  q1 = q1
  q2 = q2
  r1 = r1
  r2 = r2
  r3 = r3
  w1 = w1
  w2 = w2
  Request = {q1}
  Receive = {r1, r2}
  RequestOf <- MCRequestOf
  Issued <- MCIssued
  Reports <- MCReports
  Worker = {w1, w2}
  PageSize = 1
  MaxOffset = 1
  Capacity = 1
  Patience = 1
  MaxAttempts = 1
CONSTRAINT MCOrder
SYMMETRY MCSymmetry
INVARIANTS
  CreditedOnce
  OnlyAuthoritativeCredit
  DoneMeansSettled
CHECK_DEADLOCK FALSE
