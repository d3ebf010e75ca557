\* Two receives, an inbox of one row, pages of one receive.
SPECIFICATION FairSpec
CONSTANTS
  q1 = q1
  q2 = q2
  r1 = r1
  r2 = r2
  r3 = r3
  w1 = w1
  w2 = w2
  Request = {q1}
  Receive = {r1, r2}
  RequestOf <- MCRequestOf
  Issued <- MCIssued
  Reports <- MCPays
  Worker = {w1}
  PageSize = 1
  MaxOffset = 1
  Capacity = 1
  Patience = 0
  MaxAttempts = 1
PROPERTIES
  PaymentsAreCredited
CHECK_DEADLOCK FALSE
