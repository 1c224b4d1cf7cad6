CONSTANTS
  r1 = r1
  r2 = r2
  s1 = s1
  Requests = {r1, r2, s1}
  Silent = {s1}
  REQUEST_TTL = 2
  CONNECTION_TTL = 2
  ADDRESS_TTL = 3
  CLOSE_TTL = 1
  MaxLag = 1
SPECIFICATION FairSpec
INVARIANTS
  TypeOK
  SendAssertsHold
PROPERTIES
  PromiseSpec
  EveryRequestEnds
CHECK_DEADLOCK FALSE
