SPECIFICATION FairSpec
CONSTANTS
  Caller = {c1, c2}
  Item = {i1, i2}
  Request <- MCRequest
  Permits = 1
  MaxPanics = 1
INVARIANTS PermitsConserved EachItemOnce ReturnedCallIsComplete
PROPERTY EveryCallReturns
