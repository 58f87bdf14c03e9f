SPECIFICATION Spec
CONSTANTS
  None = None
  Task = {1, 2}
  Label <- MCLabel
  CompleteWidth = 2
  Options <- MCOptions
  System = 9
  Ttl = {1, 2}
  Kind = {0, 3}
  DnsFailure = 3
  Timeout = 0
  Concurrency = 2
INVARIANTS
  RowsAreCanonical
  CountsAreExact
  StrictIsEarned
  ProgressIsHonest
