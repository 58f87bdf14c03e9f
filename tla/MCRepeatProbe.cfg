SPECIFICATION Spec
CONSTANTS
  MaxAttempts = 3
  Kind <- MCKind
  Timeout = 0
  Status <- MCStatus
  Ms = {1, 2}
  Expectations <- MCExpectations
  None = None
INVARIANTS CountsAreExact RowsAreCanonical
  PercentilesAreNearestRank ExpectationMeansIt
