SPECIFICATION Spec
CONSTANTS
  Runs = {r1}
  Stops = {s1}
  None = None
  Env = {"ask", "timeout", "notify"}
  MaxMsgs = 3
  MaxFaults = 1
  MaxCrashes = 0
  MaxReaps = 1
\* every run may have ended and every stop request been used
CHECK_DEADLOCK FALSE
INVARIANT TypeOK
INVARIANT SingleFinalizer
INVARIANT CompletedIsDurable
INVARIANT LostOnlyToTimer
PROPERTY RowIsMonotone
