SPECIFICATION Spec
CONSTANTS
  Runs = {r1, r2}
  Stops = {s1}
  None = None
  Env = {"early"}
  MaxMsgs = 2
  MaxFaults = 0
  MaxCrashes = 0
  MaxReaps = 0
\* every run may have ended and every stop request been used
CHECK_DEADLOCK FALSE
SYMMETRY Symmetry
INVARIANT ExclusiveRun
