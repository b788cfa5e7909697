SPECIFICATION Spec
CONSTANTS
  Runs = {r1, r2}
  Stops = {}
  None = None
  Env = {"steer", "builtin", "expire"}
  MaxMsgs = 2
  MaxFaults = 1
  MaxCrashes = 1
  MaxReaps = 0
\* every run may have ended and every stop request been used
CHECK_DEADLOCK FALSE
SYMMETRY Symmetry
INVARIANT OwnerIsGoingOn
INVARIANT ExclusiveRun
