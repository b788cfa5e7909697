SPECIFICATION FairSpec
CONSTANTS
  Runs = {r1}
  Stops = {s1}
  None = None
  Env = {"builtin", "ask", "timeout", "notify"}
  MaxMsgs = 3
  MaxFaults = 0
  MaxCrashes = 1
  MaxReaps = 0
\* every run may have ended and every stop request been used
CHECK_DEADLOCK FALSE
INVARIANT FinalMessageStands
PROPERTY RunIsReleased
