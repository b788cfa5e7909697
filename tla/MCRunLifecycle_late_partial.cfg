SPECIFICATION Spec
CONSTANTS
  Runs = {r1}
  Stops = {}
  None = None
  Env = {"ask", "timeout"}
  MaxMsgs = 4
  MaxFaults = 0
  MaxCrashes = 0
  MaxReaps = 0
\* every run may have ended and every stop request been used
CHECK_DEADLOCK FALSE
INVARIANT FinalMessageKept
