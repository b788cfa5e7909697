SPECIFICATION FairSpec
CONSTANTS
  Runs = {r1, r2}
  MaxBuffered = 1
  MaxSends = 2
  MaxConns = 3
  MaxMishaps = 1
\* everything may have been sent and acknowledged
CHECK_DEADLOCK FALSE
INVARIANT TypeOK
PROPERTY IsReliableFeed
PROPERTY BufferDrains
