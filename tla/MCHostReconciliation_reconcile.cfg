SPECIFICATION FairSpec
CONSTANTS
  r1 = r1
  r2 = r2
  s1 = s1
  s2 = s2
  Runs = {r1}
  Spaces = {s1}
  SpaceOf <- Space
  NoRun = NoRun
  NoSpace = NoSpace
  MaxVersion = 3
  MaxConns = 2
  MaxMishaps = 1
\* the Host has no further connection and nothing is left to change
CHECK_DEADLOCK FALSE
INVARIANT TypeOK
INVARIANT ReadyMeansReconciled
INVARIANT NoZombie
PROPERTY LaterGenerationIsKept
PROPERTY Reconciles
