SPECIFICATION FairSpec
CONSTANTS
  r1 = r1
  r2 = r2
  w1 = w1
  w2 = w2
  Runs = {r1, r2}
  Spaces = {w1, w2}
  Calls = {c1}
  SpaceOf <- Space
  VersionOf <- Version
  UserScope <- Shared
  NoRun = NoRun
  NoSpace = NoSpace
  MaxVersion = 1
  MaxMishaps = 1
\* every run has ended and the Host has been told to release everything
CHECK_DEADLOCK FALSE
INVARIANT TypeOK
INVARIANT InstanceIsAccounted
INVARIANT ReadyIsBound
INVARIANT EndsOnce
INVARIANT CancelledNeverStarts
INVARIANT OneWorkerPerKey
INVARIANT ReleasedStaysEmpty
PROPERTY SubmissionSettles
PROPERTY ReleaseAnswers
