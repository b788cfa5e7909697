SPECIFICATION FairSpec
CONSTANTS
  MaxCommands = 2
  MaxEvents = 2
  QueueMax = 1
  MaxRetries = 1
  MaxMishaps = 1
\* the Worker may be down, or the run over
CHECK_DEADLOCK FALSE
INVARIANT WorkerTypeOK
INVARIANT NothingSkipped
INVARIANT LeavesAfterEnd
PROPERTY CancelEndsTheRun
PROPERTY RunnerIsReaped
