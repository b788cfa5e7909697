SPECIFICATION FairChannel
CONSTANTS
  MaxCommands = 4
  MaxLostPolls = 3
  WindowPolls = 2
\* a Worker that is down has nothing more to do
CHECK_DEADLOCK FALSE
INVARIANT ChannelTypeOK
INVARIANT NoCommandIsLost
PROPERTY CommandsArrive
PROPERTY IsDelivery
