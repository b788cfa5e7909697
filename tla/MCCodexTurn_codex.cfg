SPECIFICATION FairSpec
CONSTANTS
    Items = {a, b}
    Asking = {a, b}
    NoItem = NoItem
    MaxAnswers = 2
    MaxUnread = 2
    MaxMishaps = 1
INVARIANTS
    TypeOK
    AnsweredOnce
    ShownIsPending
    OutcomeIsHeard
PROPERTIES
    Settles
\* When the turn is over and its app-server is gone the adapter rests.
CHECK_DEADLOCK FALSE
