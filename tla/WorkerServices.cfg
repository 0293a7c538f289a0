SPECIFICATION ServiceSpec
CONSTANTS
    Attempts = 3
    MaxFailures = 5
    ResetTimeout = 4
    Timeout = 2
    MaxSends = 4
    LastSecond = 20
    Pages = {p1, p2}
    NoPage = NoPage
    LastPattern = 3
    Buttoned = {2, 3}
    ByEscape = {1, 3}
    Answers = {TRUE}
    MaxLoops = 2
    MaxDialogs = 2
INVARIANT CancelledSendEnds
INVARIANT OnlyCurrentIsLive
INVARIANT OneStalePress
PROPERTY SkippedMeansFailing
PROPERTY DialogsAreTried
CHECK_DEADLOCK FALSE
