\* Every outcome of launch, page and join, with stops, cancels and timeouts anywhere.
SPECIFICATION SetupFairSpec
CONSTANTS
    Codes = {c1}
    Passwords = {p1, p2}
    None = None
    Given <- MCGiven
    Views <- MCViews
CHECK_DEADLOCK FALSE
INVARIANT NothingLeftOpen
INVARIANT LinkSurvivesParsing
PROPERTY StopBeatsTimeout
PROPERTY SetupEnds
PROPERTY ImplementsContract
