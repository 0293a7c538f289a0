\* A controller with two slots that stops, crashes and restarts over three jobs.
SPECIFICATION FairSpec
CONSTANTS
    Jobs = {j1, j2, bad}
    Malformed = {bad}
    Controllers = {c1}
    MaxParallel = 2
    MaxClaims = 1
    NoOne = NoOne
INVARIANT NeverStartedTwice
INVARIANT AckedMeansDone
INVARIANT SlotsAreHeld
PROPERTY JobsGetRead
PROPERTY ImplementsDelivery
