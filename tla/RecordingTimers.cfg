\* Two participants, every limit on, every pause, an observer that works or does not.
SPECIFICATION FairSpec
CONSTANTS
    People = {p1, p2}
    SilenceTimeout = 3
    NooneJoinedTimeout = 2
    GracePeriod = 1
    DefaultAlone = 1
    MaxDuration = 5
    MaxAwait = 1
INVARIANT SilenceIsHeard
INVARIANT SilenceEndsStretch
INVARIANT OnlyUnseenIsAlone
PROPERTY SessionEnds
