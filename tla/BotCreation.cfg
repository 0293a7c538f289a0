\* Three requests of five kinds. The api-servers rest when all have ended.
SPECIFICATION Spec
CONSTANTS
    k1 = k1
    b1 = b1
    b2 = b2
    m1 = m1
    m2 = m2
    Calls = {c1, c2, c3}
    Requests <- MCRequests
    Keys = {k1}
    Bodies = {b1, b2}
    Meetings = {m1, m2}
    NoKey = NoKey
    NoMeeting = NoMeeting
    NoBody = NoBody
    NoBot = NoBot
    NoRequest = NoRequest
    NoAnswer = NoAnswer
SYMMETRY CallSymmetry
INVARIANT HandlerRunsOncePerKey
INVARIANT ReplayIsOriginal
INVARIANT BotsAreStored
INVARIANT SameMeetingSameBot
PROPERTY ImplementsCreation
CHECK_DEADLOCK FALSE
