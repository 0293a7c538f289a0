SPECIFICATION ApiSpec
CONSTANTS
    Calls = {c1, c2, c3}
    ApiKeys = {k1}
    NoToken = NoToken
    AskedRates = {0, 2}
    DefaultRate = 2
    Window = 1
    CounterTTL = 2
    CacheTTL = 2
    DrainTime = 2
    MaxGate = 1
    MaxTime = 3
    Bots = {b1, b2}
    V1Bots = {b1}
    StopClients = {b1}
    MaxCommands = 2
SYMMETRY CallSymmetry
INVARIANT WindowAllowance
INVARIANT CountersGoAway
INVARIANT NoCallLosesItsStores
INVARIANT PausedAsTold
PROPERTY RevokedIsRefused
CHECK_DEADLOCK FALSE
