SPECIFICATION CommandsSpec
CONSTANTS
    Bots = {b1}
    V1Bots = {}
    StopClients = {}
    MaxCommands = 2
INVARIANT LeaveIsHeard
CHECK_DEADLOCK FALSE
