CONSTANTS
    s1 = s1
    s2 = s2
    Sessions = {s1, s2}
    Global = Global
    maxReconnectAttempts = 2
    MaxFaults = 4
    MaxMounts = 1
SPECIFICATION FairSpec
INVARIANTS TypeOK CounterInStep OneLeakPerSocket ServesOne
PROPERTIES ImplementsFeed ConnectingEnds
CHECK_DEADLOCK FALSE
