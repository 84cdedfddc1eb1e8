CONSTANTS
    c1 = c1
    Messages = {m1}
    Customers = {c1}
    Sender <- OneSender
    Unsupported = {}
    Workers = {w1, w2}
    Idle = Idle
    ListenerCopies = 2
    Tries = 2
    MaxDeliveries = 2
    MaxInterrupts = 2
    MaxExpiries = 0
SPECIFICATION FairSpec
INVARIANTS RepliesBounded RetriesHonoured
PROPERTIES Settles
CHECK_DEADLOCK FALSE
