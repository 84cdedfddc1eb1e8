CONSTANTS
    c1 = c1
    Messages = {m1, m2}
    Customers = {c1}
    Sender <- OneSender
    Unsupported = {m2}
    Workers = {w1, w2}
    Idle = Idle
    ListenerCopies = 2
    Tries = 1
    MaxDeliveries = 1
    MaxInterrupts = 1
    MaxExpiries = 1
SPECIFICATION Spec
SYMMETRY Symmetry
INVARIANTS TypeOK  SessionsBounded
PROPERTY ImplementsInbox
CHECK_DEADLOCK FALSE
