CONSTANTS
    c1 = c1
    Messages = {m1}
    Customers = {c1}
    Sender <- OneSender
    Unsupported = {}
    Workers = {w1}
    Idle = Idle
    ListenerCopies = 2
    Tries = 3
    MaxDeliveries = 1
    MaxInterrupts = 1
    MaxExpiries = 0
SPECIFICATION Spec
INVARIANT RetryDispatches
CHECK_DEADLOCK FALSE
