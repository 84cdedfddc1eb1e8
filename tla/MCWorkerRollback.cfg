CONSTANTS
    m1 = m1
    m2 = m2
    m3 = m3
    c1 = c1
    c2 = c2
    Messages = {m1, m2, m3}
    Customers = {c1, c2}
    Sender <- TwoSenders
    Workers = {w1, w2}
    NoMessage = NoMessage
    Tries = 3
    MaxErrors = 0
    MaxExits = 1
SPECIFICATION Spec
INVARIANT NoSilentRollback
CHECK_DEADLOCK FALSE
