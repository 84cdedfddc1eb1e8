CONSTANTS
    Sessions = {s1}
    Agents = {a1, a2}
    Provisioned = {a1, a2}
    Requests = {r1, r2}
    NoAgent = NoAgent
    NoSession = NoSession
    CapacityLimit = 2
    Operations <- AllOperations
    MayDie = TRUE
    MaxStarted = 4
SPECIFICATION Spec
SYMMETRY Symmetry
INVARIANTS TypeOK OvershootBounded 
PROPERTIES ImplementsLedger
CHECK_DEADLOCK FALSE
