CONSTANTS
    Sessions = {s1, s2}
    Agents = {a1, a2}
    Provisioned = {a1, a2}
    Requests = {r1, r2}
    NoAgent = NoAgent
    NoSession = NoSession
    CapacityLimit = 1
    Operations <- HumanOperations
    MayDie = FALSE
    MaxStarted = 4
SPECIFICATION Spec
PROPERTY EscalationKeepsHuman
CHECK_DEADLOCK FALSE
