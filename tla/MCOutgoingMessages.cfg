CONSTANTS
    b1 = b1
    b2 = b2
    a1 = a1
    h1 = h1
    h2 = h2
    BotReplies = {b1, b2}
    AgentReplies = {a1}
    Nameless = {b2}
    Endpoints = 2
    Formats = 2
    Posts = 2
    Handlers = {h1, h2}
    Idle = Idle
    MaxEchoes = 2
    MaxFaults = 1
SPECIFICATION FairSpec
INVARIANTS TypeOK RepeatsExplained StoredOnce EchoLossExplained
PROPERTY SendEnds
CHECK_DEADLOCK FALSE
