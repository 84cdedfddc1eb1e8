CONSTANTS
    b1 = b1
    b2 = b2
    a1 = a1
    h1 = h1
    h2 = h2
    BotReplies = {b1}
    AgentReplies = {a1}
    Nameless = {}
    Endpoints = 2
    Formats = 1
    Posts = 1
    Handlers = {h1}
    Idle = Idle
    MaxEchoes = 1
    MaxFaults = 0
SPECIFICATION FairSpec
PROPERTY AgentReplyReaches
CHECK_DEADLOCK FALSE
