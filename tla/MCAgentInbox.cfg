CONSTANTS
    s1 = s1
    s2 = s2
    m1 = m1
    m2 = m2
    r1 = r1
    Sessions = {s1, s2}
    Global = Global
    NoSession = NoSession
    Messages = {m1, r1}
    SessionOf <- TwoConversations
    Replies = {r1}
    MaxCalls = 2
    MaxClicks = 2
    MaxChanges = 1
    MaxErrors = 1
SPECIFICATION FairSpec
INVARIANTS TypeOK  SpinnerHonest SpinnerSerializes
PROPERTIES ForeignComesLate FeedSpec 
CHECK_DEADLOCK FALSE
