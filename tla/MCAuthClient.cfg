CONSTANTS
    t1 = t1
    t2 = t2
    u1 = u1
    u2 = u2
    Tabs = {t1, t2}
    Users = {u1, u2}
    NoUser = NoUser
    MaxCalls = 2
    MaxStarts = 5
SPECIFICATION FairSpec
INVARIANTS TypeOK NobodyWaitsInVain 
PROPERTIES RequestsSettle LogoutClears
CHECK_DEADLOCK FALSE
