SPECIFICATION MCSpec
CONSTANTS
    u1 = u1
    u2 = u2
    u3 = u3
    NoUser = NoUser
    Users <- MCUsers
    MaxDials = 2
    MaxResets = 1
    IdSpace = 2
INVARIANTS
    NothingLeaks
    OneReceiver
    LateByATurn
PROPERTIES
    ExchangesReturn
CHECK_DEADLOCK FALSE
