SPECIFICATION Spec
CONSTANTS
    Calls = {c1}
    BadCalls = {}
    Client = client
    Servers = {s1, s2}
    Attempts = 2
    MaxLosses = 1
    NoCall = NoCall
INVARIANTS DoubleCloseTakesTwoServers NilPanicsAfterReconnect
CHECK_DEADLOCK FALSE
