SPECIFICATION Spec
CONSTANTS
    Calls = {c1, c2}
    BadCalls = {c2}
    Client = client
    Servers = {s1}
    Attempts = 2
    MaxLosses = 1
    NoCall = NoCall
INVARIANTS TypeOK RegisteredWhileWaiting
PROPERTIES ImplementsRemoteCall CallsReturn ShutdownReturns
CHECK_DEADLOCK FALSE
