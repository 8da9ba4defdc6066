SPECIFICATION Spec
CONSTANTS
    Calls = {c1, c2}
    BadCalls = {c2}
    NoCall = NoCall
    MaxRpcs = 1
INVARIANTS DrainedBeforeExit ShutdownInOrder
PROPERTIES NatsImplementsRemoteCall FailureEndsWait ShutdownEnds NatsCallsReturn
CHECK_DEADLOCK FALSE
