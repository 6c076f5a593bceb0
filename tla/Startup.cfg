SPECIFICATION MCSpec
CONSTANTS
    Writer = {w1, w2, w3}
    None = None
    Torn = Torn
    Command = {i1, i2}
    Run = {d1, d2, d3}
    Clients = {c1, c2}
    Calls = {r1, r2}
    MaxSignals = 3
INVARIANTS
    TempsAreRemoved
    OneIdentity
    ExitInterruptsNothing
    FailureIsReported
PROPERTIES
    ImplementsWriteOnce
    SettledStateIsKept
    
CHECK_DEADLOCK FALSE
