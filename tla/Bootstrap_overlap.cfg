SPECIFICATION BootSpec
CONSTANTS
    Command = {i1, i2}
    Run = {d1}
    None = None
    Torn = Torn
PROPERTY NeverOverwritesSigned
CHECK_DEADLOCK FALSE
