SPECIFICATION Spec
CONSTANTS
    Roles = {"off", "primary", "standby"}
    MaxExtensionSize = 1
INVARIANT AlwaysAnswers
CHECK_DEADLOCK FALSE
