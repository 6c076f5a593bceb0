SPECIFICATION Spec
CONSTANTS
    Rpc = {r1}
    Timestamps <- MCTimestamps
    ValSets = {v1}
    nil = nil
PROPERTY UnsavedMemoIsRejected
CHECK_DEADLOCK FALSE
