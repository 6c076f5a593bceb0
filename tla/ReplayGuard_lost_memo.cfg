SPECIFICATION FairSpec
CONSTANTS
    Rpc = {r1}
    Timestamps <- MCTimestamps
    ValSets = {v1}
    nil = nil
PROPERTY SignedBecomesReplayable
CHECK_DEADLOCK FALSE
