SPECIFICATION FairSpec
CONSTANTS
    Rpc = {r1, r2}
    Timestamps <- MCTimestamps
    ValSets = {v1, v2}
    nil = nil
INVARIANTS
    OneSigningPerTimestamp
    SignedIsDurable
    AnswersMatchRequests
    ReleasedIsReplayable
PROPERTIES
    ImplementsLedger
    CallsReturn
    SignedIsMemoized
CHECK_DEADLOCK FALSE
