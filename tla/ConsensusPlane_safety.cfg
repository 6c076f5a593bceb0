SPECIFICATION Spec
CONSTANTS
    Ids <- MCIds
    Clients <- MCClients
    TargetOf <- MCTargetOf
    Timeout = 1
    NoPrimary = NoPrimary
    n1 = n1
    n2 = n2
    nil = nil
    PreferOrder <- MCPreferOrder
    SignBytes <- MCSignBytes
    Election = TRUE
    CrashesHappen = TRUE
    StateLossHappens = TRUE
INVARIANTS
    NoEquivocation
    ReleasedIsDurable
    PrimaryIsConnected
PROPERTIES
    SignedWithinGranted
    ClearedWhenUnusable
    ImplementsLedger
