SPECIFICATION FairSpec
CONSTANTS
    Ids <- MCIds
    Clients <- MCClients
    TargetOf <- MCTargetOf
    Timeout = 1
    NoPrimary = NoPrimary
    n1 = n1
    n2 = n2
    nil = nil
    PreferOrder <- MCPreferOrder
    SignBytes <- TwoHeights
    Election = TRUE
    CrashesHappen = TRUE
    StateLossHappens = FALSE
PROPERTIES
    RequestsEnd
    ShutdownCompletes
    PreferredReturns
    StandbyTakesOver
