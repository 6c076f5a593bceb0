SPECIFICATION PartsSpec
CONSTANTS
    Addresses <- MCAddresses
    Powers <- MCPowers
    MaxSet = 3
    Width = 4
    Self = 1
    Chains = {"tellor-1", "layertest-5"}
    Mainnet = "tellor-1"
    Timestamps <- MCTimestamps
    Bytes <- MCBytes
    WordLen = 2
    Values = {v1, v2}
    MsgTypes = {report, withdraw}
    AllowedMsgTypes = {report}
    Operators = {valoper, account, other}
    OwnOperators = {valoper, account}
    Malformed = Malformed
    Roles = {"off", "primary", "standby"}
    MaxExtensionSize = 1
    N = 7
    NoKey = NoKey
    Target = {"a", "b"}
    MaxTargets = 3
    MaxRPCs = 2
    Unused = Unused
INVARIANTS
    AgreesWithNode
    ThresholdTwoThirds
    SnapshotAgrees
    ScopedSigning
    RepliesMatchRequests
    SignedIsUsable
    UngatedAlwaysAnswers
    RecoversAnnouncedKey
    ConversionIsTotal
    
    ServesAsConfigured
CHECK_DEADLOCK FALSE
