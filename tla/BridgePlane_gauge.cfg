SPECIFICATION Spec
CONSTANTS
    Ids = {n1, n2}
    n1 = n1
    n2 = n2
    ip1 = ip1
    ip2 = ip2
    name1 = name1
    Host = {ip1, ip2, name1}
    NoPrimary = NoPrimary
    nil = nil
    PreferOrder <- PreferFirst
    Timeout = 1
    Target <- AddressTargets
    PeerHost <- MCPeerHost
    Call = {c1}
    Election = TRUE
    Methods = {"SignOracleAttestation", "SignRaw"}
    Disabled = {"SignRaw"}
    RequestTimeout = 1
PROPERTY GaugeNamesPrimary
CHECK_DEADLOCK FALSE
