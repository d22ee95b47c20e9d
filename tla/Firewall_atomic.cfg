CONSTANTS
    Addr <- MCAddr
    Fam <- MCFam
    Local = {"l4"}
    LinkLocal = {"k6"}
    Ports = {53, 67, 80, 443, 547, 1080}
    ProxyPort = 1080
    Methods = {"nft"}
    Configs <- MCConfigs
    DefaultMark = TRUE
    MaxStarts = 1
    MaxFaults = 0
    MaxCrashes = 0
    SilentFaults = FALSE
    Gone = Gone
    Conns = {c1, c2}
    c1 = c1
    c2 = c2
    SrcPorts = {1}
    Targets <- MCTargets
    WSubnets <- MCSubnets
    WExcludes = {"x4"}
    WBlockIPv6 = FALSE
    WDNS = TRUE
    ProxyIPv6 = TRUE
    Ttl = 1
    MaxTicks = 2
    MaxOpens = 0
    Ifaces = {"all", "default", "eth0"}
    Originals <- MCOriginals
    MaxRuns = 0
    MaxLockCrashes = 2
    MaxWriteErrors = 0
    NoFile = NoFile
SPECIFICATION MCSpec
INVARIANTS DisableDNSAtomic
CHECK_DEADLOCK FALSE
