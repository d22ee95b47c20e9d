CONSTANTS
    Dialers = {dialer1, dialer2}
    MaxKeys = 2
    MaxClients = 4
    MaxDials = 3
    MaxFaults = 1
    None = None
    Callers = {dialer1}
    Blocks <- MCBlocks
    Installed = {"new"}
    Overlap = FALSE
    MaxCalls = 3
    MaxDrops = 2
    Members = {"m1", "m2"}
    First = "m1"
    Routes = {"direct", "jump", "command"}
    Jumps = 2
    HopAddrs = {"h"}
    MaxHopDials = 6
    Ifaces = {"en0", "awdl0"}
    States <- MCStates
    LinkLocals = {"fe80"}
    MaxPolls = 4
    StableCount = 2
    SocketRoom = 2
    MaxChanges = 4
    Graceless = TRUE
    Programs = {"tui"}
    FileBlocks = 2
    ChanRoom = 1
    MaxRunsEach = 2
    MaxTraceHops = 2
    MaxFaultsAll = 2
    MaxDeaths = 1
SPECIFICATION MCSpec
INVARIANTS CarrierExempt FlapIgnored ToolGenuine
PROPERTIES ClientShared ReturnedComplete SwitchReported
CHECK_DEADLOCK FALSE
