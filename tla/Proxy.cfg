CONSTANTS
    Slots = 1
    DirectLimit = 1
    MaxUp = 2
    MaxDown = 1
    MaxLoad = 1
    Keys = {k1}
    MaxChans = 2
    Queries = {q1}
    FilterAAAA = TRUE
    Modes = {"tcp", "tproxy", "socks5", "dns"}
    None = None
    k1 = k1
    q1 = q1
SPECIFICATION MCSpec
INVARIANTS EofComplete Accounted
PROPERTIES SlotFreed QueryAnswered
CHECK_DEADLOCK FALSE
