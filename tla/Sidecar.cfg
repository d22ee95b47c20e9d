SPECIFICATION SSpec
CONSTANTS
    MaxTunnels = 2
    MaxCalls = 2
    MaxFails = 2
    MaxDowns = 1
    Paths = {"child", "helper"}
INVARIANTS StaysDown StatusHonest OrphansFound
CHECK_DEADLOCK FALSE
