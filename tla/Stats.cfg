CONSTANTS
    MaxConnLog = 2
    FileRecords = 1
    Backups = 1
    Limit = 1
    TrimAt = 2
    MaxConns = 3
    StreamConns = 1
    RequestConns = 2
    Dests = {d1, d2, d3}
    MaxDests = 2
    EventCap = 1
    QueueCap = 2
    Http = {web}
    InProcess = {tui}
    d1 = d1
    d2 = d2
    d3 = d3
    Requests = Requests
    Nobody = Nobody
SPECIFICATION MCSpec
INVARIANTS ViewExact AnswerExact
PROPERTIES EndedForgotten
CHECK_DEADLOCK FALSE
