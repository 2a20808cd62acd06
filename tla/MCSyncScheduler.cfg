CONSTANTS
    Peer = {p1}
    Task = {t1, t2}
    None = None
    Negentropic = {p1}
    MinInterval = 1
    PeriodicInterval = 2
    PostConnectMin = 0
    MaxQueries = 2
    MaxConn = 1
    MaxLane = 1
SPECIFICATION FairSpec
INVARIANTS TypeOK InFlightIsRunning SingleFlight WaitsForHolder AnswerIsPending
PROPERTIES SyncEnds
