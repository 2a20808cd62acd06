CONSTANTS
    Op = {m1}
    Flusher = {f1, f2}
    Receiver = {r1}
    None = None
    MaxRetries = 2
    MaxRows = 2
    MaxTrouble = 2
SPECIFICATION FairSpec
INVARIANTS TypeOK OneFlushPerConnection
PROPERTIES Implements RefusedIsRetried
CHECK_DEADLOCK FALSE
