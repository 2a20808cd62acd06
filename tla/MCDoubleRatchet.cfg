CONSTANTS
    c1 = c1
    c2 = c2
    Alice = alice
    Bob = bob
    Caller = {c1}
    MAX_SKIP = 1
    MaxSend <- Sends
    MaxCopies = 1
    Overlap = FALSE
SPECIFICATION Spec
INVARIANTS TypeOK UniqueKeys ForwardSecrecy LateMessagesOpen
CHECK_DEADLOCK FALSE
