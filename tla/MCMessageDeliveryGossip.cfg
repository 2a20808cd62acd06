CONSTANTS
    Msg = {m1}
    Sender = s
    Recipient = {r1, r2}
    Direct = FALSE
    Busy = TRUE
    MaxNet = 1
    MaxReplays = 1
    MaxFaults = 1
SPECIFICATION Spec
SYMMETRY Symmetry
INVARIANTS
    StoredOnce
    StatusJustified
CHECK_DEADLOCK FALSE
