CONSTANTS
    Msg = {m1, m2}
    Sender = s
    Recipient = {r1}
    Direct = TRUE
    Busy = TRUE
    MaxNet = 2
    MaxReplays = 2
    MaxFaults = 1
SPECIFICATION Spec
SYMMETRY Symmetry
INVARIANT
    LostCopyIsResent
CHECK_DEADLOCK FALSE
