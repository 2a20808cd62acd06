CONSTANTS
    Msg = {m1}
    Sender = s
    Recipient = {r1}
    Direct = FALSE
    Busy = FALSE
    MaxNet = 2
    MaxReplays = 3
    MaxFaults = 3
SPECIFICATION Spec
INVARIANTS
    TypeOK
    AckedIsPersisted
    LostCopyIsResent
PROPERTY
    HeldIsAckedAgain
CHECK_DEADLOCK FALSE
