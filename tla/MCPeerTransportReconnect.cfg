SPECIFICATION FairSpec
CONSTANTS
    Low = low
    High = high
    Slot = {1, 2, 3}
    MaxRetries = 1
    None = None
    MaxTrouble = 1

PROPERTIES Reconnects
