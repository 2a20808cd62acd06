CONSTANTS
    Id = {1, 2, 3, 4, 5}
    KeysOf <- MovedKeys
    End = 7
    EnumerateThreshold = 1
    SplitBuckets = 2
    MaxRounds = 6
    MaxChanges = 2
SPECIFICATION Spec
INVARIANTS TypeOK  NeedIsComplete ExcessIsComplete ExcessIsMissing NeverCut
CHECK_DEADLOCK FALSE
