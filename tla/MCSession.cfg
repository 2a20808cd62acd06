\* Two peers that lose their connection, or a page, and connect again.
SPECIFICATION FairSpec
CONSTANTS
    Link <- Pair
    None = None
    MaxConns = 2
    MaxSends = 1
    MaxLost = 1
INVARIANTS TypeOK  
PROPERTIES EventuallyReady
CHECK_DEADLOCK FALSE
