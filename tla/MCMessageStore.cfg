CONSTANTS
    id1 = id1
    id2 = id2
    ch1 = ch1
    ch2 = ch2
    k1 = k1
    k2 = k2
    Id = {id1, id2}
    Channel = {ch1, ch2}
    Caller = {k1}
    Start <- MCStart
    MaxTime = 3
    MaxLen = 2
    MaxBatch = 1
    Overlap = FALSE
SPECIFICATION Spec
INVARIANTS TypeOK 
  
SYMMETRY MCChannelSymmetry
CHECK_DEADLOCK FALSE
