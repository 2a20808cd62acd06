\* A message waits in the outbox while its peer reconnects.
SPECIFICATION Spec
CONSTANTS
    Link <- Pair
    None = None
    MaxConns = 2
    MaxSends = 1
    MaxLost = 0
INVARIANTS QueuedOpens
CHECK_DEADLOCK FALSE
