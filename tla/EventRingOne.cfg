SPECIFICATION FairSpec
CONSTANTS
    Workers = {w1}
    Cap = 3
    Blank = Blank
    MaxPushes = 8
CHECK_DEADLOCK FALSE
INVARIANTS
    RingInv
PROPERTIES
    ImplementsChannel
    EventsArrive
