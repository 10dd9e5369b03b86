SPECIFICATION Spec
CONSTANTS
    Workers = {w1, w2}
    Cap = 3
    Blank = Blank
    MaxPushes = 2
CHECK_DEADLOCK FALSE
INVARIANTS
    NoSilentDrop
