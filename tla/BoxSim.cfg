SPECIFICATION Spec
CONSTANTS
    GenerationMod = 16
    Subscriber = s1
    Iterations = 6
    BoxConfigs <- AllCommandLines
CHECK_DEADLOCK FALSE
INVARIANTS
    SimInv
    RepeatingMakesUpForDrops
    SplitsOnlyByRepetition
    TimelineHolds
