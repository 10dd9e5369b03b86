SPECIFICATION FairSpec
CONSTANTS
    GenerationMod = 16
    NumWorkers = 2
    NumShards = 2
    RingSize = 2
    Garbage = {0, 9}
    MaxEvents = 3
CHECK_DEADLOCK FALSE
INVARIANTS
    PipelineInv
    PipelineAccounted
    LossIsBounded
PROPERTIES
    EndsUnlessLost
