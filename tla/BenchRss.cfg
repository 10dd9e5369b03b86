SPECIFICATION FairSpec
CONSTANTS
    Modes = {"BASELINE", "OBSERVE", "ENFORCE"}
    GenerationMod = 16
    NumRss = 1
    NumWorkers = 2
    NumShards = 1
    RingSize = 2
    Garbage = {0, 9}
    MaxPackets = 4
CHECK_DEADLOCK FALSE
INVARIANTS
    RssInv
    PacketsAccounted
    ReportsAccounted
    OneTakeover
PROPERTIES
    RunEnds
