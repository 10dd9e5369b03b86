SPECIFICATION FaultsSpec
CONSTANTS
    GenerationMod = 8
    Subscriber = s1
    StartEpochs = {1}
    MigrationThreshold = 1
    Clock = {1}
    MaxGeneration = 3
    MaxMisroutes = 1
    Faults = {"emit", "loss", "peer_down", "restart_same", "restart_later"}
    MaxRestarts = 1
CHECK_DEADLOCK FALSE
INVARIANTS
    FaultsInv
    DisagreementIsAGap
    ForwardTargetOwnsOrRestarted
PROPERTIES
    StandingSplitStays
