SPECIFICATION FaultsSpec
CONSTANTS
    GenerationMod = 8
    Subscriber = s1
    StartEpochs = {1}
    MigrationThreshold = 1
    Clock = {1}
    MaxGeneration = 2
    MaxMisroutes = 0
    Faults = {"restart_same"}
    MaxRestarts = 1
CHECK_DEADLOCK FALSE
INVARIANTS
    NoStandingLoop
