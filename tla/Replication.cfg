SPECIFICATION FairSpec
CONSTANTS
    GenerationMod = 8
    Subscriber = s1
    StartEpochs = {1, 2}
    MigrationThreshold = 2
    Clock = {1, 2}
    MaxGeneration = 4
    MaxMisroutes = 4
INVARIANTS
    TypeOK
    IInv
    QuiescentAgreement
    ForwardTargetOwns
    SplitBrainIsEnding
    CounterCountsThisOwnership
PROPERTIES
    GenerationNeverDrops
    ClaimsReachPeer
    EventualAgreement
    ImplementsRegister
