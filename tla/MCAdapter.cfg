SPECIFICATION RolloutSpec
CONSTANTS
    GenerationMod = 8
    LocalBox = 1
    Modes = {"DISABLED", "OBSERVE", "ENFORCE"}
    MigrationThreshold = 1
    RecordCap = 2
    EventCap = 3
    OutboundCap = 3
    Subscribers = {0, 1, 2}
    Clock = {1}
    PeerFrames <- PeerClaims
    DirectEvents <- DirectPushes
    Free = Free
    MaxGeneration = 3
    MaxCalls = 6
CHECK_DEADLOCK FALSE
INVARIANTS
    AdapterTypeOK
    SlotsReachable
    ClaimsAccounted
    OutboundInOrder
    EventsAccounted
    ObservePredictsEnforce
PROPERTIES
    ImplementsStore
