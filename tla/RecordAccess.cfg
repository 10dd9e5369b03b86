SPECIFICATION Spec
CONSTANTS
    GenerationMod = 8
    LocalBox = 1
    MigrationThreshold = 1
    MaxGeneration = 2
    PeerClaims <- Announcements
INVARIANTS
    AccessInv
    SerialUnlessRaced
    AnnouncesOwnClaim
