\* One player a side, an organizer, a kiosk, every validation mode, two results.
CONSTANTS
    a1 = a1
    a2 = a2
    b1 = b1
    org = org
    kiosk = kiosk
    nobody = nobody
    SideA <- SoloA
    SideB <- SoloB
    Admins <- Organizers
    Kiosk <- kiosk
    NoUser <- nobody
    ValidationModes <- AllModes
    CompetitionMode = "ranked"
    TrustThreshold = 1
    InitialTrust = {0, 1}
    MaxEntries = 2
SPECIFICATION Spec
INVARIANTS
    TypeOK
    DisputeMatchesVotes
    OnlyOrganizersOverrule
    TrustLedgerNeverNegative
    ConsensusOfBothSides
    OpenPostDisputesAreAnswerable
    NoOrphanAction

PROPERTIES
    ImplementsContract
