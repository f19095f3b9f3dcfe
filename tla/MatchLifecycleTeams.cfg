\* Two players against one, and the organizer is one of the two; three results.
CONSTANTS
    a1 = a1
    a2 = a2
    b1 = b1
    org = org
    kiosk = kiosk
    nobody = nobody
    SideA <- TeamA
    SideB <- SoloB
    Admins <- PlayingOrganizer
    Kiosk <- kiosk
    NoUser <- nobody
    ValidationModes <- AutoStrictNone
    CompetitionMode = "championship"
    TrustThreshold = 2
    InitialTrust = {1}
    MaxEntries = 3
SPECIFICATION Spec
INVARIANTS
    ConsensusOfBothSides
    TrustLedgerNeverNegative
    LifecycleInv
