\* A disputed match that is rescheduled.
CONSTANTS
    a1 = a1
    a2 = a2
    b1 = b1
    org = org
    kiosk = kiosk
    nobody = nobody
    SideA <- SoloA
    SideB <- SoloB
    Admins <- Organizers
    Kiosk <- kiosk
    NoUser <- nobody
    ValidationModes <- AutoAndStrict
    CompetitionMode = "ranked"
    TrustThreshold = 1
    InitialTrust = {0}
    MaxEntries = 2
SPECIFICATION Spec
INVARIANTS
    DisputeKeepsItsRequest
