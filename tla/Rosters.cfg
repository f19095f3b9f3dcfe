SPECIFICATION Spec
CONSTANTS
    Players = {p1, p2, p3}
    Teams = {t1, t2}
    MinTeamSize = 1
    MaxTeamSize = 2
    Mode = "bracket"
    None = none
    Requests = {req1, req2}
    MaxRequests = 3
SYMMETRY Interchangeable
INVARIANTS
    TypeOK
    SeatsAreTakenOnce
    NoDesertedTeam
    FieldedLineUpIsKept
PROPERTIES
    OnlyOrganizersBringBack
CHECK_DEADLOCK FALSE
