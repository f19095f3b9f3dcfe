\* Any format; draws of two to four entries are played, by two requests at once.
CONSTANTS
    req1 = req1
    req2 = req2
    DrawSizes = {2, 3, 4, 5, 7, 8, 13, 16}
    Formats = {"single", "single_bronze", "double"}
    Seedings = {"random"}
    MaxSource = 0
    MaxPlayed = 4
    AllowDraw = FALSE
    Handlers = {req1, req2}
    MaxDraws = 1
    MaxMishaps = 1
SPECIFICATION Spec
SYMMETRY SymRequests
INVARIANTS
    TypeOK
    FullyFed
    EveryEntryIsDrawn
    TopSeedsAreKeptApart
    
    
    
    
\* A bracket may be over.
CHECK_DEADLOCK FALSE
