SPECIFICATION FairSpec
CONSTANTS
    Matches = {m1, m2}
    Author = author
    Opponent = opponent
    Requests = {req1, req2}
    Sweep = sweep
    MaxRequests = 3
    MaxShared = 2
INVARIANTS
    TypeOK
    ConsensusIsNeverMissed
    ContestIsNeverMissed
    OnlyLateContestsAreOverruled
    OnlyOvertakenHandlersReopen
PROPERTIES
    DueMatchMovesOn
CHECK_DEADLOCK FALSE
