\* Two servers and one request, three seasons, one fault, three edits.
CONSTANTS
    server1 = server1
    server2 = server2
    request = request
    request2 = request2
    nobody = nobody
    MaxSeasons = 3
    Instances <- TwoServers
    Requests <- OneRequest
    NoRun <- nobody
    MaxFaults = 1
    MaxEdits = 3
SPECIFICATION FairSpec
INVARIANTS
    TypeOK
    OneScheduledRun
    OneSuccessorOpened
    ChainCarriedOn
    OneActiveSeason
PROPERTIES
    DueChainMovesOn
\* Every season id may have been used up and deleted.
CHECK_DEADLOCK FALSE
