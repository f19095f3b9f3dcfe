\* Three players, two matches finalized in any order.
CONSTANTS
    ana = ana
    bea = bea
    cyd = cyd
    Players = {ana, bea, cyd}
    Pairing <- TwoMatches
    BaseMmr = 2
    MaxAmendments = 2
    MaxFaults = 1
SPECIFICATION Spec
INVARIANTS
    TypeOK
    HistoryOfFinalizedMatches
    HistoryIsAChain
\* Every match may be deleted and the queue empty.
CHECK_DEADLOCK FALSE
