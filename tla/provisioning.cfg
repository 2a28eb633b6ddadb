SPECIFICATION FairSpec
CONSTANTS
    Pool = {p1, p2}
    MaxRequests = 2
    MaxKills = 2
    Statements = 2
INVARIANT TypeOK
INVARIANT FileIsWhole
INVARIANT AcknowledgedIsKept
PROPERTY ServiceComesUp
CHECK_DEADLOCK FALSE
