SPECIFICATION FairSpec
CONSTANTS
    Photo = {ph}
    Steps = 2
    Soak = {2}
    MaxDeeds = 4
    MaxFaults = 1
INVARIANT TypeOK
INVARIANT NoBlindRetest
INVARIANT EvidenceIsWhole
PROPERTY PatternComesWithStep
CHECK_DEADLOCK FALSE
