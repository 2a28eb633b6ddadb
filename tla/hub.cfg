SPECIFICATION FairSpec
CONSTANTS
    Page = {k, b}
    Kiosk = {k}
    Socket = {w1, w2, w3}
    MaxQueue = 2
    MaxWire = 1
    MaxPatterns = 3
    MaxEvents = 2
    MaxBreaks = 2
CHECK_DEADLOCK FALSE
INVARIANT TypeOK
INVARIANT ActivePatternOnItsWay
INVARIANT KioskReported
PROPERTY ShownInTheEnd
