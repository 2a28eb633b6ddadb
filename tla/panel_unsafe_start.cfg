SPECIFICATION Spec
CONSTANTS
    Press = {p1, p2}
    Impatient = {"start"}
    NTests = 2
    MaxSessions = 2
    MaxReports = 1
    MaxLost = 0
    MaxPhone = 0
INVARIANT StartAlwaysSafe
