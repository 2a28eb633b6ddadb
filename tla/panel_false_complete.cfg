SPECIFICATION Spec
CONSTANTS
    Press = {p1}
    Impatient = {}
    NTests = 2
    MaxSessions = 2
    MaxReports = 1
    MaxLost = 0
    MaxPhone = 1
INVARIANT CompleteNeverStale
