SPECIFICATION FairSpec
CONSTANTS
    Press = {p1, p2}
    Impatient = {"start", "answer", "complete"}
    NTests = 2
    MaxSessions = 2
    MaxReports = 2
    MaxLost = 1
    MaxPhone = 1
INVARIANT TypeOK
INVARIANT CompleteMeansTested
PROPERTY PanelInStep
PROPERTY AnsweredIsReported
