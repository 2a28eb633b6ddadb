SPECIFICATION Spec
CONSTANTS
    Session = {s1, s2}
    MaxJobs = 3
    MaxDays = 2
    MaxKills = 1
    MaxReopens = 1
CHECK_DEADLOCK FALSE
INVARIANT TypeOK
INVARIANT RevisionsContiguous
INVARIANT LastOfDayIntact
INVARIANT FreshCodeOnNewScreen
