SPECIFICATION Spec
CONSTANTS
    MaxSessions = 2
    Test = {t1, t2}
    Loop = {loop}
    Pool = {p1}
    InFlight = 1
    Ops = {"create", "autostart", "edit_tests", "edit_other", "delete", "review", "reopen", "start", "attempt", "complete"}
    MaxAnswers = 3
    MaxCrashes = 1
INVARIANT TypeOK
INVARIANT SingleActive
INVARIANT VerdictEarned
INVARIANT CompletedReadOnly
PROPERTY ImplementsLifecycle
SYMMETRY Symmetry
