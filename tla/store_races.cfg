SPECIFICATION Spec
CONSTANTS
    MaxSessions = 2
    Test = {t1}
    Loop = {loop}
    Pool = {p1, p2}
    InFlight = 2
    Ops = {"create", "start", "attempt", "complete", "reopen"}
    MaxAnswers = 2
    MaxCrashes = 1
SYMMETRY Symmetry
INVARIANT StartAloneWins
INVARIANT HistoryAudited
INVARIANT RefusedChangesNothing
PROPERTY EarnedAtCompletion
