SPECIFICATION Spec
CONSTANTS
    Handler = {h1, h2}
    MaxRuns = 3
    MaxOutages = 0
    MaxStops = 0
INVARIANT CompletedRanInFull
