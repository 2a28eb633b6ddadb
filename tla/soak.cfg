SPECIFICATION FairSpec
CONSTANTS
    Handler = {h1, h2, h3}
    MaxRuns = 3
    MaxOutages = 1
    MaxStops = 1
INVARIANT TypeOK
INVARIANT CompletedSerially
INVARIANT LiveRunOwned
INVARIANT FaultsOfThisRun
PROPERTY ClosedRunsFrozen
PROPERTY EveryRunCloses
