SPECIFICATION FairSpec
CONSTANTS
    Pool = {p1}
    DisplayBackends = {"auto", "real"}
    AudioBackends = {"auto"}
    MaxChanges = 2
    MaxFailures = 1
    MaxRestarts = 1
INVARIANT TypeOK
INVARIANT KindIsOfTheAnswer
INVARIANT LogTellsConnection
PROPERTY WatcherNotices
