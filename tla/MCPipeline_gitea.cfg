SPECIFICATION Spec
CONSTANTS
    PullRequests = {}
    Soft = 3
    Hard = 2
    ListsFrom = 1
    Retries = 2
    Changes = {}
    Context = 3
    Extras = {}
    Readers = {}
    Commands = {"improve"}
    MaxCommits = 1
    Publications <- GiteaPublications
    FileLength = 8
    Near = 2
    Threshold = 0
    Dual = 6
    MaxFailures = 0
INVARIANTS PostedOnce
CHECK_DEADLOCK FALSE
