SPECIFICATION Spec
CONSTANTS
    PullRequests <- MCPullRequests
    Soft = 3
    Hard = 2
    ListsFrom = 1
    Retries = 2
    Changes <- MCChanges
    Context = 3
    Extras <- MCExtras
    Readers <- MCReaders
    Commands = {"review", "increment", "improve"}
    MaxCommits = 3
    Publications <- MCPublications
    FileLength = 8
    Near = 2
    Threshold = 0
    Dual = 6
    MaxFailures = 1
INVARIANTS DiffIsDivided EachCallItsModel PatchesFaithful ReadsOneVersion NothingLost PlacedOnce AsReflected
PROPERTIES RequestEnds PublicationEnds
CHECK_DEADLOCK FALSE
